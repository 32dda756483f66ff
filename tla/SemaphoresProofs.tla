-------------------------- MODULE SemaphoresProofs --------------------------
(***************************************************************************)
(* The safety properties of Semaphores, proved for any number of processes *)
(* and semaphores.                                                         *)
(***************************************************************************)
EXTENDS Semaphores, LinkProofs

(* What keeps the types: pointers that are followed are not NIL, and the   *)
(* loop of ReSchedule is only entered with a step left.                    *)
PointersOK ==
    /\ cp \in Started /\ s0 \in Started
    /\ \A p \in Started : next[p] \in Started
    /\ \A p \in Process : waiting[p] # NIL => waiting[p] \in Created
    /\ mode = "reschedule" => i > 0

TypeInv == TypeOK /\ PointersOK

LEMMA TypeInvInit == Init => TypeInv
  BY CoroutineAssumption, SemaphoresAssumption
  DEF Init, TypeInv, TypeOK, PointersOK, Started, Created, CoroutineInit,
      CoroutineTypeOK, Modes

LEMMA TypeInvStep == TypeInv /\ [Next]_vars => TypeInv'
<1> SUFFICES ASSUME TypeInv, [Next]_vars PROVE TypeInv'
  OBVIOUS
<1> USE CoroutineAssumption, SemaphoresAssumption
<1> USE DEF TypeInv, TypeOK, PointersOK, Started, Created, CoroutineTypeOK, Modes
<1>1. ASSUME NEW s \in Sema, NEW n \in 0..MaxLevel, NewSema(s, n)
      PROVE  TypeInv'
  BY <1>1 DEF NewSema, coroutineVars
<1>2. ASSUME NEW p \in Process, StartProcess(p)
      PROVE  TypeInv'
  BY <1>2 DEF StartProcess, Linked, TRANSFER, NEWPROCESS, Running
<1>3. ASSUME NEW p \in Process, StartProcessTooLarge(p)
      PROVE  TypeInv'
  BY <1>3 DEF StartProcessTooLarge, Linked, TRANSFERTooLarge, NEWPROCESS,
              Running, coroutineVars
<1>4. ASSUME NEW s \in Sema, Up(s)
      PROVE  TypeInv'
  BY <1>4 DEF Up, EnterReSchedule, coroutineVars
<1>5. ASSUME NEW s \in Sema, Down(s)
      PROVE  TypeInv'
  BY <1>5 DEF Down, EnterReSchedule, coroutineVars
<1>6. CASE ReSchedule
  BY <1>6 DEF ReSchedule, RunnableEffect, Runnable, Wakes, Dispatch, Deadlocked,
              TRANSFER, TRANSFERTooLarge, Running, coroutineVars
<1>7. CASE Exit
  BY <1>7 DEF Exit, coroutineVars
<1>8. CASE UNCHANGED vars
  BY <1>8 DEF vars, coroutineVars
<1> QED
  BY <1>1, <1>2, <1>3, <1>4, <1>5, <1>6, <1>7, <1>8 DEF Next

(* Every variable keeps its type: in particular no level is decremented    *)
(* below zero, and no NIL pointer is followed.                             *)
THEOREM TypeCorrect == Spec => []TypeOK
<1>1. Spec => []TypeInv
  BY TypeInvInit, TypeInvStep, PTL DEF Spec
<1> QED
  BY <1>1, PTL DEF TypeInv
-----------------------------------------------------------------------------
(* A mutex has one unit: it is the level, or a process holds it. *)
MutexInv ==
    \A m \in Mutex : /\ level[m] \in {NIL, 0, 1}
                     /\ level[m] # 0 => \A p \in Process : m \notin holds[p]

LEMMA MutexStep ==
    TypeInv /\ MutexInv /\ MutualExclusion /\ [Next]_vars
        => MutexInv' /\ MutualExclusion'
<1> SUFFICES ASSUME TypeInv, MutexInv, MutualExclusion, [Next]_vars
             PROVE  MutexInv' /\ MutualExclusion'
  OBVIOUS
<1> USE SemaphoresAssumption
<1> USE DEF TypeInv, TypeOK, PointersOK, Started, Created, MutexInv, MutualExclusion
<1>1. ASSUME NEW s \in Sema, NEW n \in 0..MaxLevel, NewSema(s, n)
      PROVE  MutexInv' /\ MutualExclusion'
  BY <1>1 DEF NewSema
<1>2. ASSUME NEW p \in Process, StartProcess(p) \/ StartProcessTooLarge(p)
      PROVE  MutexInv' /\ MutualExclusion'
  BY <1>2 DEF StartProcess, StartProcessTooLarge
<1>4. ASSUME NEW s \in Sema, Up(s)
      PROVE  MutexInv' /\ MutualExclusion'
  BY <1>4 DEF Up
<1>5. ASSUME NEW s \in Sema, Down(s)
      PROVE  MutexInv' /\ MutualExclusion'
  BY <1>5 DEF Down
<1>6. CASE ReSchedule
  BY <1>6 DEF ReSchedule, RunnableEffect, Wakes
<1>7. CASE Exit
  BY <1>7 DEF Exit
<1>8. CASE UNCHANGED vars
  BY <1>8 DEF vars
<1> QED
  BY <1>1, <1>2, <1>4, <1>5, <1>6, <1>7, <1>8 DEF Next

(* Mutual exclusion holds for any number of processes: Down takes the unit *)
(* of the running process, and Runnable takes it for a process it wakes.   *)
THEOREM MutualExclusionHolds == Spec => []MutualExclusion
<1>1. Init => MutexInv /\ MutualExclusion
  BY SemaphoresAssumption DEF Init, MutexInv, MutualExclusion
<1> QED
  BY <1>1, TypeInvInit, TypeInvStep, MutexStep, PTL DEF Spec
-----------------------------------------------------------------------------
LEMMA OneRingStep == TypeInv /\ OneRing /\ [Next]_vars => OneRing'
<1> SUFFICES ASSUME TypeInv, OneRing, [Next]_vars PROVE OneRing'
  OBVIOUS
<1> USE SemaphoresAssumption
<1>1. ASSUME NEW p \in Process, StartProcess(p) \/ StartProcessTooLarge(p)
      PROVE  OneRing'
  <2>1. /\ next[p] = NIL /\ next' = Linked(p)
        /\ p # cp /\ p # next[cp] /\ Started' = Started \cup {p}
    BY <1>1 DEF StartProcess, StartProcessTooLarge, Linked, Started, TypeInv,
                TypeOK, PointersOK
  <2>2. next'[p] = next[cp] /\ next'[cp] = p
    BY <2>1 DEF Linked, TypeInv, TypeOK
  <2>3. \A q \in Started \ {cp} : next'[q] = next[q]
    BY <2>1 DEF Linked, TypeInv, TypeOK, Started
  <2>4. cp \in Started /\ p \notin Started /\ \A q \in Started : next[q] \in Started
    BY <2>1 DEF TypeInv, PointersOK, Started
  <2>5. IsOneRing(Started, next)
    BY DEF OneRing, IsOneRing
  <2>6. IsOneRing(Started \cup {p}, next')
    BY <2>2, <2>3, <2>4, <2>5, InsertKeepsOneRing
  <2> QED
    BY <2>1, <2>6 DEF OneRing, IsOneRing
<1>2. CASE next' = next
  BY <1>2 DEF OneRing, Started
<1> QED
  BY <1>1, <1>2 DEF Next, vars, NewSema, Up, Down, EnterReSchedule, ReSchedule, Exit

(* The started processes are one ring, however many are started and from   *)
(* whichever process: a scan along next passes every one of them.          *)
THEOREM OneRingHolds == Spec => []OneRing
<1>1. Init => OneRing
  BY SemaphoresAssumption DEF Init, OneRing, Started
<1> QED
  BY <1>1, TypeInvInit, TypeInvStep, OneRingStep, PTL DEF Spec
-----------------------------------------------------------------------------
(* The process whose stack is live: during a scan still the caller s0. *)
Live == IF mode = "user" THEN cp ELSE s0

(* The live process runs on its own stack; the descriptor of every other   *)
(* started process leads to its saved stack.                               *)
StackInv ==
    mode \in {"user", "reschedule"} =>
        /\ Running = AreaOf[Live]
        /\ \A p \in Started \ {Live} : proc[p] = AreaOf[p] /\ proc[p] \in saved

LEMMA StackStep == TypeInv /\ StackInv /\ [Next]_vars => StackInv'
<1> SUFFICES ASSUME TypeInv, StackInv, [Next]_vars PROVE StackInv'
  OBVIOUS
<1> USE CoroutineAssumption, SemaphoresAssumption
<1> USE DEF TypeInv, TypeOK, PointersOK, CoroutineTypeOK, StackInv, Live, Started,
            Running
<1>1. ASSUME NEW s \in Sema, NEW n \in 0..MaxLevel, NewSema(s, n)
      PROVE  StackInv'
  BY <1>1 DEF NewSema, coroutineVars
<1>2. ASSUME NEW p \in Process, StartProcess(p)
      PROVE  StackInv'
  BY <1>2 DEF StartProcess, Linked, TRANSFER, NEWPROCESS
<1>3. ASSUME NEW p \in Process, StartProcessTooLarge(p)
      PROVE  StackInv'
  BY <1>3 DEF StartProcessTooLarge
<1>4. ASSUME NEW s \in Sema, Up(s) \/ Down(s)
      PROVE  StackInv'
  BY <1>4 DEF Up, Down, EnterReSchedule, coroutineVars
<1>5. CASE ReSchedule
  BY <1>5 DEF ReSchedule, Dispatch, TRANSFER, coroutineVars
<1>6. CASE Exit
  BY <1>6 DEF Exit
<1>7. CASE UNCHANGED vars
  BY <1>7 DEF vars, coroutineVars
<1> QED
  BY <1>1, <1>2, <1>3, <1>4, <1>5, <1>6, <1>7 DEF Next

(* ReSchedule never loads an area that holds no saved stack, and the       *)
(* scheduler's cp and the coroutine layer's curproc agree.                 *)
THEOREM ResumesSavedStackHolds == Spec => []ResumesSavedStack
<1>1. Init => StackInv
  BY SemaphoresAssumption DEF Init, StackInv, Live, Started, Running, CoroutineInit
<1>2. TypeInv /\ StackInv => ResumesSavedStack
  BY DEF TypeInv, PointersOK, StackInv, Live, ResumesSavedStack, CanTransfer
<1> QED
  BY <1>1, <1>2, TypeInvInit, TypeInvStep, StackStep, PTL DEF Spec
-----------------------------------------------------------------------------
Blocked(p) == waiting[p] # NIL /\ level[waiting[p]] = 0

(* As long as the scan met no process that can run (i = j) the processes   *)
(* it passed, a segment of the ring that starts behind s0 and ends at cp,  *)
(* are all blocked.                                                        *)
ScanInv ==
    /\ mode = "reschedule" => i <= j
    /\ (mode = "reschedule" /\ i = j) =>
          \E S \in SUBSET Started :
             /\ \A p \in S : Blocked(p)
             /\ \A p \in S : p = cp \/ next[p] \in S
             /\ \/ S = {} /\ cp = s0
                \/ cp \in S /\ s0 \notin S /\ next[s0] \in S

LEMMA ScanStep ==
    TypeInv /\ OneRing /\ ScanInv /\ DeadlockExact /\ [Next]_vars
        => ScanInv' /\ DeadlockExact'
<1> SUFFICES ASSUME TypeInv, OneRing, ScanInv, DeadlockExact, [Next]_vars
             PROVE  ScanInv' /\ DeadlockExact'
  OBVIOUS
<1> USE SemaphoresAssumption
<1>1. ASSUME NEW s \in Sema, Up(s) \/ Down(s)
      PROVE  ScanInv' /\ DeadlockExact'
  <2>1. mode' = "reschedule" /\ cp' = s0' /\ j' = i' /\ i' \in Nat
    BY <1>1 DEF Up, Down, EnterReSchedule, TypeInv, TypeOK
  <2>2. \E S \in SUBSET Started' :
           /\ \A p \in S : Blocked(p)'
           /\ \A p \in S : p = cp' \/ next'[p] \in S
           /\ S = {} /\ cp' = s0'
    <3> WITNESS {} \in SUBSET Started'
    <3> QED
      BY <2>1
  <2> QED
    BY <2>1, <2>2 DEF ScanInv, DeadlockExact
<1>2. CASE ReSchedule
  <2> DEFINE p == next[cp]
  <2>0. p \in Started /\ cp' = p
    BY <1>2 DEF ReSchedule, TypeInv, PointersOK
  <2>1. CASE Runnable(p)
    <3>1. i' = i - 1 /\ j' = j /\ i' < j'
      BY <1>2, <2>1 DEF ReSchedule, ScanInv, TypeInv, TypeOK
    <3>2. mode' # "deadlock"
      BY <1>2, <2>1, <3>1 DEF ReSchedule, Dispatch, Deadlocked, TypeInv, TypeOK
    <3> QED
      BY <3>1, <3>2 DEF ScanInv, DeadlockExact, TypeInv, TypeOK
  <2>2. CASE ~Runnable(p)
    <3>1. /\ i' = i /\ j' = j /\ next' = next /\ s0' = s0 /\ Started' = Started
          /\ waiting' = waiting /\ level' = level
          /\ mode' = IF p = s0 /\ j = i THEN "deadlock" ELSE "reschedule"
      BY <1>2, <2>2 DEF ReSchedule, RunnableEffect, Runnable, Wakes, Deadlocked,
                        Started
    <3>2. Blocked(p)
      BY <2>0, <2>2 DEF Runnable, Blocked, TypeInv, TypeOK, PointersOK, Started,
                        Created
    <3>3. CASE i # j
      BY <1>2, <3>1, <3>3 DEF ScanInv, DeadlockExact, ReSchedule
    <3>4. CASE i = j
      <4>1. PICK S \in SUBSET Started :
               /\ \A q \in S : Blocked(q)
               /\ \A q \in S : q = cp \/ next[q] \in S
               /\ \/ S = {} /\ cp = s0
                  \/ cp \in S /\ s0 \notin S /\ next[s0] \in S
        BY <1>2, <3>4 DEF ScanInv, ReSchedule
      <4> DEFINE T == S \cup {p}
      <4>2. T \in SUBSET Started /\ \A q \in T : Blocked(q)
        BY <2>0, <3>2, <4>1
      <4>3. \A q \in S : next[q] \in T
        BY <4>1
      <4>4. CASE p = s0
        <5>1. \A q \in T : next[q] \in T
          BY <4>1, <4>3, <4>4
        <5>2. T = Started
          BY <4>2, <5>1 DEF OneRing
        <5> QED
          BY <3>1, <3>4, <4>2, <4>4, <5>2 DEF ScanInv, DeadlockExact, Blocked
      <4>5. CASE p # s0
        <5>1. \A q \in T : q = p \/ next[q] \in T
          BY <4>3
        <5>2. p \in T /\ s0 \notin T /\ next[s0] \in T
          BY <4>1, <4>5
        <5>3. \A q \in T : Blocked(q)'
          BY <3>1, <4>2 DEF Blocked
        <5>4. i' <= j'
          BY <1>2, <3>1 DEF ScanInv, ReSchedule
        <5>5. mode' = "reschedule"
          BY <3>1, <4>5
        <5> HIDE DEF T
        <5>6. ScanInv'
          BY <2>0, <3>1, <4>2, <5>1, <5>2, <5>3, <5>4 DEF ScanInv
        <5> QED
          BY <5>5, <5>6 DEF DeadlockExact
      <4> QED
        BY <4>4, <4>5
    <3> QED
      BY <3>3, <3>4
  <2> QED
    BY <2>1, <2>2
<1>3. ASSUME mode' \in {"user", "trap", "exit"}
      PROVE  ScanInv' /\ DeadlockExact'
  BY <1>3 DEF ScanInv, DeadlockExact
<1>4. CASE UNCHANGED vars
  BY <1>4 DEF vars, ScanInv, DeadlockExact, Started, Blocked
<1> QED
  BY <1>1, <1>2, <1>3, <1>4
  DEF Next, NewSema, StartProcess, StartProcessTooLarge, Exit

(* The message "deadlock" is never printed while some process could run,   *)
(* whatever the random step and the number of processes.                   *)
THEOREM DeadlockExactHolds == Spec => []DeadlockExact
<1>1. Init => OneRing /\ ScanInv /\ DeadlockExact
  BY SemaphoresAssumption DEF Init, OneRing, Started, ScanInv, DeadlockExact
<1> QED
  BY <1>1, TypeInvInit, TypeInvStep, OneRingStep, ScanStep, PTL DEF Spec
=============================================================================
