----------------------------- MODULE Semaphores -----------------------------
(***************************************************************************)
(* lang/m2/libm2/Semaphores.mod: processes with counting semaphores.       *)
(*                                                                         *)
(* All started processes form a ring (next).  One of them, cp, runs; the   *)
(* only opportunities for a switch are Up, Down and StartProcess.  A       *)
(* process that finds the level of its semaphore 0 is marked as waiting,   *)
(* and is woken by the scan of ReSchedule that first passes it when the    *)
(* level is positive: that scan, and not Up, takes the unit for it.        *)
(*                                                                         *)
(* The bodies of the processes are not modelled: whoever runs makes any    *)
(* call the interface allows.  The semaphores in Mutex are those that the  *)
(* program uses for mutual exclusion: created at level 1, Up only by a     *)
(* process that is past its Down.  The variable holds records who is.      *)
(***************************************************************************)
EXTENDS Coroutines

CONSTANTS Process,   \* the process descriptors a program ever allocates
          Main,      \* the descriptor allocated by the module body
          AreaOf,    \* the workspace StartProcess allocates with a descriptor
          Sema,      \* the semaphores a program ever creates
          Mutex,     \* the ones it uses for mutual exclusion
          MaxStep,   \* upper bound of the random step of ReSchedule (5)
          MaxLevel   \* the bound on a level

ASSUME SemaphoresAssumption ==
    /\ Main \in Process
    /\ NIL \notin Process \cup Sema \cup Nat
    /\ Mutex \subseteq Sema
    /\ AreaOf \in [Process -> Area]
    /\ AreaOf[Main] = MainArea
    /\ \A p, q \in Process : AreaOf[p] = AreaOf[q] => p = q
    /\ MaxStep \in Nat \ {0}
    /\ MaxLevel \in Nat \ {0}

VARIABLES cp,        \* current process
          next,      \* the ring; NIL for a descriptor not allocated
          proc,      \* the coroutine of a process, as TRANSFER last stored it
          waiting,   \* the semaphore a process waits for, or NIL
          level,     \* the levels; NIL for a semaphore not created
          mode,      \* what the running process is executing, see Modes
          s0, i, j,  \* the locals of ReSchedule
          holds      \* history: the mutexes a process is past the Down of

vars == <<cp, next, proc, waiting, level, mode, s0, i, j, holds, coroutineVars>>

Modes == {"user",        \* the body of cp, outside this module
          "reschedule",  \* the loop of ReSchedule
          "deadlock",    \* halted after the message "deadlock"
          "trap",        \* ended by trap M2_TOOLARGE
          "exit"}        \* ended by a process that returned

Started == {p \in Process : next[p] # NIL}
Created == {s \in Sema : level[s] # NIL}

TypeOK ==
    /\ CoroutineTypeOK
    /\ cp \in Process
    /\ next \in [Process -> Process \cup {NIL}]
    /\ proc \in [Process -> Area \cup {NIL}]
    /\ waiting \in [Process -> Sema \cup {NIL}]
    /\ level \in [Sema -> Nat \cup {NIL}]
    /\ mode \in Modes
    /\ s0 \in Process
    /\ i \in 0..MaxStep
    /\ j \in 0..MaxStep
    /\ holds \in [Process -> SUBSET Mutex]
-----------------------------------------------------------------------------
(* The module body. *)
Init ==
    /\ CoroutineInit
    /\ cp = Main
    /\ next = [p \in Process |-> IF p = Main THEN Main ELSE NIL]
    /\ proc = [p \in Process |-> NIL]
    /\ waiting = [p \in Process |-> NIL]
    /\ level = [s \in Sema |-> NIL]
    /\ mode = "user"
    /\ s0 = Main
    /\ i = 0
    /\ j = 0
    /\ holds = [p \in Process |-> {}]

NewSema(s, n) ==
    /\ mode = "user"
    /\ level[s] = NIL
    /\ s \in Mutex => n = 1
    /\ level' = [level EXCEPT ![s] = n]
    /\ UNCHANGED <<cp, next, proc, waiting, mode, s0, i, j, holds, coroutineVars>>

(* The ring with p inserted behind the running process. *)
Linked(p) == [next EXCEPT ![p] = next[cp], ![cp] = p]

(* StartProcess links the new descriptor behind the running process and    *)
(* transfers to it.                                                        *)
StartProcess(p) ==
    /\ mode = "user"
    /\ next[p] = NIL
    /\ next' = Linked(p)
    /\ waiting' = [waiting EXCEPT ![p] = NIL]
    /\ cp' = p
    /\ proc' = [proc EXCEPT ![p] = AreaOf[p], ![cp] = Running]
    /\ TRANSFER(NEWPROCESS(saved, AreaOf[p]), AreaOf[p])
    /\ UNCHANGED <<level, mode, s0, i, j, holds>>

(* A StartProcess that ends in the trap M2_TOOLARGE of NEWPROCESS, before  *)
(* anything is saved, or of TRANSFER, when the caller has outgrown its own *)
(* area.                                                                   *)
StartProcessTooLarge(p) ==
    /\ mode = "user"
    /\ next[p] = NIL
    /\ next' = Linked(p)
    /\ waiting' = [waiting EXCEPT ![p] = NIL]
    /\ cp' = p
    /\ mode' = "trap"
    /\ \/ UNCHANGED <<proc, coroutineVars>>
       \/ /\ proc' = [proc EXCEPT ![p] = AreaOf[p], ![cp] = Running]
          /\ TRANSFERTooLarge(NEWPROCESS(saved, AreaOf[p]))
    /\ UNCHANGED <<level, s0, i, j, holds>>

(* The entry of ReSchedule, up to its loop. *)
EnterReSchedule ==
    /\ mode' = "reschedule"
    /\ s0' = cp
    /\ i' \in 1..MaxStep
    /\ j' = i'
    /\ UNCHANGED <<cp, next, proc, coroutineVars>>

UpWithoutReSchedule(s) ==
    /\ mode = "user"
    /\ s \in Created
    /\ level[s] < MaxLevel
    /\ s \in Mutex => s \in holds[cp]
    /\ level' = [level EXCEPT ![s] = level[s] + 1]
    /\ holds' = [holds EXCEPT ![cp] = holds[cp] \ {s}]
    /\ UNCHANGED <<cp, next, proc, waiting, mode, s0, i, j, coroutineVars>>

Up(s) ==
    /\ mode = "user"
    /\ s \in Created
    /\ level[s] < MaxLevel
    /\ s \in Mutex => s \in holds[cp]
    /\ level' = [level EXCEPT ![s] = level[s] + 1]
    /\ holds' = [holds EXCEPT ![cp] = holds[cp] \ {s}]
    /\ EnterReSchedule
    /\ UNCHANGED waiting

Down(s) ==
    /\ mode = "user"
    /\ s \in Created
    /\ s \in Mutex => s \notin holds[cp]
    /\ IF level[s] = 0
       THEN /\ waiting' = [waiting EXCEPT ![cp] = s]
            /\ UNCHANGED <<level, holds>>
       ELSE /\ level' = [level EXCEPT ![s] = level[s] - 1]
            /\ holds' = [holds EXCEPT ![cp] = holds[cp] \cup ({s} \cap Mutex)]
            /\ UNCHANGED waiting
    /\ EnterReSchedule

(***************************************************************************)
(* One turn of the loop of ReSchedule.  Runnable has a side effect: a      *)
(* waiting process whose semaphore is positive is woken and takes a unit,  *)
(* also when the scan then goes on.                                        *)
(***************************************************************************)
Wakes(p) == waiting[p] # NIL /\ level[waiting[p]] > 0
Runnable(p) == waiting[p] # NIL => level[waiting[p]] > 0

RunnableEffectNoUnit(p) ==
    /\ waiting' = [waiting EXCEPT ![p] = NIL]
    /\ holds' = IF Wakes(p)
                THEN [holds EXCEPT ![p] = holds[p] \cup ({waiting[p]} \cap Mutex)]
                ELSE holds
    /\ UNCHANGED level

RunnableEffect(p) ==
    IF Wakes(p)
    THEN /\ level' = [level EXCEPT ![waiting[p]] = level[waiting[p]] - 1]
         /\ holds' = [holds EXCEPT ![p] = holds[p] \cup ({waiting[p]} \cap Mutex)]
         /\ waiting' = [waiting EXCEPT ![p] = NIL]
    ELSE UNCHANGED <<level, holds, waiting>>

(* The exit from the loop: transfer to p unless it is the caller. *)
Dispatch(p) ==
    IF p = s0
    THEN /\ mode' = "user"
         /\ UNCHANGED <<proc, coroutineVars>>
    ELSE /\ proc' = [proc EXCEPT ![s0] = Running]
         /\ \/ mode' = "user" /\ TRANSFER(saved, proc[p])
            \/ mode' = "trap" /\ TRANSFERTooLarge(saved)

(* The scan is back at the caller and met no process that can run. *)
DeadlockedAnyScan(p, i1) == p = s0
DeadlockedNever(p, i1) == FALSE
Deadlocked(p, i1) == p = s0 /\ j = i1

ReSchedule ==
    LET p == next[cp]
        i1 == IF Runnable(p) THEN i - 1 ELSE i
    IN  /\ mode = "reschedule"
        /\ cp' = p
        /\ i' = i1
        /\ RunnableEffect(p)
        /\ \/ /\ Runnable(p) /\ i1 = 0
              /\ Dispatch(p)
           \/ /\ ~(Runnable(p) /\ i1 = 0)
              /\ mode' = IF Deadlocked(p, i1) THEN "deadlock" ELSE "reschedule"
              /\ UNCHANGED <<proc, coroutineVars>>
        /\ UNCHANGED <<next, s0, j>>

(* A process, or the main program, that returns ends the whole program. *)
Exit ==
    /\ mode = "user"
    /\ mode' = "exit"
    /\ UNCHANGED <<cp, next, proc, waiting, level, s0, i, j, holds, coroutineVars>>

Ended == mode \in {"deadlock", "trap", "exit"}

Next ==
    \/ \E s \in Sema, n \in 0..MaxLevel : NewSema(s, n)
    \/ \E p \in Process : StartProcess(p) \/ StartProcessTooLarge(p)
    \/ \E s \in Sema : Up(s) \/ Down(s)
    \/ ReSchedule
    \/ Exit

Spec == Init /\ [][Next]_vars

(* There is one thread of control, and it does not stop of itself: the     *)
(* running process goes on to its next call, and a call runs to its end.   *)
FairSpec == Spec /\ WF_vars(Next)
-----------------------------------------------------------------------------
(* Mutual exclusion: two processes are never both past the Down of a       *)
(* semaphore used as a mutex, although one scan of ReSchedule may wake     *)
(* several waiting processes.                                              *)
MutualExclusion ==
    \A m \in Mutex : \A p, q \in Process :
        m \in holds[p] \cap holds[q] => p = q

(* The message "deadlock" is true: when ReSchedule halts the program,      *)
(* every process that was started waits for a semaphore at level 0.        *)
DeadlockExact ==
    mode = "deadlock" =>
        \A p \in Started : waiting[p] # NIL /\ level[waiting[p]] = 0

(* StartProcess, called by whichever process runs, keeps all started       *)
(* processes in one ring, so that a scan of ReSchedule passes every one:   *)
(* no part of the ring is closed under next but the whole.                 *)
OneRing ==
    \A S \in SUBSET Started :
        (S # {} /\ \A p \in S : next[p] \in S) => S = Started

(* The process cp is the coroutine that runs, and ReSchedule only ever     *)
(* transfers to an area that holds the saved stack of the chosen process.  *)
ResumesSavedStack ==
    /\ mode = "user" => Running = AreaOf[cp]
    /\ (mode = "reschedule" /\ next[cp] # s0) =>
          /\ proc[next[cp]] = AreaOf[next[cp]]
          /\ CanTransfer(saved, proc[next[cp]])

(* The loop of ReSchedule ends: it finds a process to run or reports the   *)
(* deadlock.                                                               *)
ReScheduleEnds == mode = "reschedule" ~> mode # "reschedule"

OneMutexOnly == \A s, t \in Created : s = t /\ s \in Mutex

(* A process that waits for a mutex gets it, or the program ends, when the *)
(* mutex is the only semaphore, so that whoever is past its Down can only  *)
(* go on by the Up.  This is the fairness of the scan, whatever its random *)
(* steps: it starts behind the caller and tries every process it passes.   *)
NoStarvation ==
    []OneMutexOnly =>
        \A p \in Process : waiting[p] # NIL ~> (waiting[p] = NIL \/ Ended)
=============================================================================
