----------------------------- MODULE Processes -----------------------------
(***************************************************************************)
(* lang/m2/libm2/Processes.mod: processes that wait for and send signals.  *)
(*                                                                         *)
(* All started processes form a ring (next).  A SIGNAL is the head of a    *)
(* chain of waiting processes, linked through queue.  WAIT appends the     *)
(* running process to the chain and scans the ring for a ready process; a  *)
(* process stays marked ready during its own scan, which is how the scan   *)
(* notices that nobody else is.  SEND resumes the head of the chain.       *)
(*                                                                         *)
(* The bodies of the processes are not modelled: whoever runs makes any    *)
(* call the interface allows on a signal that was initialized.             *)
(***************************************************************************)
EXTENDS Coroutines, Sequences, FiniteSets

CONSTANTS Process,   \* the process descriptors a program ever allocates
          Main,      \* the descriptor allocated by the module body
          AreaOf,    \* the workspace StartProcess allocates with a descriptor
          Signal,    \* the SIGNAL variables of the program
          Uninit     \* the value of a SIGNAL variable before its Init

ASSUME ProcessesAssumption ==
    /\ Main \in Process
    /\ NIL \notin Process
    /\ Uninit \notin Process \cup {NIL}
    /\ AreaOf \in [Process -> Area]
    /\ AreaOf[Main] = MainArea
    /\ \A p, q \in Process : AreaOf[p] = AreaOf[q] => p = q

VARIABLES cp,        \* current process
          next,      \* the ring; NIL for a descriptor not allocated
          queue,     \* the next process that waits for the same signal
          cor,       \* the coroutine of a process, as TRANSFER last stored it
          ready,     \* the processes whose flag ready is set
          sig,       \* the SIGNAL variables
          mode,      \* what the running process is executing, see Modes
          s0, s1     \* the locals of WAIT

vars == <<cp, next, queue, cor, ready, sig, mode, s0, s1, coroutineVars>>

Modes == {"user",      \* the body of cp, outside this module
          "append",    \* the WHILE loop of WAIT, along the chain
          "scan",      \* the REPEAT loop of WAIT, along the ring
          "deadlock",  \* halted after the message "deadlock"
          "trap",      \* ended by trap M2_TOOLARGE
          "exit"}      \* ended by a process that returned

Started == {p \in Process : next[p] # NIL}

TypeOK ==
    /\ CoroutineTypeOK
    /\ cp \in Process
    /\ next \in [Process -> Process \cup {NIL}]
    /\ queue \in [Process -> Process \cup {NIL}]
    /\ cor \in [Process -> Area \cup {NIL}]
    /\ ready \subseteq Process
    /\ sig \in [Signal -> Process \cup {NIL, Uninit}]
    /\ mode \in Modes
    /\ s0 \in Process \cup {NIL}
    /\ s1 \in Process \cup {NIL}
-----------------------------------------------------------------------------
(* The module body. *)
Init ==
    /\ CoroutineInit
    /\ cp = Main
    /\ next = [p \in Process |-> IF p = Main THEN Main ELSE NIL]
    /\ queue = [p \in Process |-> NIL]
    /\ cor = [p \in Process |-> NIL]
    /\ ready = {Main}
    /\ sig = [s \in Signal |-> Uninit]
    /\ mode = "user"
    /\ s0 = NIL
    /\ s1 = NIL

(* The procedure Init, called once for each signal. *)
InitSignal(s) ==
    /\ mode = "user"
    /\ sig[s] = Uninit
    /\ sig' = [sig EXCEPT ![s] = NIL]
    /\ UNCHANGED <<cp, next, queue, cor, ready, mode, s0, s1, coroutineVars>>

(* A TRANSFER from p to q by a procedure that then returns, or the trap    *)
(* M2_TOOLARGE when the stack of p has outgrown its area.                  *)
Transfer(p, saved0, cor0, q) ==
    /\ cor' = [cor0 EXCEPT ![p] = Running]
    /\ \/ mode' = "user" /\ TRANSFER(saved0, cor0[q])
       \/ mode' = "trap" /\ TRANSFERTooLarge(saved0)

(* The ring with p inserted behind the running process. *)
Linked(p) == [next EXCEPT ![p] = next[cp], ![cp] = p]

(* The descriptor of a new process p is filled in. *)
NewDescriptorNotReady(p) ==
    /\ next' = Linked(p)
    /\ queue' = [queue EXCEPT ![p] = NIL]
    /\ UNCHANGED ready
NewDescriptor(p) ==
    /\ next' = Linked(p)
    /\ ready' = ready \cup {p}
    /\ queue' = [queue EXCEPT ![p] = NIL]

StartProcess(p) ==
    /\ mode = "user"
    /\ next[p] = NIL
    /\ NewDescriptor(p)
    /\ cp' = p
    /\ \/ Transfer(cp, NEWPROCESS(saved, AreaOf[p]), [cor EXCEPT ![p] = AreaOf[p]], p)
       \/ mode' = "trap" /\ UNCHANGED <<cor, coroutineVars>>   \* in NEWPROCESS
    /\ UNCHANGED <<sig, s0, s1>>

SENDKeepsLink(s) ==
    /\ mode = "user"
    /\ sig[s] \in Process
    /\ cp' = sig[s]
    /\ sig' = [sig EXCEPT ![s] = queue[sig[s]]]
    /\ ready' = ready \cup {sig[s]}
    /\ Transfer(cp, saved, cor, sig[s])
    /\ UNCHANGED <<next, queue, s0, s1>>

(* SEND of a signal nobody waits for does nothing. *)
SEND(s) ==
    /\ mode = "user"
    /\ sig[s] \in Process
    /\ cp' = sig[s]
    /\ sig' = [sig EXCEPT ![s] = queue[sig[s]]]
    /\ ready' = ready \cup {sig[s]}
    /\ queue' = [queue EXCEPT ![sig[s]] = NIL]
    /\ Transfer(cp, saved, cor, sig[s])
    /\ UNCHANGED <<next, s0, s1>>

WAITNotReady(s) ==
    /\ mode = "user"
    /\ sig[s] = NIL
    /\ sig' = [sig EXCEPT ![s] = cp]
    /\ ready' = ready \ {cp}
    /\ mode' = "scan"
    /\ s0' = cp
    /\ UNCHANGED <<cp, next, queue, cor, s1, coroutineVars>>

WAITNoWalk(s) ==
    /\ mode = "user"
    /\ sig[s] # Uninit
    /\ IF sig[s] = NIL
       THEN /\ sig' = [sig EXCEPT ![s] = cp]
            /\ mode' = "scan"
            /\ s0' = cp
            /\ UNCHANGED s1
       ELSE /\ mode' = "append"
            /\ s0' = sig[s]
            /\ s1' = NIL
            /\ UNCHANGED sig
    /\ UNCHANGED <<cp, next, queue, cor, ready, coroutineVars>>

(* WAIT up to the loop that looks for the end of the chain. *)
WAIT(s) ==
    /\ mode = "user"
    /\ sig[s] # Uninit
    /\ IF sig[s] = NIL
       THEN /\ sig' = [sig EXCEPT ![s] = cp]
            /\ mode' = "scan"
            /\ s0' = cp
            /\ UNCHANGED s1
       ELSE /\ mode' = "append"
            /\ s0' = sig[s]
            /\ s1' = queue[sig[s]]
            /\ UNCHANGED sig
    /\ UNCHANGED <<cp, next, queue, cor, ready, coroutineVars>>

(* One test of the WHILE loop, with the assignments that follow it. *)
WaitAppend ==
    /\ mode = "append"
    /\ IF s1 # NIL
       THEN /\ s0' = s1
            /\ s1' = queue[s1]
            /\ UNCHANGED <<queue, mode>>
       ELSE /\ queue' = [queue EXCEPT ![s0] = cp]
            /\ s0' = cp
            /\ mode' = "scan"
            /\ UNCHANGED s1
    /\ UNCHANGED <<cp, next, cor, ready, sig, coroutineVars>>

(* One turn of the REPEAT loop and, when it ends, the rest of WAIT.  The   *)
(* locals die with the call.                                               *)
WaitScan ==
    LET p == next[cp]
    IN  /\ mode = "scan"
        /\ cp' = p
        /\ \/ /\ p \notin ready
              /\ UNCHANGED <<cor, ready, mode, s0, s1, coroutineVars>>
           \/ /\ p \in ready /\ p = s0
              /\ mode' = "deadlock"
              /\ UNCHANGED <<cor, ready, s0, s1, coroutineVars>>
           \/ /\ p \in ready /\ p # s0
              /\ ready' = ready \ {s0}
              /\ Transfer(s0, saved, cor, p)
              /\ s0' = NIL
              /\ s1' = NIL
        /\ UNCHANGED <<next, queue, sig>>

(* A process, or the main program, that returns ends the whole program. *)
Exit ==
    /\ mode = "user"
    /\ mode' = "exit"
    /\ UNCHANGED <<cp, next, queue, cor, ready, sig, s0, s1, coroutineVars>>

Next ==
    \/ \E p \in Process : StartProcess(p)
    \/ \E s \in Signal : InitSignal(s) \/ SEND(s) \/ WAIT(s)
    \/ WaitAppend
    \/ WaitScan
    \/ Exit

Spec == Init /\ [][Next]_vars

(* There is one thread of control, and a call that is not over goes on. *)
FairSpec == Spec /\ WF_vars(WaitAppend) /\ WF_vars(WaitScan)
-----------------------------------------------------------------------------
HeadOf(s, p) == sig[s] = p      \* p is the first that waits for s
Behind(q, p) == queue[q] = p    \* p is in a chain, just behind q
Queued == {p \in Process : \/ \E s \in Signal : HeadOf(s, p)
                          \/ \E q \in Process : Behind(q, p)}

(* Waiting is being in a chain.  The caller of WAIT is in a chain while it *)
(* scans, though still ready.                                              *)
QueuedIsWaiting ==
    Queued = (Started \ ready) \cup {p \in {s0} : mode \in {"scan", "deadlock"}}

LinkedOnce ==
    /\ \A s, t \in Signal : sig[s] \in Process /\ sig[s] = sig[t] => s = t
    /\ \A q, r \in Process : queue[q] \in Process /\ queue[q] = queue[r] => q = r
    /\ \A s \in Signal, q \in Process : sig[s] \in Process => sig[s] # queue[q]
    /\ \A p \in Process \ Queued : queue[p] = NIL

NoCircle ==
    \A S \in SUBSET Queued : S # {} => \E p \in S : \A q \in S : ~Behind(q, p)

(* The chains of the signals hold exactly the processes that WAIT has made *)
(* not ready and SEND has not resumed, each once, and every chain ends: no *)
(* waiting process is lost, resumed twice, or resumed by another signal.   *)
ChainsOK == QueuedIsWaiting /\ LinkedOnce /\ NoCircle

(* The message "deadlock" is true: when WAIT halts the program every       *)
(* started process is in the chain of a signal, and nobody is left to SEND *)
(* it.                                                                     *)
DeadlockExact ==
    mode = "deadlock" => Started = Queued

(* StartProcess keeps all started processes in one ring, so that the scan  *)
(* of WAIT passes every one.                                               *)
OneRing ==
    \A S \in SUBSET Started :
        (S # {} /\ \A p \in S : next[p] \in S) => S = Started

(* cp is the coroutine that runs, and neither WAIT nor SEND transfers to   *)
(* an area without the saved stack of the chosen process.                  *)
ResumesSavedStack ==
    /\ mode = "user" => Running = AreaOf[cp]
    /\ mode = "user" =>
         \A s \in Signal : sig[s] \in Process =>
             cor[sig[s]] = AreaOf[sig[s]] /\ CanTransfer(saved, cor[sig[s]])
    /\ (mode = "scan" /\ next[cp] # s0 /\ next[cp] \in ready) =>
          cor[next[cp]] = AreaOf[next[cp]] /\ CanTransfer(saved, cor[next[cp]])

(* Both loops of WAIT end: the chain has an end, and the ring has a ready  *)
(* process, if only the caller.                                            *)
WaitEnds == mode \in {"append", "scan"} ~> mode \notin {"append", "scan"}
-----------------------------------------------------------------------------
(* The chain that starts at h, as a sequence. *)
Chain(h) ==
    LET c[n \in 0..Cardinality(Process), p \in Process \cup {NIL, Uninit}] ==
            IF n = 0 \/ p \in {NIL, Uninit} THEN <<>> ELSE <<p>> \o c[n - 1, queue[p]]
    IN  c[Cardinality(Process), h]

(* A WAIT takes effect when it transfers or reports the deadlock: until    *)
(* then its caller still runs and is not yet among the waiters.            *)
Signals ==
    INSTANCE Signals
    WITH running <- IF mode = "scan" THEN s0 ELSE cp,
         started <- Started,
         waiters <- [s \in Signal |->
                        IF mode \in {"scan", "deadlock"}
                        THEN SelectSeq(Chain(sig[s]), LAMBDA p : p # s0)
                        ELSE Chain(sig[s])],
         outcome <- IF mode \in {"deadlock", "trap", "exit"} THEN mode ELSE "going"

(* Processes implements Signals: waiting processes are resumed by SEND of  *)
(* their signal only, in the order of their WAITs, and the program is      *)
(* halted only in a true deadlock.                                         *)
ImplementsSignals == Signals!Spec
=============================================================================
