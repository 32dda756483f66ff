-------------------------- MODULE ProcessesProofs --------------------------
(***************************************************************************)
(* The safety properties of Processes, proved for any number of processes  *)
(* and signals.                                                            *)
(***************************************************************************)
EXTENDS Processes, LinkProofs

(* What keeps the types: the pointers that are followed are not NIL.  The  *)
(* running process, and the caller of a WAIT during its scan, is ready.    *)
PointersOK ==
    /\ cp \in Started
    /\ \A p \in Started : next[p] \in Started
    /\ ready \subseteq Started
    /\ \A s \in Signal : sig[s] \in Process => sig[s] \in Started
    /\ \A p \in Process : queue[p] \in Process => queue[p] \in Started
    /\ mode \in {"user", "append"} => cp \in ready
    /\ mode = "append" => s0 \in Process /\ s1 = queue[s0]
    /\ mode = "scan" => s0 \in Started /\ s0 \in ready
    /\ mode = "deadlock" => s0 \in Started

TypeInv == TypeOK /\ PointersOK

LEMMA TypeInvInit == Init => TypeInv
  BY CoroutineAssumption, ProcessesAssumption
  DEF Init, TypeInv, TypeOK, PointersOK, Started, CoroutineInit, CoroutineTypeOK, Modes

LEMMA TypeInvStep == TypeInv /\ [Next]_vars => TypeInv'
<1> SUFFICES ASSUME TypeInv, [Next]_vars PROVE TypeInv'
  OBVIOUS
<1> USE CoroutineAssumption, ProcessesAssumption
<1> USE DEF TypeInv, TypeOK, PointersOK, Started, CoroutineTypeOK, Modes
<1>1. ASSUME NEW p \in Process, StartProcess(p)
      PROVE  TypeInv'
  BY <1>1 DEF StartProcess, NewDescriptor, Linked, Transfer, TRANSFER,
              TRANSFERTooLarge, NEWPROCESS, Running, coroutineVars
<1>2. ASSUME NEW s \in Signal, InitSignal(s)
      PROVE  TypeInv'
  BY <1>2 DEF InitSignal, coroutineVars
<1>3. ASSUME NEW s \in Signal, SEND(s)
      PROVE  TypeInv'
  BY <1>3 DEF SEND, Transfer, TRANSFER, TRANSFERTooLarge, Running
<1>4. ASSUME NEW s \in Signal, WAIT(s)
      PROVE  TypeInv'
  BY <1>4 DEF WAIT, coroutineVars
<1>5. CASE WaitAppend
  BY <1>5 DEF WaitAppend, coroutineVars
<1>6. CASE WaitScan
  BY <1>6 DEF WaitScan, Transfer, TRANSFER, TRANSFERTooLarge, Running, coroutineVars
<1>7. CASE Exit
  BY <1>7 DEF Exit, coroutineVars
<1>8. CASE UNCHANGED vars
  BY <1>8 DEF vars, coroutineVars
<1> QED
  BY <1>1, <1>2, <1>3, <1>4, <1>5, <1>6, <1>7, <1>8 DEF Next

(* Every variable keeps its type: no NIL pointer is followed. *)
THEOREM TypeCorrect == Spec => []TypeOK
<1>1. Spec => []TypeInv
  BY TypeInvInit, TypeInvStep, PTL DEF Spec
<1> QED
  BY <1>1, PTL DEF TypeInv
-----------------------------------------------------------------------------
(* In its search for the end of the chain WAIT stays in the chain. *)
AppendInv == mode = "append" => s0 \in Queued

ChainInv == ChainsOK /\ AppendInv

(* When a process that is in no chain becomes the head of an empty chain   *)
(* or the last of another one, the chains stay free of circles.            *)
LEMMA EnqueueNoCircle ==
    ASSUME TypeInv, NoCircle, NEW c \in Process, c \notin Queued,
           queue'[c] = NIL, Queued' \subseteq Queued \cup {c},
           \A q, r \in Process : Behind(q, r)' /\ r # c => Behind(q, r)
    PROVE  NoCircle'
<1> SUFFICES ASSUME NEW S \in SUBSET Queued', S # {}
             PROVE  \E p \in S : \A q \in S : ~Behind(q, p)'
  BY DEF NoCircle
<1> USE ProcessesAssumption
<1>1. S \subseteq Process
  BY DEF Queued
<1>2. CASE S = {c}
  BY <1>2 DEF Behind
<1>3. CASE S # {c}
  <2>1. S \ {c} \in SUBSET Queued /\ S \ {c} # {}
    BY <1>3
  <2>2. PICK p \in S \ {c} : \A q \in S \ {c} : ~Behind(q, p)
    BY <2>1 DEF NoCircle
  <2>3. \A q \in S \ {c} : ~Behind(q, p)'
    BY <1>1, <2>2
  <2>4. ~Behind(c, p)'
    BY <1>1, <2>2 DEF Behind
  <2> QED
    BY <2>2, <2>3, <2>4
<1> QED
  BY <1>2, <1>3

LEMMA ChainStep == TypeInv /\ ChainInv /\ [Next]_vars => ChainInv'
<1> SUFFICES ASSUME TypeInv, ChainInv, [Next]_vars PROVE ChainInv'
  OBVIOUS
<1> USE ProcessesAssumption
<1>0. ASSUME Queued' = Queued, UNCHANGED <<sig, queue>>
      PROVE  LinkedOnce' /\ NoCircle'
  BY <1>0 DEF ChainInv, ChainsOK, LinkedOnce, NoCircle, Behind
<1>1. ASSUME NEW p \in Process, StartProcess(p)
      PROVE  ChainInv'
  <2>1. /\ queue[p] = NIL /\ queue' = queue /\ sig' = sig /\ s0' = s0
        /\ mode' \notin {"append", "scan", "deadlock"}
        /\ mode = "user" /\ ready' = ready \cup {p} /\ Started' = Started \cup {p}
    BY <1>1 DEF StartProcess, NewDescriptor, Linked, Transfer, TypeInv, TypeOK,
                PointersOK, ChainInv, ChainsOK, QueuedIsWaiting, LinkedOnce, Started
  <2>2. Queued' = Queued
    BY <2>1 DEF Queued, HeadOf, Behind
  <2>3. p \notin Started
    BY <1>1 DEF StartProcess, Started
  <2>4. QueuedIsWaiting'
    BY <2>1, <2>2, <2>3 DEF ChainInv, ChainsOK, QueuedIsWaiting
  <2> QED
    BY <1>0, <2>1, <2>2, <2>4 DEF ChainInv, ChainsOK, AppendInv
<1>2. ASSUME NEW s \in Signal, InitSignal(s)
      PROVE  ChainInv'
  <2>1. /\ queue' = queue /\ mode = "user" /\ mode' = mode /\ Started' = Started
        /\ ready' = ready /\ s0' = s0 /\ sig' = [sig EXCEPT ![s] = NIL]
        /\ sig[s] = Uninit
    BY <1>2 DEF InitSignal, Started
  <2>2. Queued' = Queued
    BY <2>1 DEF Queued, HeadOf, Behind, TypeInv, TypeOK
  <2>3. LinkedOnce'
    BY <2>1, <2>2 DEF LinkedOnce, ChainInv, ChainsOK, TypeInv, TypeOK
  <2>4. NoCircle'
    BY <2>1, <2>2 DEF NoCircle, Behind, ChainInv, ChainsOK
  <2> QED
    BY <2>1, <2>2, <2>3, <2>4 DEF ChainInv, ChainsOK, QueuedIsWaiting, AppendInv
<1>3. ASSUME NEW s \in Signal, SEND(s)
      PROVE  ChainInv'
  <2> DEFINE h == sig[s]
  <2>1. /\ h \in Queued /\ h \in Process /\ mode = "user" /\ mode' \in {"user", "trap"}
        /\ Started' = Started /\ ready' = ready \cup {h} /\ s0' = s0
        /\ sig' = [sig EXCEPT ![s] = queue[h]] /\ queue' = [queue EXCEPT ![h] = NIL]
    BY <1>3 DEF SEND, Transfer, Started, Queued, HeadOf
  <2>2. queue[h] # h
    BY <2>1 DEF ChainInv, ChainsOK, LinkedOnce
  <2>3. Queued' = Queued \ {h}
    <3>1. h \notin Queued'
      BY <2>1, <2>2 DEF Queued, HeadOf, Behind, ChainInv, ChainsOK, LinkedOnce,
                        TypeInv, TypeOK
    <3>2. Queued' \subseteq Queued
      BY <2>1 DEF Queued, HeadOf, Behind, TypeInv, TypeOK
    <3>3. ASSUME NEW p \in Queued, p # h
          PROVE  p \in Queued'
      BY <2>1, <3>3 DEF Queued, HeadOf, Behind, TypeInv, TypeOK
    <3> QED
      BY <3>1, <3>2, <3>3
  <2>4. LinkedOnce'
    BY <2>1, <2>2, <2>3 DEF LinkedOnce, ChainInv, ChainsOK, TypeInv, TypeOK
  <2>5. NoCircle'
    <3>1. \A q, r \in Process : Behind(q, r)' => Behind(q, r)
      BY <2>1 DEF Behind, TypeInv, TypeOK
    <3>2. Queued \subseteq Process
      BY DEF Queued
    <3> QED
      BY <2>3, <3>1, <3>2 DEF NoCircle, ChainInv, ChainsOK
  <2> QED
    BY <2>1, <2>3, <2>4, <2>5 DEF ChainInv, ChainsOK, QueuedIsWaiting, AppendInv
<1>4. ASSUME NEW s \in Signal, WAIT(s)
      PROVE  ChainInv'
  <2>1. CASE sig[s] = NIL
    <3>1. /\ mode = "user" /\ mode' = "scan" /\ s0' = cp /\ queue' = queue
          /\ sig' = [sig EXCEPT ![s] = cp] /\ Started' = Started /\ ready' = ready
      BY <1>4, <2>1 DEF WAIT, Started
    <3>2. cp \notin Queued /\ cp \in Process /\ queue[cp] = NIL
      BY <3>1 DEF ChainInv, ChainsOK, QueuedIsWaiting, LinkedOnce, TypeInv, TypeOK,
                  PointersOK
    <3>3. Queued' = Queued \cup {cp}
      BY <2>1, <3>1, <3>2 DEF Queued, HeadOf, Behind, TypeInv, TypeOK
    <3>4. LinkedOnce'
      BY <2>1, <3>1, <3>2, <3>3
      DEF LinkedOnce, ChainInv, ChainsOK, TypeInv, TypeOK, Queued, HeadOf, Behind
    <3>5. NoCircle'
      BY <3>1, <3>2, <3>3, EnqueueNoCircle DEF ChainInv, ChainsOK, Behind
    <3>6. QueuedIsWaiting'
      BY <3>1, <3>3 DEF ChainInv, ChainsOK, QueuedIsWaiting
    <3> QED
      BY <3>1, <3>4, <3>5, <3>6 DEF ChainInv, ChainsOK, AppendInv
  <2>2. CASE sig[s] # NIL
    <3>1. /\ mode = "user" /\ mode' = "append" /\ s0' = sig[s] /\ queue' = queue
          /\ sig' = sig /\ Started' = Started /\ ready' = ready /\ s0' \in Process
      BY <1>4, <2>2 DEF WAIT, Started, TypeInv, TypeOK
    <3>2. Queued' = Queued
      BY <3>1 DEF Queued, HeadOf, Behind
    <3>3. s0' \in Queued'
      BY <3>1 DEF Queued, HeadOf
    <3>4. QueuedIsWaiting'
      BY <3>1, <3>2 DEF ChainInv, ChainsOK, QueuedIsWaiting
    <3> QED
      BY <1>0, <3>1, <3>2, <3>3, <3>4 DEF ChainInv, ChainsOK, AppendInv
  <2> QED
    BY <2>1, <2>2
<1>5. CASE WaitAppend
  <2>1. CASE s1 # NIL
    <3>1. /\ mode' = mode /\ mode = "append" /\ s0' = s1 /\ queue' = queue
          /\ sig' = sig /\ Started' = Started /\ ready' = ready
      BY <1>5, <2>1 DEF WaitAppend, Started
    <3>2. Queued' = Queued
      BY <3>1 DEF Queued, HeadOf, Behind
    <3>3. s0' \in Queued'
      BY <2>1, <3>1 DEF Queued, Behind, TypeInv, TypeOK, PointersOK
    <3>4. QueuedIsWaiting'
      BY <3>1, <3>2 DEF ChainInv, ChainsOK, QueuedIsWaiting
    <3> QED
      BY <1>0, <3>1, <3>2, <3>3, <3>4 DEF ChainInv, ChainsOK, AppendInv
  <2>2. CASE s1 = NIL
    <3>1. /\ mode = "append" /\ mode' = "scan" /\ s0' = cp /\ sig' = sig
          /\ queue' = [queue EXCEPT ![s0] = cp] /\ Started' = Started /\ ready' = ready
          /\ s0 \in Process /\ queue[s0] = NIL /\ s0 \in Queued
      BY <1>5, <2>2 DEF WaitAppend, Started, TypeInv, PointersOK, ChainInv, AppendInv
    <3>2. cp \notin Queued /\ cp \in Process /\ queue[cp] = NIL
      BY <3>1 DEF ChainInv, ChainsOK, QueuedIsWaiting, LinkedOnce, TypeInv, TypeOK,
                  PointersOK
    <3>3. Queued' = Queued \cup {cp}
      BY <3>1, <3>2 DEF Queued, HeadOf, Behind, TypeInv, TypeOK
    <3>4. LinkedOnce'
      BY <3>1, <3>2, <3>3
      DEF LinkedOnce, ChainInv, ChainsOK, TypeInv, TypeOK, Queued, HeadOf, Behind
    <3>5. NoCircle'
      BY <3>1, <3>2, <3>3, EnqueueNoCircle
      DEF ChainInv, ChainsOK, Behind, TypeInv, TypeOK
    <3>6. QueuedIsWaiting'
      BY <3>1, <3>3 DEF ChainInv, ChainsOK, QueuedIsWaiting
    <3> QED
      BY <3>1, <3>4, <3>5, <3>6 DEF ChainInv, ChainsOK, AppendInv
  <2> QED
    BY <2>1, <2>2
<1>6. CASE WaitScan
  <2>1. /\ queue' = queue /\ sig' = sig /\ mode = "scan" /\ mode' # "append"
        /\ Started' = Started /\ s0 \in Started
    BY <1>6 DEF WaitScan, Transfer, Started, TypeInv, PointersOK
  <2>2. Queued' = Queued
    BY <2>1 DEF Queued, HeadOf, Behind
  <2>3. QueuedIsWaiting'
    BY <1>6, <2>1, <2>2 DEF WaitScan, Transfer, ChainInv, ChainsOK, QueuedIsWaiting
  <2> QED
    BY <1>0, <2>1, <2>2, <2>3 DEF ChainInv, ChainsOK, AppendInv
<1>7. CASE Exit \/ UNCHANGED vars
  <2>1. /\ queue' = queue /\ sig' = sig /\ s0' = s0 /\ ready' = ready
        /\ (mode' = mode \/ (mode = "user" /\ mode' = "exit"))
        /\ Started' = Started
    BY <1>7 DEF Exit, vars, Started
  <2>2. Queued' = Queued
    BY <2>1 DEF Queued, HeadOf, Behind
  <2>3. QueuedIsWaiting'
    BY <2>1, <2>2 DEF ChainInv, ChainsOK, QueuedIsWaiting
  <2> QED
    BY <1>0, <2>1, <2>2, <2>3 DEF ChainInv, ChainsOK, AppendInv
<1> QED
  BY <1>1, <1>2, <1>3, <1>4, <1>5, <1>6, <1>7 DEF Next

(* The chains stay well formed through any sequence of WAITs and SENDs on  *)
(* any number of signals.                                                  *)
THEOREM ChainsOKHolds == Spec => []ChainsOK
<1>1. Init => ChainInv
  BY ProcessesAssumption
  DEF Init, ChainInv, ChainsOK, AppendInv, QueuedIsWaiting, LinkedOnce, NoCircle,
      Queued, HeadOf, Behind, Started
<1>2. ChainInv => ChainsOK
  BY DEF ChainInv
<1> QED
  BY <1>1, <1>2, TypeInvInit, TypeInvStep, ChainStep, PTL DEF Spec
-----------------------------------------------------------------------------
LEMMA OneRingStep == TypeInv /\ OneRing /\ [Next]_vars => OneRing'
<1> SUFFICES ASSUME TypeInv, OneRing, [Next]_vars PROVE OneRing'
  OBVIOUS
<1> USE ProcessesAssumption
<1>1. ASSUME NEW p \in Process, StartProcess(p)
      PROVE  OneRing'
  <2>1. /\ next[p] = NIL /\ next' = Linked(p)
        /\ p # cp /\ p # next[cp] /\ Started' = Started \cup {p}
    BY <1>1 DEF StartProcess, NewDescriptor, Linked, Started, TypeInv, TypeOK, PointersOK
  <2>2. next'[p] = next[cp] /\ next'[cp] = p
    BY <2>1 DEF Linked, TypeInv, TypeOK
  <2>3. \A q \in Started \ {cp} : next'[q] = next[q]
    BY <2>1 DEF Linked, TypeInv, TypeOK, Started
  <2>4. cp \in Started /\ p \notin Started /\ \A q \in Started : next[q] \in Started
    BY <2>1 DEF TypeInv, PointersOK, Started
  <2>5. IsOneRing(Started, next)
    BY DEF OneRing, IsOneRing
  <2>6. IsOneRing(Started \cup {p}, next')
    BY <2>2, <2>3, <2>4, <2>5, InsertKeepsOneRing
  <2> QED
    BY <2>1, <2>6 DEF OneRing, IsOneRing
<1>2. CASE next' = next
  BY <1>2 DEF OneRing, Started
<1> QED
  BY <1>1, <1>2 DEF Next, vars, InitSignal, SEND, WAIT, WaitAppend, WaitScan, Exit

(* The started processes are one ring, however many are started and from   *)
(* whichever process: the scan of WAIT passes every one of them.           *)
THEOREM OneRingHolds == Spec => []OneRing
<1>1. Init => OneRing
  BY ProcessesAssumption DEF Init, OneRing, Started
<1> QED
  BY <1>1, TypeInvInit, TypeInvStep, OneRingStep, PTL DEF Spec

(* The processes WAIT passed in its scan, a segment of the ring that       *)
(* starts behind s0 and ends at cp, are not ready.                         *)
ScanInv ==
    mode = "scan" =>
        \E S \in SUBSET Started :
           /\ S \cap ready = {}
           /\ \A p \in S : p = cp \/ next[p] \in S
           /\ \/ S = {} /\ cp = s0
              \/ cp \in S /\ next[s0] \in S

OthersWait == mode = "deadlock" => Started \cap ready \subseteq {s0}

LEMMA ScanStep ==
    TypeInv /\ OneRing /\ ScanInv /\ OthersWait /\ [Next]_vars => ScanInv' /\ OthersWait'
<1> SUFFICES ASSUME TypeInv, OneRing, ScanInv, OthersWait, [Next]_vars
             PROVE  ScanInv' /\ OthersWait'
  OBVIOUS
<1> USE ProcessesAssumption
<1>1. ASSUME mode' = "scan", cp' = s0'
      PROVE  ScanInv' /\ OthersWait'
  <2>1. \E S \in SUBSET Started' :
           /\ S \cap ready' = {}
           /\ \A p \in S : p = cp' \/ next'[p] \in S
           /\ S = {} /\ cp' = s0'
    <3> WITNESS {} \in SUBSET Started'
    <3> QED
      BY <1>1
  <2> QED
    BY <1>1, <2>1 DEF ScanInv, OthersWait
<1>2. CASE WaitScan
  <2> DEFINE p == next[cp]
  <2>1. /\ cp' = p /\ p \in Started /\ next' = next /\ Started' = Started
        /\ mode = "scan" /\ s0 \in Started /\ s0 \in ready
    BY <1>2 DEF WaitScan, TypeInv, PointersOK, Started
  <2>2. PICK S \in SUBSET Started :
           /\ S \cap ready = {}
           /\ \A q \in S : q = cp \/ next[q] \in S
           /\ \/ S = {} /\ cp = s0
              \/ cp \in S /\ next[s0] \in S
    BY <2>1 DEF ScanInv
  <2> DEFINE T == S \cup {p}
  <2>3. \A q \in S : next[q] \in T
    BY <2>2
  <2>4. next[s0] \in T /\ T \in SUBSET Started
    BY <2>1, <2>2
  <2>5. CASE p \notin ready
    <3>1. mode' = "scan" /\ s0' = s0 /\ ready' = ready
      BY <1>2, <2>5 DEF WaitScan
    <3>2. T \cap ready' = {}
      BY <2>2, <2>5, <3>1
    <3>3. (\A q \in T : q = p \/ next[q] \in T) /\ p \in T
      BY <2>3
    <3> HIDE DEF T
    <3> QED
      BY <2>1, <2>4, <3>1, <3>2, <3>3 DEF ScanInv, OthersWait
  <2>6. CASE p \in ready /\ p = s0
    <3>1. mode' = "deadlock" /\ s0' = s0 /\ ready' = ready
      BY <1>2, <2>6 DEF WaitScan
    <3>2. T = Started
      BY <2>3, <2>4, <2>6 DEF OneRing
    <3>3. Started \cap ready \subseteq {s0}
      BY <2>2, <2>6, <3>2
    <3> QED
      BY <2>1, <3>1, <3>3 DEF ScanInv, OthersWait
  <2>7. CASE p \in ready /\ p # s0
    BY <1>2, <2>7 DEF WaitScan, Transfer, ScanInv, OthersWait
  <2> QED
    BY <2>5, <2>6, <2>7
<1>3. ASSUME mode' \in {"user", "append", "trap", "exit"}
      PROVE  ScanInv' /\ OthersWait'
  BY <1>3 DEF ScanInv, OthersWait
<1>4. CASE UNCHANGED vars
  BY <1>4 DEF vars, ScanInv, OthersWait, Started
<1> QED
  BY <1>1, <1>2, <1>3, <1>4
  DEF Next, StartProcess, Transfer, InitSignal, SEND, WAIT, WaitAppend, Exit

(* WAIT never halts the program while another process could run or be sent *)
(* a signal by one that runs.                                              *)
THEOREM DeadlockExactHolds == Spec => []DeadlockExact
<1>1. Init => OneRing /\ ScanInv /\ OthersWait /\ ChainInv
  BY ProcessesAssumption
  DEF Init, OneRing, Started, ScanInv, OthersWait, ChainInv, ChainsOK, AppendInv,
      QueuedIsWaiting, LinkedOnce, NoCircle, Queued, HeadOf, Behind
<1>2. TypeInv /\ ChainInv /\ OthersWait => DeadlockExact
  BY DEF TypeInv, PointersOK, ChainInv, ChainsOK, QueuedIsWaiting, OthersWait,
         DeadlockExact
<1> QED
  BY <1>1, <1>2, TypeInvInit, TypeInvStep, OneRingStep, ScanStep, ChainStep, PTL
  DEF Spec
-----------------------------------------------------------------------------
(* The process whose stack is live: during a scan still the caller s0. *)
Live == IF mode = "scan" THEN s0 ELSE cp

StackInv ==
    mode \in {"user", "append", "scan"} =>
        /\ Running = AreaOf[Live]
        /\ \A p \in Started \ {Live} : cor[p] = AreaOf[p] /\ cor[p] \in saved

LEMMA StackStep == TypeInv /\ ChainInv /\ StackInv /\ [Next]_vars => StackInv'
<1> SUFFICES ASSUME TypeInv, ChainInv, StackInv, [Next]_vars PROVE StackInv'
  OBVIOUS
<1> USE CoroutineAssumption, ProcessesAssumption
<1>0. mode = "user" => \A s \in Signal : sig[s] \in Process => sig[s] \in Started \ {cp}
  BY DEF ChainInv, ChainsOK, QueuedIsWaiting, Queued, HeadOf, TypeInv, PointersOK
<1> USE DEF TypeInv, TypeOK, PointersOK, CoroutineTypeOK, StackInv, Live, Started,
            Running
<1>1. ASSUME NEW p \in Process, StartProcess(p)
      PROVE  StackInv'
  BY <1>1 DEF StartProcess, NewDescriptor, Linked, Transfer, TRANSFER, NEWPROCESS
<1>2. ASSUME NEW s \in Signal, InitSignal(s) \/ WAIT(s)
      PROVE  StackInv'
  BY <1>2 DEF InitSignal, WAIT, coroutineVars
<1>3. ASSUME NEW s \in Signal, SEND(s)
      PROVE  StackInv'
  BY <1>0, <1>3 DEF SEND, Transfer, TRANSFER
<1>4. CASE WaitAppend
  BY <1>4 DEF WaitAppend, coroutineVars
<1>5. CASE WaitScan
  BY <1>5 DEF WaitScan, Transfer, TRANSFER, coroutineVars
<1>6. CASE Exit
  BY <1>6 DEF Exit
<1>7. CASE UNCHANGED vars
  BY <1>7 DEF vars, coroutineVars
<1> QED
  BY <1>1, <1>2, <1>3, <1>4, <1>5, <1>6, <1>7 DEF Next

(* No procedure of Processes loads an area without a saved stack. *)
THEOREM ResumesSavedStackHolds == Spec => []ResumesSavedStack
<1>1. Init => ChainInv /\ StackInv
  BY ProcessesAssumption
  DEF Init, Started, ChainInv, ChainsOK, AppendInv, QueuedIsWaiting, LinkedOnce,
      NoCircle, Queued, HeadOf, Behind, StackInv, Live, Running, CoroutineInit
<1>2. TypeInv /\ ChainInv /\ StackInv => ResumesSavedStack
  <2>1. TypeInv /\ ChainInv /\ mode = "user" =>
            \A s \in Signal : sig[s] \in Process => sig[s] \in Started \ {cp}
    BY DEF ChainInv, ChainsOK, QueuedIsWaiting, Queued, HeadOf, TypeInv, PointersOK
  <2> QED
    BY <2>1 DEF TypeInv, PointersOK, StackInv, Live, ResumesSavedStack, CanTransfer
<1> QED
  BY <1>1, <1>2, TypeInvInit, TypeInvStep, ChainStep, StackStep, PTL DEF Spec
=============================================================================
