-------------------------------- MODULE CSP --------------------------------
(***************************************************************************)
(* lang/m2/libm2/CSP.mod: communicating sequential processes.              *)
(*                                                                         *)
(* One process, cp, runs until a call makes it wait; then the process that *)
(* has been ready longest runs.  A channel has one owner, who receives; a  *)
(* sender waits in the queue of the channel until its message is taken.    *)
(* All queues are linked through the one field next of the process         *)
(* descriptors.  A receiver that finds no sender opens the channels it is  *)
(* prepared to receive from, and the first Send to one of them closes all  *)
(* and makes the receiver ready.                                           *)
(*                                                                         *)
(* The bodies of the processes are not modelled: whoever runs makes any    *)
(* call the interface allows.  Between COBEGIN and COEND, that is while a  *)
(* process that runs has sons, it only starts processes; a SELECT names    *)
(* channels of its own process only; the main program does not stop        *)
(* itself.  A message is modelled by its sender.                           *)
(***************************************************************************)
EXTENDS Coroutines, Links, Integers, Sequences, FiniteSets

CONSTANTS Process,     \* the process descriptors a program ever allocates
          Main,        \* the descriptor allocated by the module body
          AreaOf,      \* the workspace of a descriptor
          Channel,     \* the channels a program ever creates
          READY, FREE, \* the two queues that belong to no channel
          MaxGuards,   \* the bound on the number of guards of a SELECT
          CardSize,    \* the number of values of type CARDINAL
          WILD,        \* an address that is not that of a channel
          Residue      \* what the field opened may hold in memory that was
                       \* deallocated, by Receive or by the program, before

ASSUME CSPAssumption ==
    /\ IsFiniteSet(Process) /\ IsFiniteSet(Channel)
    /\ Main \in Process
    /\ NIL \notin Process \cup Channel
    /\ WILD \notin Channel \cup {NIL}
    /\ Residue \subseteq {NIL, WILD} /\ Residue # {}
    /\ READY # FREE
    /\ {READY, FREE} \cap Channel = {}
    /\ AreaOf \in [Process -> Area]
    /\ AreaOf[Main] = MainArea
    /\ \A p, q \in Process : AreaOf[p] = AreaOf[q] => p = q
    /\ MaxGuards \in Nat \ {0}
    /\ CardSize \in Nat /\ CardSize > MaxGuards

VARIABLES cp,          \* current process
          Q,           \* all queues: the fields next, and head and tail of each
          father, sons, cor, opened, msgadr, guardindex, guardcount,
          owner,       \* of a channel; NIL also before InitChannel
          made,        \* the channels that were initialized
          chindex,     \* the field guardindex of a channel
          chnext,      \* the field next of a channel
          at,          \* where a process is or will go on, see Places
          rch,         \* the channel a process receives from, at "receive"
          guards,      \* the channels of the guards of a SELECT
          tried,       \* history: the guards a process has evaluated in its SELECT
          mode         \* see Modes

descVars == <<father, sons, opened, guardcount, guards, tried>>
chanVars == <<owner, made, chindex, chnext>>
vars == <<cp, Q, cor, guardindex, at, rch, mode, descVars, chanVars,
          msgadr, coroutineVars>>

Places == {"body",       \* outside this module
           "receive",    \* behind the first DoTransfer of Receive
           "guard",      \* behind the Receive of GUARD
           "select",     \* in a SELECT, at NEXTGUARD and GUARD
           "endselect"}  \* in a SELECT, GUARD was false: at ENDSELECT

Modes == {"run", "halt",   \* halted by DoTransfer: no process is ready
          "error",         \* halted after a message
          "trap",          \* ended by trap M2_TOOLARGE
          "exit",          \* ended by a process that returned
          "wild"}          \* followed an address it never assigned

Queues == Channel \cup {READY, FREE}

TypeOK ==
    /\ CoroutineTypeOK
    /\ cp \in Process \cup {NIL}
    /\ Q \in [next : [Process -> Process \cup {NIL}],
              head : [Queues -> Process \cup {NIL}],
              tail : [Queues -> Process \cup {NIL}]]
    /\ father \in [Process -> Process \cup {NIL}]
    /\ sons \in [Process -> Nat]
    /\ cor \in [Process -> Area \cup {NIL}]
    /\ opened \in [Process -> Channel \cup {NIL, WILD}]
    /\ msgadr \in [Process -> Process \cup {NIL}]
    /\ guardindex \in [Process -> -1..MaxGuards]
    /\ guardcount \in [Process -> 0..CardSize - 1]
    /\ owner \in [Channel -> Process \cup {NIL}]
    /\ made \subseteq Channel
    /\ chindex \in [Channel -> -1..MaxGuards]
    /\ chnext \in [Channel -> Channel \cup {NIL}]
    /\ at \in [Process -> Places]
    /\ rch \in [Process -> Channel \cup {NIL}]
    /\ \A p \in Process : /\ Len(guards[p]) <= MaxGuards
                          /\ \A k \in 1..Len(guards[p]) : guards[p][k] \in Channel \cup {NIL}
    /\ tried \in [Process -> SUBSET (1..MaxGuards)]
    /\ mode \in Modes
-----------------------------------------------------------------------------
(* The module ProcessQueue.  What is called the head is where processes    *)
(* enter, and they leave at the tail.                                      *)
PushInFront(q, p, queues) ==
    LET t == queues.tail[q]
    IN  [queues EXCEPT !.next = [@ EXCEPT ![p] = t],
                       !.tail[q] = p,
                       !.head[q] = IF t = NIL THEN p ELSE @]

Push(q, p, queues) ==
    LET h == queues.head[q]
    IN  [queues EXCEPT !.next = IF h = NIL THEN [@ EXCEPT ![p] = NIL]
                                ELSE [@ EXCEPT ![p] = NIL, ![h] = p],
                       !.tail[q] = IF h = NIL THEN p ELSE @,
                       !.head[q] = p]

PopKeepsHead(q, queues) ==
    LET p == queues.tail[q]
    IN  IF p = NIL THEN queues ELSE [queues EXCEPT !.tail[q] = queues.next[p]]

Pop(q, queues) ==
    LET p == queues.tail[q]
    IN  IF p = NIL THEN queues
        ELSE [queues EXCEPT !.tail[q] = queues.next[p],
                            !.head[q] = IF @ = p THEN NIL ELSE @]

Sending(ch) == Q.head[ch] # NIL
-----------------------------------------------------------------------------
(* The module body runs before anything is deallocated: memory is clear.   *)
Init ==
    /\ CoroutineInit
    /\ cp = Main
    /\ Q = [next |-> [p \in Process |-> NIL],
            head |-> [q \in Queues |-> NIL],
            tail |-> [q \in Queues |-> NIL]]
    /\ father = [p \in Process |-> NIL]
    /\ sons = [p \in Process |-> 0]
    /\ cor = [p \in Process |-> NIL]
    /\ opened = [p \in Process |-> NIL]
    /\ msgadr = [p \in Process |-> NIL]
    /\ guardindex = [p \in Process |-> 0]
    /\ guardcount = [p \in Process |-> 0]
    /\ owner = [ch \in Channel |-> NIL]
    /\ made = {}
    /\ chindex = [ch \in Channel |-> 0]
    /\ chnext = [ch \in Channel |-> NIL]
    /\ at = [p \in Process |-> "body"]
    /\ rch = [p \in Process |-> NIL]
    /\ guards = [p \in Process |-> <<>>]
    /\ tried = [p \in Process |-> {}]
    /\ mode = "run"

(***************************************************************************)
(* DoTransfer, and the end of StopProcess, with the queues as they are     *)
(* then.  The process that has been ready longest may be the caller        *)
(* itself.                                                                 *)
(***************************************************************************)
DoTransfer(queues) ==
    LET q == queues.tail[READY]
        cor1 == [cor EXCEPT ![cp] = Running]
    IN  /\ cp' = q
        /\ Q' = Pop(READY, queues)
        /\ IF q = NIL
           THEN mode' = "halt" /\ UNCHANGED <<cor, coroutineVars>>
           ELSE /\ cor' = cor1
                /\ \/ mode' = "run" /\ TRANSFER(saved, cor1[q])
                   \/ /\ cor1[q] # Running
                      /\ mode' = "trap" /\ TRANSFERTooLarge(saved)

(* The channels from c on in a list of opened channels. *)
OpenList(c) ==
    LET list == Walk(c, chnext, NIL, Cardinality(Channel))
    IN  {list[k] : k \in 1..Len(list)}

CloseChannels(p) ==
    /\ chindex' = [ch \in Channel |-> IF ch \in OpenList(opened[p]) THEN 0 ELSE chindex[ch]]
    /\ opened' = [opened EXCEPT ![p] = NIL]
    /\ UNCHANGED chnext

OpenChannel(ch, n) ==
    IF chindex[ch] = 0
    THEN /\ chindex' = [chindex EXCEPT ![ch] = n]
         /\ chnext' = [chnext EXCEPT ![ch] = opened[cp]]
         /\ opened' = [opened EXCEPT ![cp] = ch]
    ELSE UNCHANGED <<chindex, chnext, opened>>

(* The running process makes a call from its own code. *)
Calls == mode = "run" /\ at[cp] = "body" /\ sons[cp] = 0

(* The field opened of a descriptor that StartProcess allocated was never  *)
(* assigned: what the call does with it cannot be told.                    *)
Unassigned == opened[cp] = WILD

Stops(m) ==
    /\ mode' = m
    /\ UNCHANGED <<cp, Q, cor, guardindex, at, rch, descVars, chanVars,
                   msgadr, coroutineVars>>
-----------------------------------------------------------------------------
(* COBEGIN does nothing, and COEND only waits. *)
COEND ==
    /\ mode = "run" /\ at[cp] = "body"
    /\ sons[cp] > 0
    /\ DoTransfer(Q)
    /\ UNCHANGED <<guardindex, at, rch, descVars, chanVars, msgadr>>

(* The descriptor p is the one that was freed longest ago, or a new one.   *)
(* Nothing is assigned to opened.                                          *)
StartProcess(p) ==
    /\ mode = "run" /\ at[cp] = "body"
    /\ IF Q.tail[FREE] # NIL
       THEN p = Q.tail[FREE] /\ UNCHANGED opened
       ELSE /\ p # Main /\ cor[p] = NIL
            /\ \E o \in Residue : opened' = [opened EXCEPT ![p] = o]
    /\ father' = [father EXCEPT ![p] = cp]
    /\ \/ /\ cor' = [cor EXCEPT ![p] = AreaOf[p]]
          /\ saved' = NEWPROCESS(saved, AreaOf[p])
          /\ sons' = [sons EXCEPT ![p] = 0, ![cp] = @ + 1]
          /\ Q' = Push(READY, p, Pop(FREE, Q))
          /\ at' = [at EXCEPT ![p] = "body"]
          /\ UNCHANGED mode
       \/ /\ mode' = "trap"                       \* in NEWPROCESS
          /\ sons' = [sons EXCEPT ![p] = 0]
          /\ Q' = Pop(FREE, Q)
          /\ UNCHANGED <<cor, saved, at>>
    /\ UNCHANGED <<cp, curproc, guardindex, guardcount, guards, tried, rch,
                   chanVars, msgadr>>

AnySon(f) == TRUE
LastSon(f) == sons[f] = 1

StopProcess ==
    LET f == father[cp]
        queues == IF LastSon(f) THEN Push(READY, f, Q) ELSE Q
    IN  /\ Calls
        /\ cp # Main
        /\ sons' = [sons EXCEPT ![f] = @ - 1]
        /\ DoTransfer(Push(FREE, cp, queues))
        /\ UNCHANGED <<father, opened, guardindex, guardcount, guards, tried,
                       at, rch, chanVars, msgadr>>

InitChannel(ch) ==
    /\ Calls
    /\ ch \notin made
    /\ made' = made \cup {ch}
    /\ UNCHANGED <<cp, Q, cor, guardindex, at, rch, mode, descVars, owner,
                   chindex, chnext, msgadr, coroutineVars>>

GetChannel(ch) ==
    /\ Calls
    /\ ch \in made
    /\ IF owner[ch] # NIL THEN Stops("error")
       ELSE /\ owner' = [owner EXCEPT ![ch] = cp]
            /\ UNCHANGED <<cp, Q, cor, guardindex, at, rch, mode, descVars,
                           made, chindex, chnext, msgadr, coroutineVars>>

(* The owner waits for a message from ch, in Receive (-1) or in SELECT. *)
IsOpenToSelect(ch) == chindex[ch] > 0
IsOpen(ch) == chindex[ch] # 0

Send(ch) ==
    LET queues == Push(ch, cp, Q)
    IN  /\ Calls
        /\ ch \in made
        /\ msgadr' = [msgadr EXCEPT ![cp] = cp]
        /\ IF IsOpen(ch)
           THEN /\ guardindex' = [guardindex EXCEPT ![owner[ch]] = chindex[ch]]
                /\ CloseChannels(owner[ch])
                /\ DoTransfer(Push(READY, owner[ch], queues))
           ELSE /\ DoTransfer(queues)
                /\ UNCHANGED <<guardindex, opened, chindex, chnext>>
        /\ UNCHANGED <<father, sons, guardcount, guards, tried, at, rch,
                       owner, made>>

(* Behind a SELECT nothing remembers its guards. *)
LeaveSelect(place) ==
    /\ guards' = [guards EXCEPT ![cp] = IF place \in {"body", "guard"} THEN <<>> ELSE @]
    /\ tried' = [tried EXCEPT ![cp] = IF place \in {"body", "guard"} THEN {}
                                      ELSE @ \cup {guardindex[cp]}]

(* Receive when a sender waits; the caller goes on at place. *)
ReceiveNow(ch, place) ==
    LET aux == Q.tail[ch]
    IN  /\ msgadr' = [msgadr EXCEPT ![aux] = NIL]
        /\ CloseChannels(cp)
        /\ at' = [at EXCEPT ![cp] = place]
        /\ LeaveSelect(place)
        /\ DoTransfer(Push(READY, cp, Push(READY, aux, Pop(ch, Q))))
        /\ UNCHANGED <<father, sons, guardcount, guardindex, rch, owner, made>>

Receive(ch) ==
    /\ Calls
    /\ ch \in made
    /\ IF cp # owner[ch] THEN Stops("error")
       ELSE IF Unassigned THEN Stops("wild")
       ELSE IF Sending(ch) THEN ReceiveNow(ch, "body")
       ELSE /\ OpenChannel(ch, -1)
            /\ at' = [at EXCEPT ![cp] = "receive"]
            /\ rch' = [rch EXCEPT ![cp] = ch]
            /\ DoTransfer(Q)
            /\ UNCHANGED <<father, sons, guardcount, guards, tried, guardindex,
                           owner, made, msgadr>>

(* The rest of Receive, when a Send to the channel has made the receiver   *)
(* ready and its turn has come.                                            *)
ReceiveRest ==
    LET ch == rch[cp]
        aux == Q.tail[ch]
    IN  /\ mode = "run" /\ at[cp] = "receive"
        /\ msgadr' = [msgadr EXCEPT ![aux] = NIL]
        /\ at' = [at EXCEPT ![cp] = "body"]
        /\ rch' = [rch EXCEPT ![cp] = NIL]
        /\ DoTransfer(Push(READY, aux, Push(READY, cp, Pop(ch, Q))))
        /\ UNCHANGED <<descVars, guardindex, chanVars>>
-----------------------------------------------------------------------------
(* The tables of guards a process can use in a SELECT: NIL stands for a    *)
(* guard without a channel.                                                *)
GuardTables(p) ==
    UNION {[1..n -> {ch \in Channel : owner[ch] = p} \cup {NIL}] : n \in 1..MaxGuards}

GuardCountShort(gs) == Len(gs) - 1
GuardCount(gs) == Len(gs)

SELECT(gs) ==
    /\ Calls
    /\ guards' = [guards EXCEPT ![cp] = gs]
    /\ \E k \in 1..Len(gs) : guardindex' = [guardindex EXCEPT ![cp] = k]
    /\ guardcount' = [guardcount EXCEPT ![cp] = GuardCount(gs)]
    /\ at' = [at EXCEPT ![cp] = "select"]
    /\ UNCHANGED <<cp, Q, cor, rch, mode, father, sons, opened, tried,
                   chanVars, msgadr, coroutineVars>>

(* The process goes on at place with guardindex k; nothing else changes    *)
(* but what the caller of this operator says of the opened channels.       *)
GoOn(place, k) ==
    /\ at' = [at EXCEPT ![cp] = place]
    /\ guardindex' = [guardindex EXCEPT ![cp] = k]
    /\ LeaveSelect(place)
    /\ UNCHANGED <<cp, Q, cor, rch, mode, father, sons, guardcount, owner,
                   made, msgadr, coroutineVars>>

(* One alternative of a SELECT: NEXTGUARD and GUARD, with the value the    *)
(* condition has now.  When GUARD is true its statements follow, and then  *)
(* the ENDSELECT that ends the SELECT.  NEXTGUARD is 0 when no guard held. *)
GUARD(cond) ==
    LET g == guardindex[cp]
        ch == guards[cp][g]
    IN  /\ mode = "run" /\ at[cp] = "select"
        /\ g # 0
        /\ IF ~cond
           THEN GoOn("endselect", g) /\ UNCHANGED <<opened, chindex, chnext>>
           ELSE IF Unassigned THEN Stops("wild")
           ELSE IF ch = NIL THEN GoOn("body", 0) /\ CloseChannels(cp)
           ELSE IF Sending(ch) THEN ReceiveNow(ch, "guard")
           ELSE GoOn("endselect", g) /\ OpenChannel(ch, g)

NoGuard ==
    /\ mode = "run" /\ at[cp] = "select"
    /\ guardindex[cp] = 0
    /\ GoOn("body", 0)
    /\ UNCHANGED <<opened, chindex, chnext>>

(* The rest of GUARD, behind its Receive. *)
GUARDRest ==
    /\ mode = "run" /\ at[cp] = "guard"
    /\ GoOn("body", 0)
    /\ UNCHANGED <<opened, chindex, chnext>>

(* ENDSELECT after a GUARD that was false.  The count is a CARDINAL, and   *)
(* range checks are off.                                                   *)
NextGuard(p) == (guardindex[p] % Len(guards[p])) + 1

MustWait(count) == count = 0 /\ opened[cp] # NIL

ENDSELECT ==
    LET count == (guardcount[cp] + CardSize - 1) % CardSize
    IN  /\ mode = "run" /\ at[cp] = "endselect"
        /\ IF count = 0 /\ Unassigned THEN Stops("wild")
           ELSE /\ guardcount' = [guardcount EXCEPT ![cp] = count]
                /\ at' = [at EXCEPT ![cp] = "select"]
                /\ IF MustWait(count)
                   THEN DoTransfer(Q) /\ UNCHANGED guardindex
                   ELSE /\ guardindex' = [guardindex EXCEPT ![cp] =
                                           IF count # 0 THEN NextGuard(cp) ELSE 0]
                        /\ UNCHANGED <<cp, Q, cor, mode, coroutineVars>>
                /\ UNCHANGED <<father, sons, opened, guards, tried, rch,
                               chanVars, msgadr>>

(* A process that returns from its procedure ends the whole program. *)
Exit == mode = "run" /\ at[cp] = "body" /\ Stops("exit")
-----------------------------------------------------------------------------
Next ==
    \/ COEND
    \/ \E p \in Process : StartProcess(p)
    \/ StopProcess
    \/ \E ch \in Channel : InitChannel(ch) \/ GetChannel(ch) \/ Send(ch) \/ Receive(ch)
    \/ ReceiveRest
    \/ \E gs \in GuardTables(cp) : SELECT(gs)
    \/ \E cond \in BOOLEAN : GUARD(cond)
    \/ NoGuard
    \/ GUARDRest
    \/ ENDSELECT
    \/ Exit

Spec == Init /\ [][Next]_vars

(* One thread of control, which does not stop of itself, and processes     *)
(* that do not compute forever without a call that may make them wait.     *)
MayWait == COEND \/ StopProcess \/ \E ch \in Channel : Send(ch) \/ Receive(ch)
FairSpec == Spec /\ WF_vars(Next) /\ SF_vars(MayWait)
-----------------------------------------------------------------------------
(* A queue as a sequence, the process that leaves first in front. *)
Chain(q) ==
    IF Q.head[q] = NIL THEN <<>> ELSE Walk(Q.tail[q], Q.next, NIL, Cardinality(Process))

In(p, q) == LET c == Chain(q) IN \E k \in 1..Len(c) : c[k] = p

Allocated == {p \in Process : p = Main \/ cor[p] # NIL}
Live == {p \in Allocated : ~In(p, FREE)}

Joining(p) == sons[p] > 0 /\ p # cp
Offering(p) == opened[p] \in Channel /\ p # cp

Going == mode \in {"run", "halt"}

(* Every process is in exactly one place: it runs, or it is in one of the  *)
(* queues, once, or it waits for its sons or for a message.  This is what  *)
(* lets all queues share the one field next, and every queue ends at its   *)
(* head.  (The types of the variables are part of it.)                     *)
OnePlace ==
    TypeOK /\ (Going =>
      /\ \A p \in Allocated :
            Cardinality({q \in Queues : In(p, q)}
                        \cup {w \in {"runs"} : p = cp}
                        \cup {w \in {"joins"} : Joining(p)}
                        \cup {w \in {"offers"} : Offering(p)}) = 1
      /\ \A q \in Queues : LET c == Chain(q) IN
            /\ Q.head[q] = NIL <=> Q.tail[q] = NIL
            /\ Q.head[q] # NIL => c[Len(c)] = Q.head[q] /\ Q.next[Q.head[q]] = NIL
            /\ \A j, k \in 1..Len(c) : c[j] = c[k] => j = k)

(* When the rest of Receive runs, the message is still there, although any *)
(* number of processes ran since the Send that made the receiver ready.    *)
MessageThere ==
    /\ \A ch \in Channel : LET c == Chain(ch) IN
          \A k \in 1..Len(c) : msgadr[c[k]] = c[k]
    /\ Going => \A p \in Live : at[p] = "receive" /\ ~Offering(p) => Sending(rch[p])

(* No wake-up is lost.  A channel is open exactly when it is in the list   *)
(* of its owner, its owner waits or is still in the SELECT that opens it,  *)
(* and then nobody is sending to it; a receiver that was made ready finds  *)
(* the message there when its turn comes.                                  *)
NoLostWakeup ==
    MessageThere /\ (Going =>
      /\ \A ch \in Channel : chindex[ch] # 0 =>
            /\ ~Sending(ch)
            /\ owner[ch] # NIL /\ ch \in OpenList(opened[owner[ch]])
      /\ \A p \in Live : opened[p] \in Channel =>
            /\ \A ch \in OpenList(opened[p]) : chindex[ch] # 0 /\ owner[ch] = p
            /\ p = cp => at[p] \in {"select", "endselect"})

(* A process waits in a SELECT, or takes the alternative for no guard,     *)
(* only after it evaluated every guard; and while the statements of an     *)
(* alternative run the index says that the SELECT is over, whatever        *)
(* Receive or SELECT they execute.                                         *)
TriesEveryGuard ==
    Going => \A p \in Live :
      /\ at[p] = "select" /\ (guardindex[p] = 0 \/ p # cp)
            => tried[p] = 1..Len(guards[p])
      /\ at[p] = "body" => guardindex[p] <= 0

(* cp is the coroutine that runs, and a process that DoTransfer may choose *)
(* has its stack saved in its own workspace.                               *)
ResumesSavedStack ==
    mode = "run" =>
      /\ Running = AreaOf[cp]
      /\ \A p \in Live \ {cp} : cor[p] = AreaOf[p] /\ CanTransfer(saved, cor[p])

(* A process that is ready gets its turn, because the queue is first in    *)
(* first out and no call of this module keeps the processor.               *)
ReadyRuns == \A p \in Process : In(p, READY) ~> (cp = p \/ mode # "run")
=============================================================================
