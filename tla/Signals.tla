------------------------------ MODULE Signals ------------------------------
(***************************************************************************)
(* What lang/m2/libm2/Processes promises its clients: processes of which   *)
(* one runs, and signals.  A process that waits for a signal is resumed by *)
(* the SEND of that signal, first come first served, and a program is      *)
(* halted for deadlock only when every process waits.                      *)
(***************************************************************************)
EXTENDS Naturals, Sequences

CONSTANTS Process, Main, Signal

VARIABLES running,   \* the process that runs
          started,   \* the processes that exist
          waiters,   \* for each signal its waiting processes, longest wait first
          outcome    \* "going", "deadlock", or how else the program ended

signalVars == <<running, started, waiters, outcome>>

InQueue(s, p) == \E k \in 1..Len(waiters[s]) : waiters[s][k] = p
Waits(p) == \E s \in Signal : InQueue(s, p)

Init ==
    /\ running = Main
    /\ started = {Main}
    /\ waiters = [s \in Signal |-> <<>>]
    /\ outcome = "going"

(* A call may also end the program, because a stack outgrows its area. *)
GoesOn == outcome = "going" /\ outcome' \in {"going", "trap"}

Start(p) ==
    /\ p \notin started
    /\ GoesOn
    /\ running' = p
    /\ started' = started \cup {p}
    /\ UNCHANGED waiters

Send(s) ==
    /\ waiters[s] # <<>>
    /\ GoesOn
    /\ running' = Head(waiters[s])
    /\ waiters' = [waiters EXCEPT ![s] = Tail(@)]
    /\ UNCHANGED started

Wait(s) ==
    /\ \E p \in started \ {running} : ~Waits(p) /\ running' = p
    /\ GoesOn
    /\ waiters' = [waiters EXCEPT ![s] = Append(@, running)]
    /\ UNCHANGED started

WaitDeadlock ==
    /\ outcome = "going"
    /\ \A p \in started \ {running} : Waits(p)
    /\ outcome' = "deadlock"
    /\ UNCHANGED <<running, started, waiters>>

Stop ==
    /\ outcome = "going"
    /\ outcome' = "exit"
    /\ UNCHANGED <<running, started, waiters>>

Next ==
    \/ \E p \in Process : Start(p)
    \/ \E s \in Signal : Send(s) \/ Wait(s)
    \/ WaitDeadlock
    \/ Stop

Spec == Init /\ [][Next]_signalVars
=============================================================================
