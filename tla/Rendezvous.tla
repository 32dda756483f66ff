----------------------------- MODULE Rendezvous -----------------------------
(***************************************************************************)
(* What lang/m2/libm2/CSP promises its clients, without its queues, lists, *)
(* counters and guard indices.  A process is not there, ready, or waits:   *)
(* to have its message taken, for a message on one of the channels it      *)
(* offers to receive from, or for its last son.  The messages sent to a    *)
(* channel are taken in the order in which they were sent, each once, by   *)
(* the owner of the channel.                                               *)
(***************************************************************************)
EXTENDS Naturals, Sequences

CONSTANTS Process, Main, Channel, NIL

VARIABLES running,   \* the process that runs, NIL after a halt
          status,    \* see Statuses
          sending,   \* for each channel the processes that send to it
          offer,     \* the channels a process at "offering" would receive from
          family,    \* the father of a process that is there
          owned,     \* the owner of a channel, or NIL
          outcome    \* "going", "halt", or how else the program ended

rendezvousVars == <<running, status, sending, offer, family, owned, outcome>>

Statuses == {"none", "ready", "sending", "offering", "joining"}

Init ==
    /\ running = Main
    /\ status = [p \in Process |-> IF p = Main THEN "ready" ELSE "none"]
    /\ sending = [ch \in Channel |-> <<>>]
    /\ offer = [p \in Process |-> {}]
    /\ family = [p \in Process |-> NIL]
    /\ owned = [ch \in Channel |-> NIL]
    /\ outcome = "going"

Sons(f) == {p \in Process : status[p] # "none" /\ family[p] = f}

(* Some ready process runs; if there is none the program halts.  The stack *)
(* of the process that ran may turn out too large.                         *)
Dispatch ==
    /\ outcome = "going"
    /\ IF \E p \in Process : status'[p] = "ready"
       THEN /\ status'[running'] = "ready"
            /\ outcome' \in {"going", "trap"}
       ELSE running' = NIL /\ outcome' = "halt"

Start(p) ==
    /\ outcome = "going"
    /\ status[p] = "none"
    /\ \/ outcome' = "going" /\ status' = [status EXCEPT ![p] = "ready"]
       \/ outcome' = "trap" /\ status' \in {status, [status EXCEPT ![p] = "ready"]}
    /\ family' = [family EXCEPT ![p] = IF status'[p] = "ready" THEN running ELSE NIL]
    /\ UNCHANGED <<running, sending, offer, owned>>

Join ==
    /\ Sons(running) # {}
    /\ status' = [status EXCEPT ![running] = "joining"]
    /\ running' \in Process \cup {NIL} /\ Dispatch
    /\ UNCHANGED <<sending, offer, family, owned>>

Stop ==
    LET f == family[running]
        last == Sons(f) = {running}
    IN  /\ running # Main
        /\ status' = [p \in Process |-> CASE p = running -> "none"
                                          [] p = f /\ last -> "ready"
                                          [] OTHER -> status[p]]
        /\ family' = [family EXCEPT ![running] = NIL]
        /\ running' \in Process \cup {NIL} /\ Dispatch
        /\ UNCHANGED <<sending, offer, owned>>

Get(ch) ==
    /\ outcome = "going"
    /\ owned[ch] = NIL
    /\ owned' = [owned EXCEPT ![ch] = running]
    /\ UNCHANGED <<running, status, sending, offer, family, outcome>>

(* The owner, if it offers to receive from ch, becomes ready. *)
Send(ch) ==
    LET wakes == {p \in Process : ch \in offer[p]}
    IN  /\ sending' = [sending EXCEPT ![ch] = Append(@, running)]
        /\ offer' = [p \in Process |-> IF p \in wakes THEN {} ELSE offer[p]]
        /\ status' = [p \in Process |-> CASE p = running -> "sending"
                                          [] p \in wakes -> "ready"
                                          [] OTHER -> status[p]]
        /\ running' \in Process \cup {NIL} /\ Dispatch
        /\ UNCHANGED <<family, owned>>

(* The owner takes the first message, and its sender becomes ready. *)
Take(ch) ==
    /\ sending[ch] # <<>>
    /\ owned[ch] = running
    /\ sending' = [sending EXCEPT ![ch] = Tail(@)]
    /\ status' = [status EXCEPT ![Head(sending[ch])] = "ready"]
    /\ running' \in Process \cup {NIL} /\ Dispatch
    /\ UNCHANGED <<offer, family, owned>>

(* No process waits for a message that is already there. *)
Offer(S) ==
    /\ S # {}
    /\ \A ch \in S : owned[ch] = running /\ sending[ch] = <<>>
    /\ offer' = [offer EXCEPT ![running] = S]
    /\ status' = [status EXCEPT ![running] = "offering"]
    /\ running' \in Process \cup {NIL} /\ Dispatch
    /\ UNCHANGED <<sending, family, owned>>

End ==
    /\ outcome = "going"
    /\ outcome' \in {"error", "exit", "wild"}
    /\ UNCHANGED <<running, status, sending, offer, family, owned>>

Next ==
    \/ \E p \in Process : Start(p)
    \/ Join
    \/ Stop
    \/ \E ch \in Channel : Get(ch) \/ Send(ch) \/ Take(ch)
    \/ \E S \in SUBSET Channel : Offer(S)
    \/ End

Spec == Init /\ [][Next]_rendezvousVars
=============================================================================
