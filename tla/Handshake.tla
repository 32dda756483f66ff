----------------------------- MODULE Handshake -----------------------------
(***************************************************************************)
(* What the interprocess channels of the occam runtime promise, without    *)
(* the states of a channel: a message passes straight from a sender that   *)
(* waits to a receiver that waits, and the sender goes on afterwards.      *)
(***************************************************************************)
CONSTANTS Process, Channel, Value, Var

VARIABLES phase,  \* see Phases
          on,     \* the channels a process waits for
          msg,    \* the value a process sends
          into,   \* the variable a process reads into
          var     \* the variables of the program

handshakeVars == <<phase, on, msg, into, var>>

Phases == {"idle", "sending", "sent", "receiving", "polling"}
Receivings == {"receiving", "polling"}

NoValue == CHOOSE v \in Value : TRUE
NoVar == CHOOSE x \in Var : TRUE

Init ==
    /\ phase = [p \in Process |-> "idle"]
    /\ on = [p \in Process |-> {}]
    /\ msg = [p \in Process |-> NoValue]
    /\ into = [p \in Process |-> NoVar]
    /\ var \in [Var -> Value]

Assign ==
    /\ var' \in [Var -> Value]
    /\ UNCHANGED <<phase, on, msg, into>>

Send(p, c, v) ==
    /\ phase[p] = "idle"
    /\ phase' = [phase EXCEPT ![p] = "sending"]
    /\ on' = [on EXCEPT ![p] = {c}]
    /\ msg' = [msg EXCEPT ![p] = v]
    /\ UNCHANGED <<into, var>>

(* Polling: a time comes when the process no longer waits for a message.   *)
Receive(p, ph, S, x) ==
    /\ phase[p] = "idle"
    /\ phase' = [phase EXCEPT ![p] = ph]
    /\ on' = [on EXCEPT ![p] = S]
    /\ into' = [into EXCEPT ![p] = x]
    /\ UNCHANGED <<msg, var>>

(* Both partners are waiting; the receiver gets the sender's value. *)
Pass(p, q, c) ==
    /\ phase[p] = "sending" /\ on[p] = {c}
    /\ phase[q] \in Receivings /\ c \in on[q]
    /\ phase' = [phase EXCEPT ![p] = "sent", ![q] = "idle"]
    /\ on' = [on EXCEPT ![q] = {}]
    /\ var' = [var EXCEPT ![into[q]] = msg[p]]
    /\ into' = [into EXCEPT ![q] = NoVar]
    /\ msg' = [msg EXCEPT ![q] = NoValue]

(* A sender whose message was received goes on; so does a receiver whose   *)
(* time has come, without a message.                                       *)
GoOn(p) ==
    /\ phase[p] \in {"sent", "polling"}
    /\ phase' = [phase EXCEPT ![p] = "idle"]
    /\ on' = [on EXCEPT ![p] = {}]
    /\ msg' = [msg EXCEPT ![p] = NoValue]
    /\ into' = [into EXCEPT ![p] = NoVar]
    /\ UNCHANGED var

Next ==
    \/ Assign
    \/ \E p \in Process, c \in Channel, v \in Value : Send(p, c, v)
    \/ \E p \in Process, ph \in Receivings, S \in SUBSET Channel, x \in Var : Receive(p, ph, S, x)
    \/ \E p, q \in Process, c \in Channel : Pass(p, q, c)
    \/ \E p \in Process : GoOn(p)

Spec == Init /\ [][Next]_handshakeVars
=============================================================================
