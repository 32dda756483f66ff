------------------------------ MODULE Channels ------------------------------
(***************************************************************************)
(* lang/occam/lib/channel.c: the interprocess channels (C_T_CHAN) of occam *)
(* programs, for processes that run in any order.  Who runs next is the    *)
(* business of resumenext(), see Parco and Occam; here a process that      *)
(* waits just does not move.                                               *)
(*                                                                         *)
(* occam forbids two processes to use the same end of a channel, which the *)
(* compiler does not check ("so we tried to smooth it a little"): the      *)
(* processes here may.                                                     *)
(***************************************************************************)
EXTENDS Naturals, FiniteSets

CONSTANTS Process, Channel, Value,
          Var           \* the variables of the program

ASSUME ChannelsAssumption == Value # {} /\ Var # {}

VARIABLES synch,   \* state of a channel: C_S_FREE, C_S_ANY or C_S_ACK
          val,     \* the transmitted value
          op,      \* the call a process is in, see Ops
          on,      \* the channels of the call
          msg,     \* chan_out: the value
          into,    \* chan_in: the variable
          var      \* the values of the variables

chanVars == <<synch, val, op, on, msg, into, var>>

NoValue == CHOOSE v \in Value : TRUE
NoVar == CHOOSE x \in Var : TRUE

Synchs == {"FREE", "ANY", "ACK"}

(* none: in no call; in: waits for C_S_ANY in chan_in; free, ack: waits    *)
(* for C_S_FREE, C_S_ACK in chan_out; alt: goes around in an ALT; altwait: *)
(* goes around in an ALT with a WAIT guard, or in a WAIT.                  *)
Ops == {"none", "in", "free", "ack", "alt", "altwait"}
Inputs == {"in", "alt", "altwait"}

ChanTypeOK ==
    /\ synch \in [Channel -> Synchs]
    /\ val \in [Channel -> Value]
    /\ op \in [Process -> Ops]
    /\ on \in [Process -> SUBSET Channel]
    /\ msg \in [Process -> Value]
    /\ into \in [Process -> Var]
    /\ var \in [Var -> Value]

(* c_init: the channel is free; what val holds is of no importance.        *)
ChanInit ==
    /\ synch = [c \in Channel |-> "FREE"]
    /\ val \in [Channel -> Value]
    /\ op = [p \in Process |-> "none"]
    /\ on = [p \in Process |-> {}]
    /\ msg = [p \in Process |-> NoValue]
    /\ into = [p \in Process |-> NoVar]
    /\ var \in [Var -> Value]

Enter(p, o, S) ==
    /\ op[p] = "none"
    /\ op' = [op EXCEPT ![p] = o]
    /\ on' = [on EXCEPT ![p] = S]

(* The arguments of the call are gone. *)
Return(p) ==
    /\ op' = [op EXCEPT ![p] = "none"]
    /\ on' = [on EXCEPT ![p] = {}]
    /\ msg' = [msg EXCEPT ![p] = NoValue]
    /\ into' = [into EXCEPT ![p] = NoVar]

(* The whole of a program that is not input or output. *)
Assign ==
    /\ var' \in [Var -> Value]
    /\ UNCHANGED <<synch, val, op, on, msg, into>>

(* c ? x *)
InCall(p, c, x) ==
    /\ Enter(p, "in", {c})
    /\ into' = [into EXCEPT ![p] = x]
    /\ UNCHANGED <<synch, val, msg, var>>

(* ALT over the inputs from S, and a WAIT guard if o is "altwait"; WAIT is *)
(* the case of no inputs.                                                  *)
AltCall(p, o, S, x) ==
    /\ o \in {"alt", "altwait"}
    /\ Enter(p, o, S)
    /\ into' = [into EXCEPT ![p] = x]
    /\ UNCHANGED <<synch, val, msg, var>>

(* c ! v *)
OutCall(p, c, v) ==
    /\ Enter(p, "free", {c})
    /\ msg' = [msg EXCEPT ![p] = v]
    /\ UNCHANGED <<synch, val, into, var>>

chan_any(c) == synch[c] = "ANY"

TakeNoAck(p, c) ==
    /\ op[p] \in Inputs
    /\ c \in on[p] /\ chan_any(c)
    /\ var' = [var EXCEPT ![into[p]] = val[c]]
    /\ synch' = [synch EXCEPT ![c] = "FREE"]
    /\ Return(p)
    /\ UNCHANGED val

(* The end of the loop of chan_in, or a guard of an ALT that is ready and  *)
(* its chan_in, which then finds C_S_ANY at once.                          *)
Take(p, c) ==
    /\ op[p] \in Inputs
    /\ c \in on[p] /\ chan_any(c)
    /\ var' = [var EXCEPT ![into[p]] = val[c]]
    /\ synch' = [synch EXCEPT ![c] = "ACK"]
    /\ Return(p)
    /\ UNCHANGED val

(* The first loop of chan_out ends: the value goes into the channel.       *)
Put(p, c) ==
    /\ op[p] = "free" /\ on[p] = {c}
    /\ synch[c] = "FREE"
    /\ val' = [val EXCEPT ![c] = msg[p]]
    /\ synch' = [synch EXCEPT ![c] = "ANY"]
    /\ op' = [op EXCEPT ![p] = "ack"]
    /\ UNCHANGED <<on, msg, into, var>>

(* The second loop of chan_out ends: the channel is back to normal.        *)
Acknowledged(p, c) ==
    /\ op[p] = "ack" /\ on[p] = {c}
    /\ synch[c] = "ACK"
    /\ synch' = [synch EXCEPT ![c] = "FREE"]
    /\ Return(p)
    /\ UNCHANGED <<val, var>>

(* The time of a WAIT has come. *)
Late(p) ==
    /\ op[p] = "altwait"
    /\ Return(p)
    /\ UNCHANGED <<synch, val, var>>

ChanNext ==
    \/ Assign
    \/ \E p \in Process, c \in Channel :
        \/ \E x \in Var : InCall(p, c, x)
        \/ \E v \in Value : OutCall(p, c, v)
        \/ Take(p, c) \/ Put(p, c) \/ Acknowledged(p, c)
    \/ \E p \in Process, o \in Ops, S \in SUBSET Channel, x \in Var : AltCall(p, o, S, x)
    \/ \E p \in Process : Late(p)

ChanSpec == ChanInit /\ [][ChanNext]_chanVars
-----------------------------------------------------------------------------
Holders(c) == {p \in Process : op[p] = "ack" /\ c \in on[p]}

(* A channel that is not free belongs to one sender, which waits for the   *)
(* acknowledgement; while the value has not been taken it is that sender's *)
(* value.  This is what the third state is for: a second sender that waits *)
(* in the first loop of chan_out does not get the acknowledgement.         *)
OneHolder ==
    \A c \in Channel :
        /\ synch[c] = "FREE" => Holders(c) = {}
        /\ synch[c] # "FREE" => \E p \in Process : Holders(c) = {p}
        /\ synch[c] = "ANY" => \A p \in Holders(c) : val[c] = msg[p]

phase == [p \in Process |->
            CASE op[p] = "none" -> "idle"
              [] op[p] = "free" -> "sending"
              [] op[p] = "ack" -> IF \E c \in on[p] : synch[c] = "ACK" THEN "sent" ELSE "sending"
              [] op[p] = "altwait" -> "polling"
              [] OTHER -> "receiving"]

H == INSTANCE Handshake

(* chan_in, chan_out, ALT and WAIT implement the direct passing of         *)
(* messages of Handshake: every value sent is received once, by a process  *)
(* that waited for it, and the sender goes on only then.                   *)
ImplementsHandshake == H!Spec
=============================================================================
