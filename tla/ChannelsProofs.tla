--------------------------- MODULE ChannelsProofs ---------------------------
(***************************************************************************)
(* That the channels of channel.c implement Handshake, for every set of    *)
(* processes, channels, values and variables.                              *)
(***************************************************************************)
EXTENDS Channels, TLAPS

(* A sender uses one channel. *)
OneChannel == \A p \in Process : op[p] \in {"free", "ack"} => \E c \in Channel : on[p] = {c}

(* OneHolder without sets of processes. *)
NoHolder == \A c \in Channel, p \in Process : synch[c] = "FREE" => ~(op[p] = "ack" /\ c \in on[p])
SomeHolder == \A c \in Channel : synch[c] # "FREE" => \E p \in Process : op[p] = "ack" /\ c \in on[p]
SameHolder == \A c \in Channel, p, q \in Process :
    op[p] = "ack" /\ c \in on[p] /\ op[q] = "ack" /\ c \in on[q] => p = q
HeldValue == \A c \in Channel, p \in Process :
    synch[c] = "ANY" /\ op[p] = "ack" /\ c \in on[p] => val[c] = msg[p]

(* The inductive invariant. *)
ChanInv == ChanTypeOK /\ OneChannel /\ NoHolder /\ SomeHolder /\ SameHolder /\ HeldValue

(* NoValue and NoVar are what CHOOSE gives for sets that are not empty. *)
LEMMA NoneTypes == NoValue \in Value /\ NoVar \in Var
  BY ChannelsAssumption DEF NoValue, NoVar

LEMMA ChanInitInv == ChanInit => ChanInv
  BY NoneTypes DEF ChanInit, ChanInv, ChanTypeOK, OneChannel, NoHolder, SomeHolder, SameHolder,
     HeldValue, Synchs, Ops

(* The steps of one process p that move it from one call to another. *)
LEMMA ChanCalls ==
  ASSUME ChanInv, NEW p \in Process, NEW o \in Ops \ {"none", "ack"}, NEW S \in SUBSET Channel,
         Enter(p, o, S), o = "free" => \E c \in Channel : S = {c},
         msg' \in [Process -> Value], \A q \in Process \ {p} : msg'[q] = msg[q],
         into' \in [Process -> Var], UNCHANGED <<synch, val, var>>
  PROVE  ChanInv'
  <1>1. ChanTypeOK'
    BY DEF ChanInv, ChanTypeOK, Enter
  <1>2. /\ \A q \in Process \ {p} : op'[q] = op[q] /\ on'[q] = on[q]
        /\ op'[p] = o /\ on'[p] = S /\ op[p] = "none"
    BY DEF ChanInv, ChanTypeOK, Enter
  <1>3. OneChannel' /\ NoHolder' /\ SameHolder' /\ HeldValue'
    BY <1>2 DEF ChanInv, OneChannel, NoHolder, SameHolder, HeldValue
  <1>4. SomeHolder'
    BY <1>2 DEF ChanInv, SomeHolder
  <1>5. QED
    BY <1>1, <1>3, <1>4 DEF ChanInv

LEMMA ChanNextInv == ChanInv /\ [ChanNext]_chanVars => ChanInv'
  <1> SUFFICES ASSUME ChanInv, [ChanNext]_chanVars PROVE ChanInv'
    OBVIOUS
  <1> USE NoneTypes
  <1>1. CASE UNCHANGED chanVars
    BY <1>1 DEF chanVars, ChanInv, ChanTypeOK, OneChannel, NoHolder, SomeHolder, SameHolder, HeldValue
  <1>2. CASE Assign
    BY <1>2 DEF Assign, ChanInv, ChanTypeOK, OneChannel, NoHolder, SomeHolder, SameHolder, HeldValue
  <1>3. ASSUME NEW p \in Process, NEW c \in Channel, NEW x \in Var, InCall(p, c, x)
        PROVE  ChanInv'
    BY <1>3, ChanCalls DEF InCall, Ops, ChanInv, ChanTypeOK
  <1>4. ASSUME NEW p \in Process, NEW c \in Channel, NEW v \in Value, OutCall(p, c, v)
        PROVE  ChanInv'
    BY <1>4, ChanCalls DEF OutCall, Ops, ChanInv, ChanTypeOK
  <1>5. ASSUME NEW p \in Process, NEW o \in Ops, NEW S \in SUBSET Channel, NEW x \in Var,
               AltCall(p, o, S, x)
        PROVE  ChanInv'
    BY <1>5, ChanCalls DEF AltCall, Ops, ChanInv, ChanTypeOK
  <1>6. ASSUME NEW p \in Process, NEW c \in Channel, Take(p, c)
        PROVE  ChanInv'
    <2>1. ChanTypeOK'
      BY <1>6 DEF ChanInv, ChanTypeOK, Take, Return, Synchs, Ops
    <2>2. /\ \A q \in Process \ {p} : op'[q] = op[q] /\ on'[q] = on[q] /\ msg'[q] = msg[q]
          /\ op'[p] = "none" /\ op[p] \in Inputs /\ val' = val
          /\ \A d \in Channel \ {c} : synch'[d] = synch[d]
          /\ synch'[c] = "ACK" /\ synch[c] = "ANY"
      BY <1>6 DEF ChanInv, ChanTypeOK, Take, Return, chan_any
    <2>3. OneChannel' /\ NoHolder' /\ SameHolder' /\ HeldValue'
      BY <2>2 DEF ChanInv, OneChannel, NoHolder, SameHolder, HeldValue
    <2>4. SomeHolder'
      BY <2>2 DEF ChanInv, SomeHolder, Inputs
    <2>5. QED
      BY <2>1, <2>3, <2>4 DEF ChanInv
  <1>7. ASSUME NEW p \in Process, NEW c \in Channel, Put(p, c)
        PROVE  ChanInv'
    <2>1. ChanTypeOK'
      BY <1>7 DEF ChanInv, ChanTypeOK, Put, Synchs, Ops
    <2>2. /\ \A q \in Process \ {p} : op'[q] = op[q]
          /\ on' = on /\ msg' = msg /\ on[p] = {c}
          /\ op'[p] = "ack" /\ op[p] = "free"
          /\ \A d \in Channel \ {c} : synch'[d] = synch[d] /\ val'[d] = val[d]
          /\ synch'[c] = "ANY" /\ synch[c] = "FREE" /\ val'[c] = msg[p]
      BY <1>7 DEF ChanInv, ChanTypeOK, Put
    <2>3. OneChannel' /\ NoHolder' /\ SameHolder' /\ HeldValue'
      BY <2>2 DEF ChanInv, OneChannel, NoHolder, SameHolder, HeldValue
    <2>4. SomeHolder'
      BY <2>2 DEF ChanInv, SomeHolder
    <2>5. QED
      BY <2>1, <2>3, <2>4 DEF ChanInv
  <1>8. ASSUME NEW p \in Process, NEW c \in Channel, Acknowledged(p, c)
        PROVE  ChanInv'
    <2>1. ChanTypeOK'
      BY <1>8 DEF ChanInv, ChanTypeOK, Acknowledged, Return, Synchs, Ops
    <2>2. /\ \A q \in Process \ {p} : op'[q] = op[q] /\ on'[q] = on[q] /\ msg'[q] = msg[q]
          /\ op'[p] = "none" /\ op[p] = "ack" /\ on[p] = {c} /\ val' = val
          /\ \A d \in Channel \ {c} : synch'[d] = synch[d]
          /\ synch'[c] = "FREE" /\ synch[c] = "ACK"
      BY <1>8 DEF ChanInv, ChanTypeOK, Acknowledged, Return
    <2>3. OneChannel' /\ NoHolder' /\ SameHolder' /\ HeldValue'
      BY <2>2 DEF ChanInv, OneChannel, NoHolder, SameHolder, HeldValue
    <2>4. SomeHolder'
      BY <2>2 DEF ChanInv, SomeHolder
    <2>5. QED
      BY <2>1, <2>3, <2>4 DEF ChanInv
  <1>9. ASSUME NEW p \in Process, Late(p)
        PROVE  ChanInv'
    <2>1. ChanTypeOK'
      BY <1>9 DEF ChanInv, ChanTypeOK, Late, Return, Ops
    <2>2. /\ \A q \in Process \ {p} : op'[q] = op[q] /\ on'[q] = on[q] /\ msg'[q] = msg[q]
          /\ op'[p] = "none" /\ op[p] = "altwait" /\ val' = val /\ synch' = synch
      BY <1>9 DEF ChanInv, ChanTypeOK, Late, Return
    <2>3. OneChannel' /\ NoHolder' /\ SameHolder' /\ HeldValue'
      BY <2>2 DEF ChanInv, OneChannel, NoHolder, SameHolder, HeldValue
    <2>4. SomeHolder'
      BY <2>2 DEF ChanInv, SomeHolder
    <2>5. QED
      BY <2>1, <2>3, <2>4 DEF ChanInv
  <1>10. QED
    BY <1>1, <1>2, <1>3, <1>4, <1>5, <1>6, <1>7, <1>8, <1>9 DEF ChanNext

(* Under the invariant the set of holders has at most one element, and one *)
(* if the channel is not free.                                             *)
LEMMA HolderSets == ChanInv => OneHolder
  <1> SUFFICES ASSUME ChanInv, NEW c \in Channel
               PROVE  /\ synch[c] = "FREE" => Holders(c) = {}
                      /\ synch[c] # "FREE" => \E p \in Process : Holders(c) = {p}
                      /\ synch[c] = "ANY" => \A p \in Holders(c) : val[c] = msg[p]
    BY DEF OneHolder
  <1>1. synch[c] = "FREE" => Holders(c) = {}
    BY DEF ChanInv, NoHolder, Holders
  <1>2. synch[c] # "FREE" => \E p \in Process : Holders(c) = {p}
    <2> SUFFICES ASSUME synch[c] # "FREE" PROVE \E p \in Process : Holders(c) = {p}
      OBVIOUS
    <2>1. PICK p \in Process : op[p] = "ack" /\ c \in on[p]
      BY DEF ChanInv, SomeHolder
    <2>2. Holders(c) = {p}
      BY <2>1 DEF ChanInv, SameHolder, Holders
    <2>3. QED
      BY <2>2
  <1>3. synch[c] = "ANY" => \A p \in Holders(c) : val[c] = msg[p]
    BY DEF ChanInv, HeldValue, Holders
  <1>4. QED
    BY <1>1, <1>2, <1>3

(* A channel that is not free belongs to one sender, and holds its value   *)
(* until that is taken, whatever processes use the channel and in whatever *)
(* order they run.                                                         *)
THEOREM ChannelHasOneHolder == ChanSpec => []OneHolder
  <1>1. ChanSpec => []ChanInv
    BY ChanInitInv, ChanNextInv, PTL DEF ChanSpec
  <1>2. QED
    BY <1>1, HolderSets, PTL
-----------------------------------------------------------------------------
(* What Handshake sees of a process. *)
LEMMA PhaseOf ==
  ASSUME ChanTypeOK, NEW p \in Process
  PROVE  /\ op[p] = "none" => phase[p] = "idle"
         /\ op[p] = "free" => phase[p] = "sending"
         /\ op[p] = "ack" /\ (\E c \in on[p] : synch[c] = "ACK") => phase[p] = "sent"
         /\ op[p] = "ack" /\ ~(\E c \in on[p] : synch[c] = "ACK") => phase[p] = "sending"
         /\ op[p] = "altwait" => phase[p] = "polling"
         /\ op[p] \in {"in", "alt"} => phase[p] = "receiving"
  BY DEF phase, ChanTypeOK, Ops

(* The phase of a process that a step leaves alone changes only if its     *)
(* channel is acknowledged or freed.                                       *)
LEMMA PhaseKept ==
  ASSUME NEW q \in Process, op'[q] = op[q], on'[q] = on[q],
         op[q] = "ack" => ((\E c \in on[q] : synch[c] = "ACK") <=> (\E c \in on[q] : synch'[c] = "ACK"))
  PROVE  phase'[q] = phase[q]
  BY DEF phase

LEMMA PhaseFunction == /\ phase = [q \in Process |-> phase[q]]
                       /\ phase' = [q \in Process |-> phase'[q]]
  BY Zenon DEF phase

(* A step that changes the phase of only one process. *)
LEMMA PhaseUpdate ==
  ASSUME NEW p \in Process, NEW ph, phase'[p] = ph, \A q \in Process \ {p} : phase'[q] = phase[q]
  PROVE  phase' = [phase EXCEPT ![p] = ph]
  BY PhaseFunction

LEMMA SameNone == NoValue = H!NoValue /\ NoVar = H!NoVar
  BY DEF NoValue, NoVar, H!NoValue, H!NoVar

LEMMA InitRefines == ChanInit => H!Init
  BY SameNone DEF ChanInit, H!Init, phase

(* The beginning of an input, an ALT or an output. *)
LEMMA CallRefines ==
  ASSUME ChanInv, ChanInv', NEW p \in Process, NEW o \in Ops \ {"none", "ack"},
         NEW S \in SUBSET Channel, Enter(p, o, S), UNCHANGED synch
  PROVE  /\ phase[p] = "idle"
         /\ o = "free" => phase' = [phase EXCEPT ![p] = "sending"]
         /\ o = "altwait" => phase' = [phase EXCEPT ![p] = "polling"]
         /\ o \in {"in", "alt"} => phase' = [phase EXCEPT ![p] = "receiving"]
  <1>1. /\ \A q \in Process \ {p} : op'[q] = op[q] /\ on'[q] = on[q]
        /\ op'[p] = o /\ op[p] = "none"
    BY DEF ChanInv, ChanTypeOK, Enter
  <1>2. \A q \in Process \ {p} : phase'[q] = phase[q]
    BY <1>1, PhaseKept
  <1>3. phase[p] = "idle"
    BY <1>1, PhaseOf DEF ChanInv
  <1>4. /\ o = "free" => phase'[p] = "sending"
        /\ o = "altwait" => phase'[p] = "polling"
        /\ o \in {"in", "alt"} => phase'[p] = "receiving"
    BY <1>1 DEF phase
  <1>5. QED
    BY <1>2, <1>3, <1>4, PhaseUpdate

(* A value is taken: it passes from the holder of the channel. *)
LEMMA TakeRefines ==
  ASSUME ChanInv, ChanInv', NEW p \in Process, NEW c \in Channel, Take(p, c)
  PROVE  \E q \in Process : H!Pass(q, p, c)
  <1>1. PICK q \in Process : op[q] = "ack" /\ c \in on[q]
    BY DEF Take, chan_any, ChanInv, SomeHolder
  <1>2. on[q] = {c} /\ val[c] = msg[q] /\ q # p
    BY <1>1 DEF Take, chan_any, ChanInv, OneChannel, HeldValue, Inputs
  <1>3. /\ \A r \in Process \ {p} : op'[r] = op[r] /\ on'[r] = on[r]
        /\ op'[p] = "none" /\ op[p] \in Inputs /\ c \in on[p]
        /\ \A d \in Channel \ {c} : synch'[d] = synch[d]
        /\ synch'[c] = "ACK" /\ synch[c] = "ANY"
    BY DEF ChanInv, ChanTypeOK, Take, Return, chan_any
  <1>4. phase[q] = "sending" /\ phase[p] \in H!Receivings
    BY <1>1, <1>2, <1>3, PhaseOf DEF ChanInv, Inputs, H!Receivings
  <1>5. phase'[q] = "sent" /\ phase'[p] = "idle"
    BY <1>1, <1>2, <1>3 DEF phase
  <1>6. ASSUME NEW r \in Process \ {p, q} PROVE phase'[r] = phase[r]
    <2>1. op[r] = "ack" => on[r] \in SUBSET Channel /\ c \notin on[r]
      BY <1>1 DEF ChanInv, SameHolder, ChanTypeOK
    <2>2. QED
      BY <1>3, <2>1, PhaseKept
  <1>7. phase' = [phase EXCEPT ![q] = "sent", ![p] = "idle"]
    BY <1>2, <1>5, <1>6, PhaseFunction
  <1>8. QED
    BY <1>2, <1>3, <1>4, <1>7, SameNone DEF Take, Return, H!Pass

(* The handshake states of a channel are not seen in Handshake. *)
LEMMA PutRefines ==
  ASSUME ChanInv, ChanInv', NEW p \in Process, NEW c \in Channel, Put(p, c)
  PROVE  UNCHANGED H!handshakeVars
  <1>1. /\ \A q \in Process \ {p} : op'[q] = op[q]
        /\ on' = on /\ on[p] = {c} /\ op'[p] = "ack" /\ op[p] = "free"
        /\ \A d \in Channel \ {c} : synch'[d] = synch[d]
        /\ synch'[c] = "ANY" /\ synch[c] = "FREE"
    BY DEF ChanInv, ChanTypeOK, Put
  <1>2. ASSUME NEW q \in Process PROVE phase'[q] = phase[q]
    <2>1. CASE q = p
      BY <1>1, <2>1 DEF phase
    <2>2. CASE q # p
      <3>1. on[q] \in SUBSET Channel
        BY DEF ChanInv, ChanTypeOK
      <3>2. QED
        BY <1>1, <2>2, <3>1, PhaseKept
    <2>3. QED
      BY <2>1, <2>2
  <1>3. phase' = phase
    BY <1>2 DEF phase
  <1>4. QED
    BY <1>3 DEF Put, H!handshakeVars

(* The sender goes on. *)
LEMMA AcknowledgedRefines ==
  ASSUME ChanInv, ChanInv', NEW p \in Process, NEW c \in Channel, Acknowledged(p, c)
  PROVE  H!GoOn(p)
  <1>1. /\ \A q \in Process \ {p} : op'[q] = op[q] /\ on'[q] = on[q]
        /\ op'[p] = "none" /\ op[p] = "ack" /\ on[p] = {c}
        /\ \A d \in Channel \ {c} : synch'[d] = synch[d]
        /\ synch[c] = "ACK"
    BY DEF ChanInv, ChanTypeOK, Acknowledged, Return
  <1>2. phase[p] = "sent" /\ phase'[p] = "idle"
    BY <1>1 DEF phase
  <1>3. ASSUME NEW q \in Process \ {p} PROVE phase'[q] = phase[q]
    <2>1. op[q] = "ack" => on[q] \in SUBSET Channel /\ c \notin on[q]
      BY <1>1 DEF ChanInv, SameHolder, ChanTypeOK
    <2>2. QED
      BY <1>1, <2>1, PhaseKept
  <1>4. phase' = [phase EXCEPT ![p] = "idle"]
    BY <1>2, <1>3, PhaseUpdate
  <1>5. QED
    BY <1>2, <1>4, SameNone DEF Acknowledged, Return, H!GoOn

(* A receiver gives up. *)
LEMMA LateRefines ==
  ASSUME ChanInv, ChanInv', NEW p \in Process, Late(p)
  PROVE  H!GoOn(p)
  <1>1. /\ \A q \in Process \ {p} : op'[q] = op[q] /\ on'[q] = on[q]
        /\ op'[p] = "none" /\ op[p] = "altwait" /\ synch' = synch
    BY DEF ChanInv, ChanTypeOK, Late, Return
  <1>2. phase[p] = "polling" /\ phase'[p] = "idle"
    BY <1>1 DEF phase
  <1>3. \A q \in Process \ {p} : phase'[q] = phase[q]
    BY <1>1, PhaseKept
  <1>4. phase' = [phase EXCEPT ![p] = "idle"]
    BY <1>2, <1>3, PhaseUpdate
  <1>5. QED
    BY <1>2, <1>4, SameNone DEF Late, Return, H!GoOn

LEMMA NextRefines == ChanInv /\ ChanInv' /\ [ChanNext]_chanVars => [H!Next]_(H!handshakeVars)
  <1> SUFFICES ASSUME ChanInv, ChanInv', [ChanNext]_chanVars
               PROVE  H!Next \/ UNCHANGED H!handshakeVars
    OBVIOUS
  <1>1. CASE UNCHANGED chanVars
    BY <1>1 DEF chanVars, H!handshakeVars, phase
  <1>2. CASE Assign
    BY <1>2 DEF Assign, H!Next, H!Assign, phase
  <1>3. ASSUME NEW p \in Process, NEW c \in Channel, NEW x \in Var, InCall(p, c, x)
        PROVE  H!Next
    <2>1. Enter(p, "in", {c}) /\ {c} \in SUBSET Channel /\ "in" \in Ops /\ UNCHANGED synch
      BY <1>3 DEF InCall, Ops
    <2>2. phase[p] = "idle" /\ phase' = [phase EXCEPT ![p] = "receiving"]
      BY <2>1, CallRefines
    <2>3. H!Receive(p, "receiving", {c}, x)
      BY <1>3, <2>2 DEF InCall, Enter, H!Receive
    <2>4. QED
      BY <2>3 DEF H!Next, H!Receivings
  <1>4. ASSUME NEW p \in Process, NEW c \in Channel, NEW v \in Value, OutCall(p, c, v)
        PROVE  H!Next
    <2>1. Enter(p, "free", {c}) /\ {c} \in SUBSET Channel /\ "free" \in Ops /\ UNCHANGED synch
      BY <1>4 DEF OutCall, Ops
    <2>2. phase[p] = "idle" /\ phase' = [phase EXCEPT ![p] = "sending"]
      BY <2>1, CallRefines
    <2>3. H!Send(p, c, v)
      BY <1>4, <2>2 DEF OutCall, Enter, H!Send
    <2>4. QED
      BY <2>3 DEF H!Next
  <1>5. ASSUME NEW p \in Process, NEW o \in Ops, NEW S \in SUBSET Channel, NEW x \in Var,
               AltCall(p, o, S, x)
        PROVE  H!Next
    <2>1. H!Receive(p, IF o = "alt" THEN "receiving" ELSE "polling", S, x)
      BY <1>5, CallRefines DEF AltCall, Enter, H!Receive, Ops
    <2>2. QED
      BY <2>1 DEF H!Next, H!Receivings
  <1>6. ASSUME NEW p \in Process, NEW c \in Channel, Take(p, c)
        PROVE  H!Next
    BY <1>6, TakeRefines DEF H!Next
  <1>7. ASSUME NEW p \in Process, NEW c \in Channel, Acknowledged(p, c)
        PROVE  H!Next
    BY <1>7, AcknowledgedRefines DEF H!Next
  <1>8. ASSUME NEW p \in Process, Late(p)
        PROVE  H!Next
    BY <1>8, LateRefines DEF H!Next
  <1>9. QED
    BY <1>1, <1>2, <1>3, <1>4, <1>5, <1>6, <1>7, <1>8, PutRefines DEF ChanNext

(* chan_in, chan_out, ALT and WAIT pass messages as Handshake says: every  *)
(* value that is sent is received once, by a process that waits for it,    *)
(* and the sender goes on only then, also if several processes use an end  *)
(* of a channel, which the occam compiler does not forbid.                 *)
THEOREM ChannelsImplementHandshake == ChanSpec => ImplementsHandshake
  <1>1. ChanSpec => []ChanInv
    BY ChanInitInv, ChanNextInv, PTL DEF ChanSpec
  <1>2. ChanSpec => H!Spec
    BY <1>1, InitRefines, NextRefines, PTL DEF ChanSpec, H!Spec
  <1>3. QED
    BY <1>2 DEF ImplementsHandshake
=============================================================================
