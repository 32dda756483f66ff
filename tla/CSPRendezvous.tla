--------------------------- MODULE CSPRendezvous ----------------------------
(* What the queues and the lists of opened channels of CSP stand for in    *)
(* Rendezvous: an offer is made of the channels that belong to a process   *)
(* whose Receive or SELECT waits.                                          *)
EXTENDS CSP

Rendezvous ==
    INSTANCE Rendezvous
    WITH running <- cp,
         status <- [p \in Process |->
                       CASE p \notin Live -> "none"
                         [] \E ch \in Channel : In(p, ch) -> "sending"
                         [] Offering(p) -> "offering"
                         [] Joining(p) -> "joining"
                         [] OTHER -> "ready"],
         sending <- [ch \in Channel |-> Chain(ch)],
         offer <- [p \in Process |-> IF Offering(p) THEN OpenList(opened[p]) ELSE {}],
         family <- [p \in Process |-> IF p \in Live THEN father[p] ELSE NIL],
         owned <- owner,
         outcome <- IF mode = "run" THEN "going" ELSE mode

(* CSP implements Rendezvous: messages are taken once, in order and by the *)
(* owner, a sender goes on only when its message was taken, a father only  *)
(* when its last son has stopped, and the program halts only when no       *)
(* process can go on.                                                      *)
ImplementsRendezvous == Rendezvous!Spec
=============================================================================
