---------------------------- MODULE MCSemaphores ----------------------------
(* Instances of Semaphores for TLC. *)
EXTENDS Semaphores, TLC

CONSTANTS p1, p2, p3

MCProcess == {p1, p2, p3}
MCAreaOf == [p \in MCProcess |-> p]
=============================================================================
