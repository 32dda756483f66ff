------------------------------ MODULE MCOccam ------------------------------
(* Occam with its constants given values for TLC. *)
EXTENDS Occam, TLC

CONSTANT c1

MCChannel == {c1}
MCProcess == 0..MaxProcs
=============================================================================
