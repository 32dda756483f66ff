---------------------------- MODULE MCProcesses ----------------------------
(* Processes with its constants given values for TLC: the area of a        *)
(* process is modelled by the process itself.                              *)
EXTENDS Processes, TLC

CONSTANTS p1, p2, p3, p4

MCProcess == {p1, p2, p3, p4}
MCAreaOf == [p \in MCProcess |-> p]
=============================================================================
