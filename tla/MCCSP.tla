------------------------------- MODULE MCCSP -------------------------------
(* CSP with its constants given values for TLC: the area of a process is   *)
(* modelled by the process itself.                                         *)
EXTENDS CSPRendezvous, TLC

CONSTANTS p1, p2, p3, p4, c1, c2

MCProcess == {p1, p2, p3}
MCAreaOf == [p \in MCProcess |-> p]
(* Three sons besides the main program, so that two can keep each other    *)
(* busy while a third is ready.  What happens after the end of a program   *)
(* is of no interest to that question.                                     *)
MCProcess4 == {p1, p2, p3, p4}
MCAreaOf4 == [p \in MCProcess4 |-> p]
MCGoing == mode \in {"run", "halt"}

MCSymmetry == Permutations({p2, p3}) \cup Permutations({c1, c2})
=============================================================================
