------------------------------ MODULE MCStdio ------------------------------
(* Stdio with its constants given values for TLC. *)
EXTENDS Stdio, TLC

CONSTANTS file, tty

MCStream == {file, tty}
MCTty == {tty}
MCMaxLen == (file :> 2) @@ (tty :> 1)

(* Three kinds of program: one that does not use stdout, and a file in all *)
(* ways; one that writes to stdout and reads a file; and one that writes   *)
(* to stdout and has functions to be called by exit().  System calls fail  *)
(* for the first two.                                                      *)
MCInit ==
    /\ Init
    /\ \/ ~f[tty].open /\ f[file].disk = <<>> /\ faults = MaxFaults
          /\ env = [access |-> {"READ", "WRITE"}, users |-> 0]
       \/ f[tty].open /\ f[file].disk = <<97>> /\ faults = MaxFaults
          /\ env = [access |-> {"READ"}, users |-> 0]
       \/ f[tty].open /\ f[file].disk = <<>> /\ faults = 0
          /\ env = [access |-> {}, users |-> NEXITS]

MCSpec == MCInit /\ [][Next]_vars
=============================================================================
