----------------------------- MODULE Coroutines -----------------------------
(***************************************************************************)
(* The coroutine layer of the Modula-2 run-time system:                    *)
(* lang/m2/libm2/SYSTEM.c, procedures NEWPROCESS and TRANSFER.             *)
(*                                                                         *)
(* A coroutine is known by the area in which its stack is saved while it   *)
(* does not run (the struct proc at the start of the workspace).  Only one *)
(* coroutine runs at a time.  The three schedulers of the library          *)
(* (Semaphores, Processes and CSP) extend this module; each keeps in its   *)
(* process descriptors the pointer to the area that TRANSFER stores there. *)
(***************************************************************************)
EXTENDS Naturals

CONSTANTS Area,      \* the areas a program ever passes to NEWPROCESS, and mainproc
          MainArea,  \* the static area mainproc of the main routine
          NIL        \* the null pointer

ASSUME CoroutineAssumption ==
    /\ MainArea \in Area
    /\ NIL \notin Area

VARIABLES curproc,   \* the running coroutine; NIL until the first TRANSFER
          saved      \* the areas that hold a stack topload can restore

coroutineVars == <<curproc, saved>>

CoroutineTypeOK ==
    /\ curproc \in Area \cup {NIL}
    /\ saved \subseteq Area

CoroutineInit ==
    /\ curproc = NIL
    /\ saved = {}

(***************************************************************************)
(* NEWPROCESS with area a, when the frame of NEWPROCESS fits in a: topsave *)
(* copies it to a.  The caller stores a in its descriptor (p1 := a).        *)
(***************************************************************************)
NEWPROCESS(saved0, a) == saved0 \cup {a}

(***************************************************************************)
(* The coroutine TRANSFER considers to be running.                         *)
(***************************************************************************)
Running == IF curproc = NIL THEN MainArea ELSE curproc

(***************************************************************************)
(* TRANSFER(from, to), seen from its caller.  The first parameter of the   *)
(* code is an output: it receives Running.  A transfer to the running      *)
(* coroutine returns at once; otherwise the stack is saved and the target  *)
(* loaded, after which its area holds no stack that may be loaded again.   *)
(***************************************************************************)
TRANSFERUnsaved(saved0, to) ==
    /\ curproc' = to
    /\ saved' = saved0 \ {to}

TRANSFER(saved0, to) ==
    /\ curproc' = to
    /\ saved' = IF to = Running THEN saved0
                ELSE (saved0 \cup {Running}) \ {to}

(***************************************************************************)
(* TRANSFER when the stack of the running coroutine has outgrown its area: *)
(* trap M2_TOOLARGE, before anything is saved.                             *)
(***************************************************************************)
TRANSFERTooLarge(saved0) ==
    /\ curproc' = Running
    /\ saved' = saved0

(***************************************************************************)
(* What topload needs: the target is the running coroutine, or its area    *)
(* holds a saved stack.                                                    *)
(***************************************************************************)
CanTransfer(saved0, to) == to = Running \/ to \in saved0
=============================================================================
