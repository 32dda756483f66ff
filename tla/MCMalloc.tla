------------------------------ MODULE MCMalloc ------------------------------
(* Malloc with a heap of a few units of two bytes. *)
EXTENDS Malloc
=============================================================================
