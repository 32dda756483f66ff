----------------------------- MODULE MCStorage -----------------------------
(* Storage with a heap of a few units and lists for a few small sizes.     *)
EXTENDS Storage

(* What programs write besides the zeroes that memory holds at first: a    *)
(* number that, taken for a BSIZE, leads round the address space, to a     *)
(* block before or, from the second unit, below the heap.                  *)
MCRoundAbout == {[next |-> 0, size |-> Space - 3]}
MCCleared == {[next |-> 0, size |-> 0]}
=============================================================================
