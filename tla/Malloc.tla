------------------------------- MODULE Malloc -------------------------------
(***************************************************************************)
(* lang/cem/libcc.ansi/sys/malloc: malloc, free, calloc and realloc.       *)
(*                                                                         *)
(* The free blocks form a ring in the order of their addresses, which      *)
(* starts at the static block __mem_root.  malloc searches the ring from   *)
(* wherever __mem_freelist points, takes a block or the end of a larger    *)
(* one, and gets more memory when it has been all around.  free looks up   *)
(* the place of a block in the ring and joins it with its neighbours.      *)
(*                                                                         *)
(* Addresses and the sizes of blocks count units of sizeof(block_t), the   *)
(* header included; requests count bytes.  The static block is below the   *)
(* heap, at 0.  What programs write in their blocks is not modelled, and   *)
(* they only free what they have.  The next field of a block in use, and   *)
(* what is left of a header inside a block, are never read: the model      *)
(* clears them.                                                            *)
(***************************************************************************)
EXTENDS Integers, FiniteSets

CONSTANTS Top,        \* the last unit sbrk can give
          UnitSize,   \* sizeof(block_t)
          BRKSIZE,    \* the least number of units to ask from sbrk
          SIZE_MAX,   \* of size_t
          INTPTR_MAX, \* the largest increment of sbrk
          Size        \* the sizes programs ask for

Root == 0
NULL == -1
Heap == 1..Top
Block == Heap \cup {Root}

ASSUME MallocAssumption ==
    /\ Top \in Nat /\ UnitSize \in Nat \ {0} /\ BRKSIZE \in Nat \ {0}
    /\ SIZE_MAX \in Nat /\ INTPTR_MAX \in 0..SIZE_MAX
    /\ 2 * UnitSize <= SIZE_MAX
    /\ Size \subseteq 0..SIZE_MAX

VARIABLES next, size,  \* the headers
          freelist,    \* __mem_freelist
          brk,         \* the next unit sbrk gives
          heap,        \* history: the units malloc got from sbrk
          used,        \* the blocks programs have
          mode,        \* "user", "search" (malloc), "insert" (free), "overrun"
          prev, p,     \* the locals of the loop of malloc, and p of free
          want,        \* nblocks
          h,           \* the block that free inserts in the ring
          caller,      \* who called free: "user" or "brkmore"
          old,         \* the block a realloc copies from, NULL in other calls
          refused      \* what the last call of malloc returned NULL for, or 0

vars == <<next, size, freelist, brk, heap, used, mode, prev, p, want, h, caller, old, refused>>
locals == <<prev, p, want, h, caller, old>>

TypeOK ==
    /\ next \in [Block -> Block]
    /\ size \in [Block -> Nat]
    /\ freelist \in Block
    /\ brk \in 1..Top + 1
    /\ heap \subseteq 1..brk - 1
    /\ used \subseteq Heap
    /\ mode \in {"user", "search", "insert", "overrun"}
    /\ prev \in Block /\ p \in Block /\ h \in Block
    /\ want \in Nat
    /\ caller \in {"user", "brkmore"}
    /\ old \in Heap \cup {NULL}
    /\ refused \in Nat

Init ==
    /\ next = [b \in Block |-> Root]
    /\ size = [b \in Block |-> 0]
    /\ freelist = Root
    /\ brk = 1
    /\ heap = {}
    /\ used = {}
    /\ mode = "user"
    /\ prev = Root /\ p = Root /\ h = Root
    /\ want = 0
    /\ caller = "user"
    /\ old = NULL
    /\ refused = 0
-----------------------------------------------------------------------------
(* BLOCKCOUNT, a number of bytes, in the arithmetic of size_t. *)
BLOCKCOUNT(bytes) == (bytes + UnitSize + UnitSize - 1) % (SIZE_MAX + 1)
Overflows(bytes) == BLOCKCOUNT(bytes) < bytes
NBlocks(bytes) == BLOCKCOUNT(bytes) \div UnitSize

(* The locals die with the call. *)
Return ==
    /\ mode' = "user"
    /\ prev' = Root /\ p' = Root /\ h' = Root
    /\ want' = 0
    /\ caller' = "user"
    /\ old' = NULL

(* malloc up to its loop, for a realloc of block o or not. *)
EnterMalloc(bytes, o) ==
    IF Overflows(bytes)
    THEN /\ refused' = 0
         /\ UNCHANGED <<next, size, freelist, brk, heap, used, mode, locals>>
    ELSE /\ mode' = "search"
         /\ want' = NBlocks(bytes)
         /\ prev' = freelist
         /\ p' = next[freelist]
         /\ old' = o
         /\ refused' = 0
         /\ UNCHANGED <<next, size, freelist, brk, heap, used, h, caller>>

malloc(bytes) == mode = "user" /\ EnterMalloc(bytes, NULL)

calloc(nmemb, bytes) ==
    /\ mode = "user"
    /\ nmemb # 0 /\ bytes # 0 /\ nmemb <= SIZE_MAX \div bytes
    /\ EnterMalloc(nmemb * bytes, NULL)

(* free up to its loop. *)
EnterFree(b, who) ==
    /\ mode' = "insert"
    /\ h' = b
    /\ caller' = who

free(b) ==
    /\ mode = "user"
    /\ b \in used
    /\ used' = used \ {b}
    /\ EnterFree(b, "user")
    /\ p' = freelist
    /\ refused' = 0
    /\ UNCHANGED <<next, size, freelist, brk, heap, prev, want, old>>

(* The units of the block are compared with a number of bytes. *)
StaysInPlace(b, bytes) == BLOCKCOUNT(bytes) <= size[b]

realloc(b, bytes) ==
    /\ mode = "user"
    /\ b \in used
    /\ bytes # 0                \* otherwise it is free(b)
    /\ ~StaysInPlace(b, bytes)
    /\ EnterMalloc(bytes, b)
-----------------------------------------------------------------------------
(* malloc found b.  A realloc copies as many units as the old block has,   *)
(* behind the header of the new one, and frees the old block.              *)
Found(b) ==
    IF old = NULL THEN used' = used \cup {b} /\ Return
    ELSE IF size[old] > size'[b] - 1
    THEN /\ mode' = "overrun"
         /\ used' = used \cup {b}
         /\ UNCHANGED locals
    ELSE /\ used' = (used \cup {b}) \ {old}
         /\ EnterFree(old, "user")
         /\ p' = freelist'
         /\ UNCHANGED <<prev, want, old>>

ExactSize(b) ==
    /\ size[b] = want
    /\ next' = [next EXCEPT ![b] = Root, ![prev] = next[b]]
    /\ freelist' = prev
    /\ UNCHANGED size
    /\ Found(b)

SplitKeepsSize(b) == size' = [size EXCEPT ![b + size[b] - want] = want]
Split(b) == size' = [size EXCEPT ![b] = size[b] - want, ![b + size[b] - want] = want]

LargerSize(b) ==
    /\ size[b] > want
    /\ Split(b)
    /\ freelist' = prev
    /\ UNCHANGED next
    /\ Found(b + size[b] - want)

(* brkmore pretends that the new memory is a used block, and frees it. *)
AroundEarly(b) == next[b] = freelist
Around(b) == b = freelist

Units(n) == IF n < BRKSIZE THEN BRKSIZE ELSE n
SbrkFits(n) == n * UnitSize <= INTPTR_MAX /\ brk + n - 1 <= Top

brkmore ==
    LET nb == Units(want)
    IN  /\ Around(p)
        /\ IF SbrkFits(nb)
           THEN /\ size' = [size EXCEPT ![brk] = nb]
                /\ brk' = brk + nb
                /\ heap' = heap \cup (brk..brk + nb - 1)
                /\ EnterFree(brk, "brkmore")
                /\ p' = freelist
                /\ UNCHANGED <<prev, want, old, refused>>
           ELSE /\ refused' = want
                /\ Return
                /\ UNCHANGED <<size, brk, heap>>
        /\ UNCHANGED <<next, freelist, used>>

(* One turn of the loop of malloc. *)
Search ==
    /\ mode = "search"
    /\ \/ (ExactSize(p) \/ LargerSize(p)) /\ UNCHANGED <<brk, heap, refused>>
       \/ size[p] < want /\ brkmore
       \/ /\ size[p] < want /\ ~Around(p)
          /\ prev' = p
          /\ p' = next[p]
          /\ UNCHANGED <<next, size, freelist, brk, heap, used, mode, want, h, caller, old, refused>>
-----------------------------------------------------------------------------
(* The place of h in the ring is behind b. *)
PlacedNoWrap(b) == b < h /\ h < next[b]
Placed(b) == \/ b < h /\ h < next[b]
             \/ b >= next[b] /\ (b < h \/ h < next[b])

(* The ring with h behind b, and the two joins: of h with the block behind *)
(* it, and of b with h.                                                    *)
JoinsNextNever(b) == FALSE
JoinsNext(b) == h + size[h] = next[b]
JoinsPrev(b) == b + size[b] = h

Linked(b) ==
    LET n == next[b]
        hnext == IF JoinsNext(b) THEN next[n] ELSE n
    IN  [c \in Block |-> CASE c = b -> IF JoinsPrev(b) THEN hnext ELSE h
                           [] c = h -> IF JoinsPrev(b) THEN Root ELSE hnext
                           [] c = n /\ JoinsNext(b) -> Root
                           [] OTHER -> next[c]]

Joined(b) ==
    LET n == next[b]
        hsize == IF JoinsNext(b) THEN size[h] + size[n] ELSE size[h]
    IN  [c \in Block |-> CASE c = b -> IF JoinsPrev(b) THEN size[b] + hsize ELSE size[b]
                           [] c = h -> IF JoinsPrev(b) THEN 0 ELSE hsize
                           [] c = n /\ JoinsNext(b) -> 0
                           [] OTHER -> size[c]]

Insert ==
    /\ mode = "insert"
    /\ Placed(p)
    /\ next' = Linked(p)
    /\ size' = Joined(p)
    /\ freelist' = p
    /\ IF caller = "user" THEN Return
       ELSE /\ mode' = "search"      \* back in malloc, with p = __mem_freelist
            /\ prev' = p
            /\ p' = next'[p]
            /\ h' = Root
            /\ caller' = "user"
            /\ UNCHANGED <<want, old>>
    /\ UNCHANGED <<brk, heap, used, refused>>

InsertNext ==
    /\ mode = "insert"
    /\ ~Placed(p)
    /\ p' = next[p]
    /\ UNCHANGED <<next, size, freelist, brk, heap, used, mode, prev, want, h, caller, old, refused>>

(* Others, the program or another library, may call sbrk between calls. *)
OtherSbrk ==
    /\ mode = "user"
    /\ brk <= Top
    /\ brk' = brk + 1
    /\ UNCHANGED <<next, size, freelist, heap, used, mode, locals, refused>>

Next ==
    \/ \E s \in Size : malloc(s) \/ \E n \in Size : calloc(n, s)
    \/ \E b \in Heap : free(b) \/ \E s \in Size : realloc(b, s)
    \/ Search \/ Insert \/ InsertNext
    \/ OtherSbrk

Spec == Init /\ [][Next]_vars

(* A call that is not over goes on. *)
FairSpec == Spec /\ WF_vars(Search \/ Insert \/ InsertNext)
-----------------------------------------------------------------------------
(* The blocks some link leads to.  Links that are not in use are Root, so  *)
(* these are the blocks of the ring, if the links make a ring at all: that *)
(* they lead from Root upwards to every one of them is RingInOrder.        *)
Ring == {next[b] : b \in Block}

UnitsOf(b) == b..b + size[b] - 1

(* free keeps the ring in the order of the addresses and joins all free    *)
(* blocks that touch, whatever __mem_freelist pointed to when it started,  *)
(* and __mem_freelist always points into the ring.  (The types of the      *)
(* variables are part of it.)                                              *)
RingInOrder ==
    TypeOK /\ (mode # "overrun" =>
      /\ freelist \in Ring
      /\ \A b \in Ring :
            LET above == {c \in Ring : c > b}
            IN  /\ above = {} => next[b] = Root
                /\ above # {} => next[b] \in above /\ \A c \in above : next[b] <= c
      /\ \A b \in Ring \ {Root} : next[b] # Root => b + size[b] < next[b])

(* Every unit that sbrk gave to malloc is in exactly one block, free, in   *)
(* use or on its way between the two; no block has other units.            *)
BlocksTileHeap ==
    mode # "overrun" =>
      LET blocks == (Ring \ {Root}) \cup used \cup {b \in {h} : mode = "insert"}
      IN  /\ \A b \in blocks : size[b] > 0 /\ UnitsOf(b) \subseteq heap
          /\ \A u \in heap : Cardinality({b \in blocks : u \in UnitsOf(b)}) = 1

(* malloc returns NULL for want of memory only when no free block is large *)
(* enough, wherever in the ring the search began.                          *)
RefusesOnlyInNeed == refused # 0 => \A b \in Ring : size[b] < refused

(* The searches of malloc and free end, although both go around a ring and *)
(* malloc changes it, through brkmore, while it searches.                  *)
SearchEnds == mode \in {"search", "insert"} ~> mode \notin {"search", "insert"}
=============================================================================
