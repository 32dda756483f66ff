------------------------------ MODULE Storage ------------------------------
(***************************************************************************)
(* lang/m2/libm2/Storage.mod: dynamic storage allocation.                  *)
(*                                                                         *)
(* The heap grows by sbrk and is cut in blocks, each one unit of header    *)
(* and some units for the user.  A block that is free has its size in      *)
(* units in its header and is in the list of blocks of that size, or in    *)
(* Llist when it is large; a block in use has the mark USED and its size   *)
(* in bytes.  When sbrk fails, ReOrganize merges free blocks and collects  *)
(* them in the lists again, and the request is tried once more.            *)
(*                                                                         *)
(* Addresses count units, the first block is at 1 and NIL is 0.  A unit    *)
(* has two words, the fields BNEXT and BSIZE of a header, and sizes count  *)
(* words where the code counts bytes.  Addresses and CARDINALs have the    *)
(* same number of values, and their arithmetic is modulo that number:      *)
(* range checks are off.  User data are in the same memory, and what is    *)
(* left of them is what ReOrganize finds there.                            *)
(***************************************************************************)
EXTENDS Integers, Sequences, FiniteSets

CONSTANTS NLISTS,   \* the largest size, in units, that has a list of its own
          Top,      \* the last unit sbrk can add to the heap
          Size,     \* the sizes a program asks for
          MaxSize,  \* the largest size MyAllocate accepts
          MaxCard,  \* MAX(CARDINAL), and the last address in words
          USED,     \* the mark MAGICW
          MAGICC,   \* the character behind an area that does not fill its units
          Datum     \* what programs write in the units of their areas

UNIT == 2
NIL == 0
FirstBlock == 1
None == -1
Addr == FirstBlock..Top
Word == 0..MaxCard
Unit == [next : Word, size : Word]

(* The units of the address space: an address is a number modulo Space. *)
Space == (MaxCard + 1) \div UNIT

ASSUME StorageAssumption ==
    /\ NLISTS \in Nat \ {0} /\ Top \in Nat
    /\ Size \subseteq Nat
    /\ MaxSize \in Nat /\ MaxCard \in Nat /\ Top < Space
    /\ USED \in Word \ (Addr \cup {NIL}) /\ MAGICC \in Word \ {NIL, USED}
    /\ Datum \subseteq {d \in Unit : d.next # USED}

VARIABLES heap,      \* the memory, FreeLists, Llist and the end of the heap
          area,      \* the size of the area the program has at an address, or None
          data,      \* what the program wrote in that area: {} or one datum
          promise,   \* the size of the last call, an Available that was TRUE; or None
          mode,      \* "run", in ReOrganize "merge" or "collect", "killed", "astray"
          request,   \* the call that is in ReOrganize: its name and its size
          b,         \* the block ReOrganize is at
          lastblock, \* of ReOrganize
          lost,      \* history: the units that no header accounts for
          merged     \* history: ReOrganize was called

vars == <<heap, area, data, promise, mode, request, b, lastblock, lost, merged>>

Calls == {"Allocate", "Available"}

TypeOK ==
    /\ heap \in [mem : [Addr -> Unit], FreeLists : [0..NLISTS -> Addr \cup {NIL}],
                 Llist : Addr \cup {NIL}, brk : FirstBlock..Top + 1]
    /\ area \in [Addr -> Size \cup {None}]
    /\ data \in [Addr -> SUBSET Datum]
    /\ promise \in Size \cup {None}
    /\ mode \in {"run", "merge", "collect", "killed", "astray"}
    /\ request \in [call : Calls, size : Size \cup {None}]
    /\ b \in 0..Space - 1
    /\ lastblock \in Addr \cup {NIL}
    /\ lost \subseteq Addr
    /\ merged \in BOOLEAN

Init ==
    /\ heap = [mem |-> [u \in Addr |-> [next |-> NIL, size |-> 0]],
               FreeLists |-> [i \in 0..NLISTS |-> NIL],
               Llist |-> NIL, brk |-> FirstBlock]
    /\ area = [u \in Addr |-> None]
    /\ data = [u \in Addr |-> {}]
    /\ promise = None
    /\ mode = "run"
    /\ request = [call |-> "Allocate", size |-> None]
    /\ b = FirstBlock
    /\ lastblock = NIL
    /\ lost = {}
    /\ merged = FALSE
-----------------------------------------------------------------------------
UnitsOf(size) == ((size + UNIT - 1) % (MaxCard + 1)) \div UNIT

(* The units MyAllocate needs for a request: nu. *)
NeededRoundsDown(size) == IF size < UNIT THEN 1 ELSE size \div UNIT
Needed(size) == IF UnitsOf(size) = 0 THEN 1 ELSE UnitsOf(size)

(* The blocks of a list, from p on. *)
Blocks(h, p) ==
    LET from[n \in 0..Top, q \in Addr \cup {NIL}] ==
            IF n = 0 \/ q = NIL THEN <<>> ELSE <<q>> \o from[n - 1, h.mem[q].next]
    IN  from[Top, p]

(* A free block p of n units enters the list for its size. *)
EnterListUnlinked(h, p, n) ==
    IF n <= NLISTS
    THEN [h EXCEPT !.mem[p].size = n, !.FreeLists[n] = p]
    ELSE [h EXCEPT !.mem[p].size = n, !.Llist = p]

EnterList(h, p, n) ==
    IF n <= NLISTS
    THEN [h EXCEPT !.mem[p] = [next |-> h.FreeLists[n], size |-> n], !.FreeLists[n] = p]
    ELSE [h EXCEPT !.mem[p] = [next |-> h.Llist, size |-> n], !.Llist = p]

(* What every way out of MyAllocate does with the block p of n units: the  *)
(* mark, the character behind the area, and the size in the header.  With  *)
(* it goes, as history, what the size in the header no longer tells: a     *)
(* unit is lost when the size is 0, and when Llist has no better block     *)
(* than one of nu + 1 units.                                               *)
Give(h, p, n, size) ==
    LET end == p + 1 + size \div UNIT
        m1 == IF n * UNIT = size THEN h.mem
              ELSE IF size % UNIT = 0 THEN [h.mem EXCEPT ![end].next = MAGICC]
              ELSE [h.mem EXCEPT ![end].size = MAGICC]
    IN  [p |-> p, h |-> [h EXCEPT !.mem = [m1 EXCEPT ![p] = [next |-> USED, size |-> size]]],
         lost |-> p + UnitsOf(size) + 1..p + n]

Failed(h) == [p |-> NIL, h |-> h, lost |-> {}]

(* A block of exactly nu units. *)
ExactFit(h, nu, size) ==
    LET p == h.FreeLists[nu]
    IN  Give([h EXCEPT !.FreeLists[nu] = h.mem[p].next], p, nu, size)

(* The larger blocks with a list that leave a block when they are split,   *)
(* and what is left of n units: the tail needs a header of its own.        *)
LargerLists(h, nu) == {i \in nu + 2..NLISTS : h.FreeLists[i] # NIL}

RemainderNoHeader(n, nu) == n - nu
Remainder(n, nu) == n - nu - 1

SplitSmall(h, nu, size) ==
    LET i == CHOOSE i \in LargerLists(h, nu) : \A j \in LargerLists(h, nu) : i <= j
        q == h.FreeLists[i]
        h1 == [h EXCEPT !.FreeLists[i] = h.mem[q].next]
    IN  Give(EnterList(h1, q + nu + 1, Remainder(h.mem[q].size, nu)), q, nu, size)

(* Llist, first fit: position k in the list.  A block that is not much     *)
(* too large leaves the list, and is split when that leaves a block; of a  *)
(* block that is much too large the tail is given.                         *)
Fitting(h, nu) ==
    LET list == Blocks(h, h.Llist) IN {k \in 1..Len(list) : h.mem[list[k]].size >= nu}

FirstFit(h, nu) == CHOOSE k \in Fitting(h, nu) : \A j \in Fitting(h, nu) : k <= j

FromLlist(h, nu, size) ==
    LET list == Blocks(h, h.Llist)
        k == FirstFit(h, nu)
        p == list[k]
        n == h.mem[p].size
        h1 == IF k = 1 THEN [h EXCEPT !.Llist = h.mem[p].next]
              ELSE [h EXCEPT !.mem[list[k - 1]].next = h.mem[p].next]
    IN  IF n > nu + NLISTS + 1
        THEN Give([h EXCEPT !.mem[p].size = Remainder(n, nu)], p + n - nu, nu, size)
        ELSE IF n > nu + 1
        THEN Give(EnterList(h1, p + nu + 1, Remainder(n, nu)), p, nu, size)
        ELSE Give(h1, p, n, size)

(* MyAllocate up to its call of sbrk. *)
FromLists(h, size) ==
    LET nu == Needed(size)
    IN  IF size > MaxSize THEN Failed(h)
        ELSE IF nu <= NLISTS /\ h.FreeLists[nu] # NIL THEN ExactFit(h, nu, size)
        ELSE IF LargerLists(h, nu) # {} THEN SplitSmall(h, nu, size)
        ELSE IF Fitting(h, nu) # {} THEN FromLlist(h, nu, size)
        ELSE Failed(h)

(* sbrk succeeds when the units are there. *)
SbrkFits(h, size) == size <= MaxSize /\ h.brk + Needed(size) <= Top

FromSbrk(h, size) ==
    Give([h EXCEPT !.brk = @ + Needed(size) + 1], h.brk, Needed(size), size)

(* Deallocate of the area of block p that is in use. *)
FreedRoundsDown(h, p, size) == EnterList(h, p, size \div UNIT)
Freed(h, p, size) == EnterList(h, p, UnitsOf(size))
-----------------------------------------------------------------------------
(* The call is over: r is what MyAllocate came to.  Available gives the    *)
(* area back at once.                                                      *)
AllocateDone(size, r) ==
    /\ heap' = r.h
    /\ promise' = None
    /\ IF r.p = NIL
       THEN mode' = "killed" /\ UNCHANGED <<area, data>>
       ELSE /\ mode' = "run"
            /\ area' = [area EXCEPT ![r.p] = size]
            /\ data' = [data EXCEPT ![r.p] = {}]

AvailableDone(size, r) ==
    /\ heap' = IF r.p = NIL THEN r.h ELSE Freed(r.h, r.p, size)
    /\ promise' = IF r.p = NIL THEN None ELSE size
    /\ mode' = "run"
    /\ UNCHANGED <<area, data>>

Done(call, size, r) ==
    /\ IF call = "Allocate" THEN AllocateDone(size, r) ELSE AvailableDone(size, r)
    /\ lost' = lost \cup r.lost

(* Allocate, which is also ALLOCATE, and Available, when the lists or sbrk *)
(* have the memory, or the size is too large.                              *)
MyAllocate(call, size) ==
    LET r == FromLists(heap, size)
    IN  /\ mode = "run"
        /\ r.p = NIL => (SbrkFits(heap, size) \/ size > MaxSize)
        /\ Done(call, size, IF r.p = NIL /\ size <= MaxSize THEN FromSbrk(heap, size) ELSE r)
        /\ UNCHANGED <<request, b, lastblock, merged>>

(* The program writes d in all of the area at p. *)
Write(p, d) ==
    /\ mode = "run"
    /\ area[p] # None
    /\ heap' = [heap EXCEPT !.mem = [u \in Addr |->
                  [next |-> IF u \in p + 1..p + UnitsOf(area[p]) THEN d.next ELSE @[u].next,
                   size |-> IF u \in p + 1..p + area[p] \div UNIT THEN d.size ELSE @[u].size]]]
    /\ data' = [data EXCEPT ![p] = {d}]
    /\ UNCHANGED <<area, promise, mode, request, b, lastblock, lost, merged>>

(* Deallocate, which is also DEALLOCATE, with the size of the area. *)
Deallocate(p) ==
    /\ mode = "run"
    /\ area[p] # None
    /\ heap' = IF heap.mem[p].next # USED THEN heap    \* a warning
               ELSE Freed(heap, p, area[p])
    /\ area' = [area EXCEPT ![p] = None]
    /\ data' = [data EXCEPT ![p] = {}]
    /\ promise' = None
    /\ UNCHANGED <<mode, request, b, lastblock, lost, merged>>
-----------------------------------------------------------------------------
(* ReOrganize.  First all blocks in the lists, except those of no units,   *)
(* get NIL as the mark that they are free.                                 *)
Listed(h, i) == LET s == Blocks(h, h.FreeLists[i]) IN {s[k] : k \in 1..Len(s)}
ListedLarge(h) == LET s == Blocks(h, h.Llist) IN {s[k] : k \in 1..Len(s)}
MarkedFree(h) == UNION {Listed(h, i) : i \in 1..NLISTS} \cup ListedLarge(h)

ReOrganize(call, size) ==
    LET free == MarkedFree(heap)
    IN  /\ mode = "run"
        /\ size <= MaxSize
        /\ FromLists(heap, size).p = NIL /\ ~SbrkFits(heap, size)
        /\ heap' = [heap EXCEPT !.mem = [u \in Addr |->
                      IF u \in free THEN [@[u] EXCEPT !.next = NIL] ELSE @[u]]]
        /\ lastblock' = IF free = {} THEN NIL
                        ELSE CHOOSE u \in free : \A v \in free : v <= u
        /\ b' = FirstBlock
        /\ mode' = "merge"
        /\ request' = [call |-> call, size |-> size]
        /\ promise' = None
        /\ merged' = TRUE
        /\ UNCHANGED <<area, data, lost>>

(* The address n units behind the header of p. *)
Past(p, n) == (p + n + 1) % Space

(* The block behind b when BSIZE is a number of units, as it is when b is  *)
(* free.                                                                   *)
BehindWithoutHeader(p) == (p + heap.mem[p].size) % Space
Behind(p) == Past(p, heap.mem[p].size)

MayMerge(p, be) ==
    /\ heap.mem[p].next = NIL
    /\ be <= lastblock
    /\ heap.mem[be].next = NIL
    /\ MaxCard - heap.mem[p].size > heap.mem[be].size

(* The walk goes to be; an address below the first block is not of this    *)
(* module's memory, and the model ends where the walk reads there.         *)
GoTo(be) ==
    /\ b' = be
    /\ IF be < FirstBlock THEN mode' = "astray" ELSE UNCHANGED mode

MergeBlock ==
    LET be == Behind(b)
    IN  /\ mode = "merge"
        /\ b < lastblock
        /\ IF be >= FirstBlock /\ MayMerge(b, be)
           THEN /\ heap' = [heap EXCEPT !.mem[b].size = @ + heap.mem[be].size + 1]
                /\ UNCHANGED <<b, mode>>
           ELSE GoTo(be) /\ UNCHANGED heap
        /\ UNCHANGED <<area, data, promise, request, lastblock, lost, merged>>

ClearLists ==
    /\ mode = "merge"
    /\ b >= lastblock
    /\ heap' = [heap EXCEPT !.FreeLists = [i \in 0..NLISTS |-> IF i = 0 THEN @[0] ELSE NIL],
                            !.Llist = NIL]
    /\ b' = FirstBlock
    /\ mode' = "collect"
    /\ UNCHANGED <<area, data, promise, request, lastblock, lost, merged>>

CollectBlock ==
    LET n == heap.mem[b].size
    IN  /\ mode = "collect"
        /\ b <= lastblock
        /\ IF heap.mem[b].next = NIL
           THEN heap' = EnterList(heap, b, n) /\ GoTo(Past(b, n))
           ELSE GoTo(Past(b, UnitsOf(n))) /\ UNCHANGED heap
        /\ UNCHANGED <<area, data, promise, request, lastblock, lost, merged>>

(* The end of ReOrganize, and MyAllocate once more, which does not call    *)
(* sbrk again.  When units are lost the walk took memory that is not a     *)
(* header for one: what follows depends on what was left there, and the    *)
(* model ends.                                                             *)
Retry ==
    /\ mode = "collect"
    /\ b > lastblock
    /\ IF lost # {}
       THEN mode' = "astray" /\ UNCHANGED <<heap, area, data, promise, lost>>
       ELSE Done(request.call, request.size, FromLists(heap, request.size))
    /\ request' = [call |-> "Allocate", size |-> None]
    /\ b' = FirstBlock
    /\ lastblock' = NIL
    /\ UNCHANGED merged
-----------------------------------------------------------------------------
Steps == MergeBlock \/ ClearLists \/ CollectBlock \/ Retry

Next ==
    \/ \E call \in Calls, size \in Size : MyAllocate(call, size) \/ ReOrganize(call, size)
    \/ \E p \in Addr : Deallocate(p) \/ \E d \in Datum : Write(p, d)
    \/ Steps

Spec == Init /\ [][Next]_vars

(* A call that is in ReOrganize goes on: there is no other thread. *)
FairSpec == Spec /\ WF_vars(Steps)
-----------------------------------------------------------------------------
Used == {p \in Addr : area[p] # None}

(* Blocks as pairs of address and size in units, in use and in the lists. *)
UsedBlocks == {<<p, UnitsOf(area[p])>> : p \in Used}
FreeBlocks ==
    {<<p, heap.mem[p].size>> : p \in Listed(heap, 0) \cup MarkedFree(heap)}
Cover(block) == block[1]..block[1] + block[2]

(* The blocks in use and the blocks in the lists divide the heap: no two   *)
(* overlap, and nothing is forgotten but the units known to be lost.  A    *)
(* free block is in the list of its size, once, and the header of a block  *)
(* in use has its mark and its size.  (The types of the variables are part *)
(* of it.)                                                                 *)
BlocksTileHeap ==
    TypeOK /\ (mode = "run" =>
      /\ \A block \in UsedBlocks \cup FreeBlocks : Cover(block) \subseteq 1..heap.brk - 1
      /\ \A u \in 1..heap.brk - 1 :
            Cardinality({block \in UsedBlocks \cup FreeBlocks : u \in Cover(block)})
              = IF u \in lost THEN 0 ELSE 1
      /\ \A i \in 0..NLISTS : \A p \in Listed(heap, i) : heap.mem[p].size = i
      /\ \A p \in ListedLarge(heap) : heap.mem[p].size > NLISTS
      /\ \A p \in Used : heap.mem[p] = [next |-> USED, size |-> area[p]])

(* Deallocate tells an area that was deallocated before: outside the areas *)
(* in use no address has the mark USED before it.                          *)
StaleAreaKnown ==
    mode = "run" =>
      \A u \in Addr : heap.mem[u].next = USED =>
          \E p \in Used : u \in p..p + UnitsOf(area[p])

(* An area holds what the program wrote there last, whatever other calls   *)
(* and writes came since, as long as ReOrganize was not needed.            *)
HoldsData(p) ==
    \A d \in data[p], u \in Addr \cap (p + 1..p + UnitsOf(area[p])) :
        /\ heap.mem[u].next = d.next
        /\ u <= p + area[p] \div UNIT => heap.mem[u].size = d.size

DataKeptByCalls == ~merged => \A p \in Used : HoldsData(p)

(* After an Available that was TRUE an ALLOCATE of that size succeeds, for *)
(* areas that are not empty: an Available(0) gives the unit it took to     *)
(* FreeLists[0], from which no request is served.                          *)
Succeeds(size) == FromLists(heap, size).p # NIL \/ SbrkFits(heap, size)
AvailableHolds == promise > 0 => Succeeds(promise)

(* The walk of ReOrganize is at a unit whose BSIZE leads round the address *)
(* space.  No header has such a size, but a word of the program may be one *)
(* when it is taken for a header.                                          *)
LeadsRound ==
    /\ mode \in {"merge", "collect"}
    /\ b \in Addr /\ b <= lastblock
    /\ b + heap.mem[b].size + 1 >= Space

(* ReOrganize comes to an end, whatever it finds in the memory, as long as *)
(* no word it takes for a BSIZE leads round the address space.  When one   *)
(* does, the walk may come back to where it was (lines 286 and 308), and   *)
(* nothing ends it.                                                        *)
ReOrganizeEnds == mode = "merge" ~> (mode \notin {"merge", "collect"} \/ LeadsRound)
=============================================================================
