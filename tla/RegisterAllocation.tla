------------------------- MODULE RegisterAllocation -------------------------
(***************************************************************************)
(* The register allocation phase of the EM global optimizer, util/ego/ra:  *)
(* lifetimes from the live and dead messages (ra_lifet.c), the list of     *)
(* possible allocations (ra_allocl.c), the packing of allocations into     *)
(* registers (ra_pack.c) and the new text (ra_xform.c).                    *)
(*                                                                         *)
(* The text is that of LiveVariables, with its messages; the time is the   *)
(* number of a line in the whole text.  The items are the local variables; *)
(* registers are of one type.  An allocation is a record of its item, its  *)
(* timespan, the blocks where the register is initialised, and whole, which*)
(* says whether it is for the whole procedure; it is known by its al_id.   *)
(***************************************************************************)
EXTENDS LiveVariables, Intervals

(* make_instrmap() *)
B_BEGIN(text, b) == FoldLeft(LAMBDA n, code : n + Len(code), 0, SubSeq(text, 1, b - 1))
B_END(text, b) == B_BEGIN(text, b) + Len(text[b]) - 1
instrmap(text) == FlattenSeq(text)

is_item(l) == l.op \in {"lol", "stl", "zrl", "inl"}
Items(text) == {l.v : l \in {l \in ToSet(instrmap(text)) : is_item(l)}}

(* it_usage: the blocks of all uses, the last use in the text first. *)
it_usage(text, item) ==
    Reverse(FlattenSeq([b \in DOMAIN text |->
        LET uses == SelectSeq(text[b], LAMBDA l : is_item(l) /\ l.v = item)
        IN  [i \in DOMAIN uses |-> b]]))

---------------------------------------------------------------------------
(* Lifetimes *)

Lifetime(text, item, s, i) ==
    LET l == instrmap(text)[i]
        mes == l.op \in {"live", "dead"}
    IN  CASE l.op = "live" /\ l.v = item -> [s EXCEPT !.lastlive = s.last_code + 1]
          [] l.op = "dead" /\ l.v = item ->
               [s EXCEPT !.lives = add_interval(s.lastlive, s.last_code, @)]
          [] ~mes -> [s EXCEPT !.last_code = i - 1]
          [] OTHER -> s

it_lives(text, item) ==
    FoldLeft(LAMBDA s, i : Lifetime(text, item, s, i),
             [lastlive |-> 0, last_code |-> 0, lives |-> <<>>],
             [i \in DOMAIN instrmap(text) |-> i]).lives

build_lifetimes(text) == [item \in Items(text) |-> it_lives(text, item)]

---------------------------------------------------------------------------
(* Allocations.  c is what is known of the procedure: the text, succ, pred, *)
(* idom and loops of cf, the lives of the items, and the parameters.        *)

LiveAtBegin(c, item, b) == contains(B_BEGIN(c.text, b), c.lives[item])

(* header(): the block before the entry of the loop, if there is one. *)
LP_HEADER(c, lp) ==
    LET d == c.idom[lp.entry]
    IN  IF d # 0 /\ c.succ[d] = <<lp.entry>> THEN d ELSE 0

RECURSIVE OutOfLoops(_, _)
OutOfLoops(c, b) == IF b_loops(c.loops, b) = {} THEN b ELSE OutOfLoops(c, c.idom[b])

init_point(c, item) ==
    LET usage == it_usage(c.text, item)
    IN  OutOfLoops(c, FoldLeft(LAMBDA d, b : common_dom(c.idom, d, b),
                               Head(usage), Tail(usage)))

(* The list of the intervals of the blocks in a set, added one by one. *)
Span(text, blocks) ==
    FoldLeft(LAMBDA s, b : add_interval(B_BEGIN(text, b), B_END(text, b), s),
             <<>>, SetToSeq(blocks))

(* add_blocks() for every use: the blocks from which a use can be reached. *)
whole_lifetime(c, item) ==
    LET used == ToSet(it_usage(c.text, item))
    IN  Span(c.text, AddPreds(c.pred, used, used) \cup {init_point(c, item)})

(* Only a parameter has a value before its first use. *)
proc_inits(c, item) == IF item \in c.params THEN {init_point(c, item)} ELSE {}

(* Is the item live where control leaves the loop? *)
updates_needed(c, lp, item) ==
    \E b \in lp.blocks : \E s \in ToSet(c.succ[b]) \ lp.blocks : LiveAtBegin(c, item, s)

(* May the loop be a timespan for the item? *)
LoopAllowed(c, lp, item) ==
    /\ lp.blocks \cap ToSet(it_usage(c.text, item)) # {}
    /\ ~updates_needed(c, lp, item)
    /\ ~(LP_HEADER(c, lp) = 0 /\ LiveAtBegin(c, item, lp.entry))

LoopAlloc(c, lp, item) ==
    LET header == IF LiveAtBegin(c, item, lp.entry) THEN {LP_HEADER(c, lp)} ELSE {}
    IN  [item |-> item, span |-> Span(c.text, lp.blocks \cup header), whole |-> FALSE,
         inits |-> {b \in header : LiveAtBegin(c, item, b)}]

allocs_of_item(c, item) ==
    LET loops == SelectSeq(c.loops, LAMBDA lp : LoopAllowed(c, lp, item))
    IN  <<[item |-> item, span |-> whole_lifetime(c, item), whole |-> TRUE,
           inits |-> proc_inits(c, item)]>>
        \o [i \in DOMAIN loops |-> LoopAlloc(c, loops[i], item)]

build_alloc_list(c) ==
    FlattenSeq([i \in DOMAIN SetToSeq(DOMAIN c.lives) |->
                  allocs_of_item(c, SetToSeq(DOMAIN c.lives)[i])])

(* The pairs of allocations that may not share a register. *)
build_rivals_graph(c, al) ==
    LET busy == [a \in DOMAIN al |-> intersect(al[a].span, c.lives[al[a].item])]
    IN  {e \in (DOMAIN al) \X (DOMAIN al) :
            al[e[1]].item # al[e[2]].item /\ not_disjoint(busy[e[1]], busy[e[2]])}

---------------------------------------------------------------------------
(* Packing.  packed is the list of the registers in use, the newest first; *)
(* each is the sequence of the allocations packed in it: the first one, and*)
(* its mates.                                                              *)

fits_in(rivals, a, row) == \A b \in ToSet(row) : <<a, b>> \notin rivals

(* The last register that fits, but the first that has a mate with the      *)
(* same item; 0 if none fits.                                               *)
find_fitting_alloc(al, rivals, a, packed) ==
    LET Fits(row) == fits_in(rivals, a, row)
        same == SelectInSeq(packed, LAMBDA row : Fits(row) /\
                    \E i \in 2..Len(row) : al[row[i]].item = al[a].item)
    IN  IF same # 0 THEN same ELSE SelectLastInSeq(packed, Fits)

(* A slip: only the allocation itself leaves unpacked. *)
OverlappingItself(al, a, unpacked) == {a}

(* The allocations that leave unpacked when a gets a register. *)
Overlapping(al, a, unpacked) ==
    {x \in unpacked : al[x].item = al[a].item /\ not_disjoint(al[x].span, al[a].span)}

(* choose_location() and the change update_lists() makes to packed. *)
Place(al, rivals, a, packed) ==
    LET fit == find_fitting_alloc(al, rivals, a, packed)
    IN  IF fit = 0 THEN <<<<a>>>> \o packed
        ELSE [packed EXCEPT ![fit] = <<Head(@), a>> \o Tail(@)]

in_single_reg(al, item, packed) ==
    Cardinality({i \in DOMAIN packed : \E a \in ToSet(packed[i]) : al[a].item = item}) <= 1

WholeOf(al, a) == CHOOSE e \in DOMAIN al : al[e].item = al[a].item /\ al[e].whole

(* assemble_allocs() for one register: the first of its allocations whose   *)
(* item may be in this register during the whole procedure is replaced, and *)
(* with it the other allocations of the item.                               *)
Assemble(al, rivals, profitable, packed, i) ==
    LET row == packed[i]
        m == SelectInSeq(row, LAMBDA a :
                /\ in_single_reg(al, al[a].item, packed)
                /\ ~al[a].whole
                /\ WholeOf(al, a) \in profitable
                /\ fits_in(rivals, WholeOf(al, a), row))
        e == WholeOf(al, row[m])
    IN  IF m = 0 THEN packed
        ELSE [packed EXCEPT ![i] =
                <<e>> \o SelectSeq(row, LAMBDA a : al[a].item # al[e].item)]

assemble_allocs(al, rivals, profitable, packed) ==
    FoldLeft(LAMBDA p, i : Assemble(al, rivals, profitable, p, i), packed,
             [i \in DOMAIN packed |-> i])

---------------------------------------------------------------------------
(* The new text.  A location is a variable or the number of a register.    *)

(* The register that holds the item at time t, or the item itself. *)
find_alloc(al, packed, item, t) ==
    LET r == SelectInSeq(packed, LAMBDA row : \E a \in ToSet(row) :
                al[a].item = item /\ contains(t, al[a].span))
    IN  IF r = 0 THEN item ELSE r

(* The lines that load a register where it is initialised.  append_code()  *)
(* puts each pair in front of those that are there already.                *)
InitCode(al, packed, b) ==
    FlattenSeq(Reverse(FlattenSeq([r \in DOMAIN packed |->
        [i \in DOMAIN packed[r] |->
            IF b \in al[packed[r][i]].inits
            THEN <<[op |-> "lol", v |-> al[packed[r][i]].item], [op |-> "stl", v |-> r]>>
            ELSE <<>>]])))

IsMes(l) == l.op \in {"live", "dead"}

(* init_place(): behind the messages and the pro or label of the block. *)
WithInit(code, init) ==
    LET k == SelectInSeq(code, LAMBDA l : ~IsMes(l) /\ l.op \notin {"pro", "lab"})
        n == IF k = 0 THEN Len(code) ELSE k - 1
    IN  SubSeq(code, 1, n) \o init \o SubSeq(code, n + 1, Len(code))

xform_proc(text, al, packed) ==
    [b \in DOMAIN text |->
        LET code == [i \in DOMAIN text[b] |->
                        LET l == text[b][i]
                        IN  IF is_item(l)
                            THEN [l EXCEPT !.v = find_alloc(al, packed, l.v,
                                                            B_BEGIN(text, b) + i - 1)]
                            ELSE l]
        IN  SelectSeq(WithInit(code, InitCode(al, packed, b)), LAMBDA l : ~IsMes(l))]
=============================================================================
