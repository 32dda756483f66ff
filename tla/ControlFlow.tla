---------------------------- MODULE ControlFlow ----------------------------
(***************************************************************************)
(* The control flow phase of the EM global optimizer, util/ego/cf: the     *)
(* successors of every basic block (cf_succ.c), the immediate dominators,  *)
(* found with the algorithm of Lengauer and Tarjan (cf_idom.c), and the    *)
(* loops (cf_loop.c).                                                      *)
(*                                                                         *)
(* A procedure is the sequence of its basic blocks in textual order; a     *)
(* block is the sequence of its lines.  A line is a record with the        *)
(* instruction op; a jump also has to, the set of blocks it may go to.     *)
(* A block is known by its place in the text, and 0 stands for the null    *)
(* pointer.  The module has no state: a phase is a function of the         *)
(* procedure, as it is in the code, where a phase is a process of its own. *)
(***************************************************************************)
EXTENDS Integers, FiniteSets, SequencesExt

Blocks(proc) == 1..Len(proc)

(* The sets of lset.c are lists, and are visited in the order of the list. *)
Ladd(x, s) == IF x \in ToSet(s) THEN s ELSE <<x>> \o s

---------------------------------------------------------------------------
(* The flow graph *)

(* The blocks in the order in which control_flow() calls succeeds() for b:  *)
(* a case jump its targets, a jump its target, a conditional jump its       *)
(* target and the next block, any other instruction the next block.         *)
Following(proc, b) ==
    LET last == Last(proc[b])
        next == IF b < Len(proc) THEN <<b + 1>> ELSE <<>>
    IN  CASE last.op = "ret" -> <<>>
          [] last.op \in {"bra", "csa"} -> SetToSeq(last.to)
          [] last.op = "beq" -> SetToSeq(last.to) \o next
          [] OTHER -> next

b_succ(proc) ==
    [b \in Blocks(proc) |->
        FoldLeft(LAMBDA s, x : Ladd(x, s), <<>>, Following(proc, b))]

b_pred(succ) ==
    [b \in DOMAIN succ |->
        SelectSeq(Reverse([a \in DOMAIN succ |-> a]), LAMBDA a : b \in ToSet(succ[a]))]

---------------------------------------------------------------------------
(* Immediate dominators.  g holds the fields that cf_idom.c keeps with the  *)
(* blocks, and the array vertex; semi = 0 for a block not yet reached.      *)

RECURSIVE dfs(_, _, _)
dfs(v, succ, g) ==
    LET visited == [g EXCEPT !.semi[v] = Len(g.vertex) + 1,
                             !.vertex = Append(@, v),
                             !.label[v] = v]
    IN  FoldLeft(LAMBDA h, w : IF h.semi[w] = 0
                               THEN dfs(w, succ, [h EXCEPT !.parent[w] = v])
                               ELSE h,
                 visited, succ[v])

(* A slip in the path compression: the label is taken from the wrong end. *)
RECURSIVE CompressKeepsLabel(_, _)
CompressKeepsLabel(v, g) ==
    LET a == g.ancestor[v]
    IN  IF g.ancestor[a] = 0 THEN g
        ELSE LET h == CompressKeepsLabel(a, g)
             IN  [h EXCEPT !.ancestor[v] = h.ancestor[a]]

RECURSIVE compress(_, _)
compress(v, g) ==
    LET a == g.ancestor[v]
    IN  IF g.ancestor[a] = 0 THEN g
        ELSE LET h == compress(a, g)
             IN  [h EXCEPT !.label[v] = IF h.semi[h.label[a]] < h.semi[h.label[v]]
                                        THEN h.label[a] ELSE @,
                           !.ancestor[v] = h.ancestor[a]]

(* eval(v) compresses the path above v and then yields a block. *)
Evaluated(v, g) == IF g.ancestor[v] = 0 THEN g ELSE compress(v, g)
EvalBlock(v, g) == IF g.ancestor[v] = 0 THEN v ELSE g.label[v]

(* The body of the loop over the predecessors of w. *)
SemiFrom(w, g, v) ==
    IF g.semi[v] = 0 THEN g
    ELSE LET h == Evaluated(v, g)
             u == EvalBlock(v, h)
         IN  [h EXCEPT !.semi[w] = IF h.semi[u] < @ THEN h.semi[u] ELSE @]

(* The body of the loop over the bucket of p, the parent of w. *)
FromBucket(p, g, v) ==
    LET h == Evaluated(v, g)
        u == EvalBlock(v, h)
    IN  [h EXCEPT !.idom[v] = IF h.semi[u] < h.semi[v] THEN u ELSE p]

(* One round of the first loop of dominators(), for w = vertex[i]. *)
DomRound(pred, g, w) ==
    LET p == g.parent[w]
        semi == FoldLeft(LAMBDA h, v : SemiFrom(w, h, v), g, pred[w])
        linked == [semi EXCEPT !.bucket[semi.vertex[semi.semi[w]]] = Ladd(w, @),
                               !.ancestor[w] = p]
        emptied == [linked EXCEPT !.bucket[p] = <<>>]
    IN  FoldLeft(LAMBDA h, v : FromBucket(p, h, v), emptied, linked.bucket[p])

(* b_idom of every block; 0 for the first block and for unreachable ones. *)
dominators(succ, pred) ==
    LET zero == [b \in DOMAIN succ |-> 0]
        start == [semi |-> zero, label |-> zero, ancestor |-> zero, parent |-> zero,
                  idom |-> zero, bucket |-> [b \in DOMAIN succ |-> <<>>],
                  vertex |-> <<>>]
        found == dfs(1, succ, start)
        rounds == FoldLeft(LAMBDA g, w : DomRound(pred, g, w), found,
                           Reverse(Tail(found.vertex)))
        Settle(g, w) == IF g.idom[w] # g.vertex[g.semi[w]]
                        THEN [g EXCEPT !.idom[w] = g.idom[g.idom[w]]] ELSE g
    IN  FoldLeft(Settle, rounds, Tail(rounds.vertex)).idom

(* b1 dominates b2 when it is met on the way up from b2: dom() of utils.c. *)
RECURSIVE dom(_, _, _)
dom(idom, b1, b2) == b2 # 0 /\ (b1 = b2 \/ dom(idom, b1, idom[b2]))

(* A dominator of a and b, as the register allocation looks for it. *)
RECURSIVE common_dom(_, _, _)
common_dom(idom, a, b) ==
    IF dom(idom, a, b) THEN a
    ELSE IF dom(idom, b, a) THEN b
    ELSE common_dom(idom, idom[a], idom[b])

---------------------------------------------------------------------------
(* Loops: [entry, end, blocks, count, messy] for the back edge end->entry. *)

RECURSIVE AddPreds(_, _, _)
AddPreds(pred, blocks, s) ==
    IF s = {} THEN blocks
    ELSE LET m == CHOOSE m \in s : TRUE
             new == ToSet(pred[m]) \ blocks
         IN  AddPreds(pred, blocks \cup new, (s \ {m}) \cup new)

natural_loop(pred, d, n) ==
    LET blocks == AddPreds(pred, {d, n}, {n} \ {d})
    IN  [entry |-> d, end |-> n, blocks |-> blocks, count |-> Cardinality(blocks),
         messy |-> FALSE]

same_loop(l1, l2) == /\ l1.count = l2.count
                     /\ {l1.entry, l1.end} \subseteq l2.blocks

inner_loop(l1, l2) == /\ l1.count < l2.count
                      /\ {l1.entry, l1.end} \subseteq l2.blocks

(* The loop of one back edge joins the list, or makes the loop that is in   *)
(* the list already a messy one.                                            *)
AddLoop(loops, lp) ==
    LET org == SelectInSeq(loops, LAMBDA l : same_loop(l, lp))
    IN  IF org = 0 THEN <<lp>> \o loops
        ELSE [loops EXCEPT ![org].messy = TRUE]

(* Loops with one entry become one loop: the first of them in the list gets *)
(* the blocks of the others, and keeps its own end and count.               *)
collapse_loops(loops) ==
    LET SameEntry(i) == {j \in DOMAIN loops : loops[j].entry = loops[i].entry}
        joined == [i \in DOMAIN loops |->
                    [loops[i] EXCEPT !.blocks = UNION {loops[j].blocks : j \in SameEntry(i)}]]
        kept == SelectSeq([i \in DOMAIN loops |-> i],
                          LAMBDA i : \A j \in SameEntry(i) : i <= j)
    IN  [k \in DOMAIN kept |-> joined[kept[k]]]

BackEdges(succ, idom) ==
    FlattenSeq([b \in DOMAIN succ |->
        SelectSeq([i \in DOMAIN succ[b] |-> <<b, succ[b][i]>>],
                  LAMBDA e : dom(idom, e[2], e[1]))])

(* p_loops, in the order of the list; a loop is known by its place in it. *)
loop_detection(succ, pred, idom) ==
    collapse_loops(FoldLeft(LAMBDA l, e : AddLoop(l, natural_loop(pred, e[2], e[1])),
                            <<>>, BackEdges(succ, idom)))

(* b_loops of block b. *)
b_loops(loops, b) == {i \in DOMAIN loops : b \in loops[i].blocks}

(* lp_level of loop i. *)
nest_levels(loops) ==
    [i \in DOMAIN loops |-> Cardinality({j \in DOMAIN loops : inner_loop(loops[i], loops[j])})]
---------------------------------------------------------------------------
(* Strong and firm blocks.  f holds the flags of the blocks: mark, firm and *)
(* strong, sets of blocks; no flag is ever cleared.                         *)

does_exit(succ, b, lp) == ~(ToSet(succ[b]) \subseteq lp.blocks)

RECURSIVE mark_succ(_, _, _, _)
mark_succ(succ, lp, mark, b) ==
    FoldLeft(LAMBDA m, s : IF s \in lp.blocks \ ({b, lp.entry} \cup m)
                           THEN mark_succ(succ, lp, m \cup {s}, s) ELSE m,
             mark, succ[b])

RECURSIVE UpTo(_, _, _)
UpTo(idom, b, top) == IF b = top THEN {b} ELSE {b} \cup UpTo(idom, idom[b], top)

mark_blocks(succ, idom, f, lp) ==
    LET From == [i \in 1..(Len(succ) - lp.entry + 1) |-> lp.entry + i - 1]
        mark == FoldLeft(LAMBDA m, b : IF b \notin m /\ does_exit(succ, b, lp)
                                       THEN mark_succ(succ, lp, m, b) ELSE m,
                         f.mark, From)
        firm == UpTo(idom, lp.end, lp.entry)
    IN  IF lp.messy THEN f
        ELSE [mark |-> mark, firm |-> f.firm \cup firm,
              strong |-> f.strong \cup (firm \ mark)]

mark_loopblocks(succ, idom, loops) ==
    FoldLeft(LAMBDA f, lp : mark_blocks(succ, idom, f, lp),
             [mark |-> {}, firm |-> {}, strong |-> {}], loops)
=============================================================================
