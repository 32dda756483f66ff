-------------------------------- MODULE Ego --------------------------------
(***************************************************************************)
(* Three phases of the EM global optimizer, util/ego, one after the other  *)
(* as em_ego runs them: control flow (ControlFlow), live variables         *)
(* (LiveVariables) and register allocation (RegisterAllocation).  Then the *)
(* optimized procedure and the one it was made from run side by side, a    *)
(* block at a time, and must use the same values.                          *)
(*                                                                         *)
(* Profits and the cost of saving registers depend on tables of the target *)
(* machine: any set of allocations may be profitable, they may be granted  *)
(* registers in any order, and any register may be given up in the end.    *)
(***************************************************************************)
EXTENDS RegisterAllocation

CONSTANTS Var,              \* the local variables and parameters
          Procedures,       \* what may be optimized: [code, params]
          regs_available,   \* the number of registers
          Undef             \* the value of what was never assigned to

VARIABLES p,        \* the procedure as cf gets it: [code, params]
          phase,    \* what comes next: "cf", "lv", "ra", "profits", "pack" or "run"
          flow,     \* succ, pred, idom, loops and flags of cf
          text,     \* the text with the messages of lv
          ra,       \* lives, al, rivals of ra, and which are profitable
          unpacked, \* allocations without a register
          packed,   \* registers in use and what is packed in them
          code,     \* the text ra makes
          at,       \* the block both texts are about to run, 0 at the end
          old, new  \* the values in their locations

vars == <<p, phase, flow, text, ra, unpacked, packed, code, at, old, new>>

Init ==
    /\ p \in Procedures
    /\ phase = "cf"
    /\ flow = <<>> /\ text = <<>> /\ ra = <<>> /\ code = <<>>
    /\ unpacked = {} /\ packed = <<>>
    /\ at = 0 /\ old = <<>> /\ new = <<>>

---------------------------------------------------------------------------
(* The phases *)

(* What main() of cf.c does for one procedure.             *)
Cf ==
    /\ phase = "cf"
    /\ LET succ == b_succ(p.code)
           pred == b_pred(succ)
           idom == dominators(succ, pred)
           loops == loop_detection(succ, pred, idom)
       IN  flow' = [succ |-> succ, pred |-> pred, idom |-> idom, loops |-> loops,
                    flags |-> mark_loopblocks(succ, idom, loops)]
    /\ phase' = "lv"
    /\ UNCHANGED <<p, text, ra, unpacked, packed, code, at, old, new>>

Lv ==
    /\ phase = "lv"
    /\ text' = lv_optimize(p.code, flow.succ, p.params)
    /\ phase' = "ra"
    /\ UNCHANGED <<p, flow, ra, unpacked, packed, code, at, old, new>>

(* ra_optimize() up to build_rivals_graph(). *)
Ra ==
    /\ phase = "ra"
    /\ LET lives == build_lifetimes(text)
           c == [text |-> text, succ |-> flow.succ, pred |-> flow.pred, idom |-> flow.idom,
                 loops |-> flow.loops, lives |-> lives, params |-> p.params]
           al == build_alloc_list(c)
       IN  /\ ra' = [lives |-> lives, al |-> al, profitable |-> {},
                     rivals |-> build_rivals_graph(c, al)]
           /\ unpacked' = DOMAIN al
    /\ phase' = "profits"
    /\ UNCHANGED <<p, flow, text, packed, code, at, old, new>>

compute_profits ==
    /\ phase = "profits"
    /\ \E profitable \in SUBSET DOMAIN ra.al : ra' = [ra EXCEPT !.profitable = profitable]
    /\ phase' = "pack"
    /\ UNCHANGED <<p, flow, text, unpacked, packed, code, at, old, new>>

(* room_for() *)
HasRoom(a) == \/ Len(packed) < regs_available
              \/ find_fitting_alloc(ra.al, ra.rivals, a, packed) # 0

Candidates == {a \in unpacked \cap ra.profitable : HasRoom(a)}

(* A round of the loop of pack(). *)
PackOne ==
    /\ phase = "pack"
    /\ \E a \in Candidates :
           /\ packed' = Place(ra.al, ra.rivals, a, packed)
           /\ unpacked' = unpacked \ Overlapping(ra.al, a, unpacked)
    /\ UNCHANGED <<p, phase, flow, text, ra, code, at, old, new>>

(* The rest of pack(), of which account_regsave() gives up registers, and   *)
(* the new text.  When the procedure is called the value of a parameter v   *)
(* is denoted by v.                                                         *)
Xform ==
    /\ phase = "pack" /\ Candidates = {}
    /\ LET assembled == assemble_allocs(ra.al, ra.rivals, ra.profitable, packed)
       IN  \E keep \in SUBSET DOMAIN assembled :
               packed' = [i \in 1..Cardinality(keep) |-> assembled[SetToSeq(keep)[i]]]
    /\ code' = xform_proc(text, ra.al, packed')
    /\ phase' = "run"
    /\ at' = 1
    /\ old' = [v \in Var |-> IF v \in p.params THEN v ELSE Undef]
    /\ new' = [l \in Var \cup 1..regs_available |-> IF l \in Var THEN old'[l] ELSE Undef]
    /\ UNCHANGED <<p, flow, text, ra, unpacked>>

---------------------------------------------------------------------------
(* Running a block: what the instructions of EM mean.  s.used is the list   *)
(* of the values that pop and inl met, k the value a line makes.            *)

Push(s, x) == [s EXCEPT !.stack = <<x>> \o @]
Top(s) == IF s.stack = <<>> THEN Undef ELSE Head(s.stack)
Pop(s) == [s EXCEPT !.stack = IF @ = <<>> THEN @ ELSE Tail(@)]

Effect(s, l) ==
    CASE l.op \in {"loc", "lfr"} -> Push(s, l.k)
      [] l.op = "lol" -> Push(s, s.mem[l.v])
      [] l.op = "stl" -> [Pop(s) EXCEPT !.mem[l.v] = Top(s)]
      [] l.op = "zrl" -> [s EXCEPT !.mem[l.v] = 0]
      [] l.op = "inl" -> [s EXCEPT !.used = Append(@, s.mem[l.v]), !.mem[l.v] = l.k]
      [] l.op = "pop" -> [Pop(s) EXCEPT !.used = Append(@, Top(s))]
      [] OTHER -> s

RunBlock(lines, mem) == FoldLeft(Effect, [mem |-> mem, stack |-> <<>>, used |-> <<>>], lines)

(* Control goes to any successor of the block. *)
Run ==
    /\ phase = "run" /\ at # 0
    /\ old' = RunBlock(p.code[at], old).mem
    /\ new' = RunBlock(code[at], new).mem
    /\ at' \in IF flow.succ[at] = <<>> THEN {0} ELSE ToSet(flow.succ[at])
    /\ UNCHANGED <<p, phase, flow, text, ra, unpacked, packed, code>>

Next == Cf \/ Lv \/ Ra \/ compute_profits \/ PackOne \/ Xform \/ Run

Spec == Init /\ [][Next]_vars
---------------------------------------------------------------------------
(* What a flow graph is about: paths *)

(* The blocks that paths from S reach without entering a block of avoid. *)
ReachedFrom(S, avoid) ==
    LET Step[n \in 0..Len(flow.succ)] ==
            IF n = 0 THEN S \ avoid
            ELSE LET before == Step[n - 1]
                 IN  before \cup (UNION {ToSet(flow.succ[b]) : b \in before} \ avoid)
    IN  Step[Len(flow.succ)]

Reachable == ReachedFrom({1}, {})
Dominates(d, b) == d = b \/ (b \in Reachable /\ b \notin ReachedFrom({1}, {d}))
BackTo(e) == {b \in DOMAIN flow.succ : e \in ToSet(flow.succ[b]) /\ Dominates(e, b)}

(* The value of v before line i of block b of the text may be used: some   *)
(* path from there meets a use of v before an assignment to it.            *)
FirstRef(lines, v) == SelectInSeq(lines, LAMBDA l : is_item(l) /\ l.v = v)
Live(v, b, i) ==
    LET rest == SubSeq(text[b], i, Len(text[b]))
        Silent == {x \in DOMAIN text : FirstRef(text[x], v) = 0}
        Met[n \in 0..Len(text)] ==
            IF n = 0 THEN ToSet(flow.succ[b])
            ELSE LET before == Met[n - 1]
                 IN  before \cup UNION {ToSet(flow.succ[x]) : x \in before \cap Silent}
        UsedFirst(lines) == FirstRef(lines, v) # 0 /\ is_dir_use(lines[FirstRef(lines, v)])
    IN  IF FirstRef(rest, v) # 0 THEN UsedFirst(rest)
        ELSE \E x \in Met[Len(text)] : UsedFirst(text[x])

---------------------------------------------------------------------------
(* Properties *)

(* The values of the variables have their types: a phase leaves what the   *)
(* phases before it made, every allocation is unpacked, packed or dropped, *)
(* and no more registers are in use than there are.                        *)
TypeOK ==
    /\ phase \in {"cf", "lv", "ra", "profits", "pack", "run"}
    /\ Len(packed) <= regs_available
    /\ \A i, j \in DOMAIN packed : i # j => ToSet(packed[i]) \cap ToSet(packed[j]) = {}
    /\ \A i \in DOMAIN packed : ToSet(packed[i]) \cap unpacked = {}
    /\ at \in 0..Len(p.code)

(* b_idom, as dominators() of cf_idom.c finds it, is the immediate dominator *)
(* of every reachable block but the first: the block all its other           *)
(* dominators dominate.  Unreachable blocks have none.                       *)
DominatorsExact ==
    phase = "lv" =>
        \A b \in DOMAIN flow.succ :
            LET d == flow.idom[b]
                Proper == {x \in DOMAIN flow.succ : Dominates(x, b)} \ {b}
            IN  IF Proper = {} THEN d = 0
                ELSE d \in Proper /\ \A x \in Proper : Dominates(x, d)

(* loop_detection() of cf_loop.c finds one loop for every block that back   *)
(* edges go to, however many they are, and it consists of that block and of *)
(* all blocks that can reach such an edge without going through the block.  *)
LoopsNatural ==
    phase = "lv" =>
        LET loops == flow.loops
            Entries == {loops[i].entry : i \in DOMAIN loops}
        IN  /\ Cardinality(Entries) = Len(loops)
            /\ Entries = {e \in DOMAIN flow.succ : BackTo(e) # {}}
            /\ \A i \in DOMAIN loops :
                   LET e == loops[i].entry
                   IN  loops[i].blocks =
                           {e} \cup {b \in DOMAIN flow.succ :
                                         ReachedFrom({b}, {e}) \cap BackTo(e) # {}}

(* A block that mark_blocks() of cf_loop.c flags as firm is executed in      *)
(* every iteration but perhaps the last, and a strong one in every           *)
(* iteration, where the procedure has one loop and one edge back.            *)
Iterates(e, blocks, b) ==     \* an iteration of the loop without b comes round
    e # b /\ \E x \in ReachedFrom((ToSet(flow.succ[e]) \cap blocks) \ {e}, {b, e}) \cup {e} :
                 e \in ToSet(flow.succ[x])
Leaves(e, blocks, b) ==       \* an iteration of the loop without b leaves it
    LET out == DOMAIN flow.succ \ blocks
    IN  e # b /\ \E x \in ReachedFrom((ToSet(flow.succ[e]) \cap blocks) \ {e}, {b, e} \cup out)
                        \cup {e} : ToSet(flow.succ[x]) \cap out # {}
FirmInEveryIteration ==
    phase = "lv" /\ Len(flow.loops) = 1 =>
        LET lp == flow.loops[1]
        IN  Cardinality(BackTo(lp.entry)) = 1 /\ Reachable = DOMAIN flow.succ =>
                /\ \A b \in flow.flags.firm : ~Iterates(lp.entry, lp.blocks, b)
                /\ \A b \in flow.flags.strong : ~Leaves(lp.entry, lp.blocks, b)

(* What cf finds out about a procedure is true of all its paths, and not   *)
(* only of those that a test of it takes.                                  *)
FlowExact == DominatorsExact /\ LoopsNatural /\ FirmInEveryIteration

(* What lv_mesg() took out of the text.  A use goes with the useless        *)
(* assignment v := w, but the sets of the data flow, made before, still     *)
(* have it.  A useless zrl goes with the expression before it, though it    *)
(* has none.                                                                *)
Count(proc, op, v) ==
    Len(SelectSeq(FlattenSeq(proc), LAMBDA l : l.op = op /\ l.v = v))
LostUses == {v \in Var : Count(text, "lol", v) < Count(p.code, "lol", v)}
ZeroLost == \E v \in Var : Count(text, "zrl", v) < Count(p.code, "zrl", v)

(* it_lives, which build_lifetimes() of ra_lifet.c makes of the messages   *)
(* that lv put into the text, says of every line exactly whether the value *)
(* of the variable may still be used there, for every variable that lv     *)
(* removed no use of.  (Of the others the lifetimes can be too long, or,   *)
(* where a live message comes while the variable already is, too short.)   *)
LivesExact ==
    phase = "profits" =>
        \A v \in DOMAIN ra.lives \ LostUses : \A b \in DOMAIN text : \A i \in DOMAIN text[b] :
            ~IsMes(text[b][i]) /\ text[b][i].op # "pro" =>
                (contains(B_BEGIN(text, b) + i - 1, ra.lives[v]) <=> Live(v, b, i))

(* A variable is kept in one place at a time: two allocations of one item  *)
(* that update_lists() and assemble_allocs() of ra_pack.c leave packed, in *)
(* one or in two registers, never have a line in common.  (The types of    *)
(* the variables are part of it.)                                          *)
Held == UNION {ToSet(packed[i]) : i \in DOMAIN packed}
OnePlace ==
    /\ TypeOK
    /\ \A a, b \in Held : a # b /\ ra.al[a].item = ra.al[b].item =>
          ~not_disjoint(ra.al[a].span, ra.al[b].span)

(* proc_inits() of ra_allocl.c has a parameter loaded at its init_point     *)
(* whether it is live there or not; the register may hold another variable, *)
(* which is.                                                                *)
LoadInTheWay ==
    \E i \in DOMAIN packed : \E a, b \in ToSet(packed[i]) :
        LET busy == intersect(ra.al[b].span, ra.lives[ra.al[b].item])
        IN  /\ ra.al[a].item # ra.al[b].item
            /\ \E block \in ra.al[a].inits : contains(B_BEGIN(text, block), busy)

(* The optimized procedure uses the values the original uses: wherever      *)
(* control goes, every value that is taken from the stack or incremented is *)
(* the same, unless the original used what it never assigned to.  Neither   *)
(* the assignments that lv removes nor the registers that variables share   *)
(* change what the procedure does, but in three cases, where the code is    *)
(* wrong: lv.c:528 removed an expression in front of a zrl; it removed a    *)
(* use of a variable that is then kept in a register; or a parameter is     *)
(* loaded (ra_allocl.c:218) over a variable in the same register.           *)
SameValues ==
    phase = "run" /\ at # 0 =>
        LET o == RunBlock(p.code[at], old)
            n == RunBlock(code[at], new)
        IN  \/ /\ Len(o.used) = Len(n.used)
               /\ \A i \in DOMAIN o.used : o.used[i] \in {Undef, n.used[i]}
            \/ ZeroLost
            \/ LostUses \cap {ra.al[a].item : a \in Held} # {}
            \/ LoadInTheWay
=============================================================================
