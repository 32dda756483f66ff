--------------------------- MODULE LiveVariables ---------------------------
(***************************************************************************)
(* The live variables phase of the EM global optimizer, util/ego/lv/lv.c:  *)
(* it finds where the value of a variable may still be used, puts live and *)
(* dead messages into the text, and removes useless assignments.           *)
(*                                                                         *)
(* Lines, besides the jumps of ControlFlow and the pro and lab lines:      *)
(*   lol v, stl v   load and store of v;                                   *)
(*   zrl v, inl v   v := 0 and v := v + 1;                                 *)
(*   loc            loads a constant: an expression of one line;           *)
(*   lfr            loads the result of a call: nothing the parser of      *)
(*                  share/parser.c recognises;                             *)
(*   pop            takes a word from the stack and uses it (an argument   *)
(*                  of a call, a store through a pointer), also unknown to *)
(*                  the parser;                                            *)
(*   live v, dead v the messages of this phase.                            *)
(* Every variable is a local one, with a register message.                 *)
(***************************************************************************)
EXTENDS ControlFlow

Mes(op, v) == [op |-> op, v |-> v]

is_def(l) == l.op \in {"stl", "zrl"}
is_dir_use(l) == l.op \in {"lol", "inl"}

(* DEF and USE of a block: one scan from its begin to its end. *)
DefUse(du, l) ==
    IF is_def(l) /\ l.v \notin du.use THEN [du EXCEPT !.def = @ \cup {l.v}]
    ELSE IF is_dir_use(l) /\ l.v \notin du.def THEN [du EXCEPT !.use = @ \cup {l.v}]
    ELSE du

def_use(proc) == [b \in Blocks(proc) |-> FoldLeft(DefUse, [def |-> {}, use |-> {}], proc[b])]

(* One visit of the loop of solve_lv() to block b. *)
VisitBlock(succ, du, lv, b) ==
    LET newout == UNION {lv.in[s] : s \in ToSet(succ[b])}
    IN  IF newout = lv.out[b] THEN lv
        ELSE [in |-> [lv.in EXCEPT ![b] = (newout \ du[b].def) \cup du[b].use],
              out |-> [lv.out EXCEPT ![b] = newout],
              change |-> TRUE]

RECURSIVE SolveRounds(_, _, _)
SolveRounds(succ, du, lv) ==
    LET round == FoldLeft(LAMBDA s, b : VisitBlock(succ, du, s, b),
                          [lv EXCEPT !.change = FALSE], [b \in DOMAIN succ |-> b])
    IN  IF round.change THEN SolveRounds(succ, du, round) ELSE round

(* A slip: one round over the blocks, in textual order, is taken for enough. *)
SolveOnce(succ, du) ==
    FoldLeft(LAMBDA s, b : VisitBlock(succ, du, s, b),
             [in |-> [b \in DOMAIN succ |-> du[b].use], out |-> [b \in DOMAIN succ |-> {}],
              change |-> FALSE], [b \in DOMAIN succ |-> b])

(* L_IN and L_OUT of every block. *)
solve_lv(succ, du) ==
    SolveRounds(succ, du, [in |-> [b \in DOMAIN succ |-> du[b].use],
                           out |-> [b \in DOMAIN succ |-> {}], change |-> TRUE])

---------------------------------------------------------------------------
(* The messages *)

(* Messages at the head of a block for what was live at the end of the     *)
(* textually previous block and is dead at the begin of this one, or v.v.  *)
block_entry(was, is) ==
    SetToSeq({Mes("live", v) : v \in is \ was} \cup {Mes("dead", v) : v \in was \ is})

(* Messages go before the first line, but after the pro of the procedure.  *)
app_block(code, mes) == IF Head(code).op = "pro" THEN <<Head(code)>> \o mes \o Tail(code)
                        ELSE mes \o code

(* parse(): does the line before line i push the word that is stored?  The *)
(* expressions of the model have one line.                                 *)
Parses(code, i) == i > 1 /\ code[i - 1].op \in {"loc", "lol"}

(* A slip: an assignment to a dead variable gets no messages at all. *)
DefMessagesNone(v, live) == IF v \in live THEN <<Mes("live", v)>> ELSE <<>>

(* definition(): a dead variable that is assigned is alive for a moment.   *)
DefMessages(v, live) ==
    <<Mes("live", v)>> \o (IF v \in live THEN <<>> ELSE <<Mes("dead", v)>>)

(* use() *)
UseMessages(v, live) == IF v \in live THEN <<>> ELSE <<Mes("dead", v)>>

(* The lines 1..i of a block, visited backwards.  live is the set of the   *)
(* variables marked live, done the text behind line i.                     *)
RECURSIVE Backwards(_, _, _, _)
Backwards(code, i, live, done) ==
    IF i = 0 THEN done
    ELSE LET l == code[i]
         IN  CASE is_def(l) /\ l.v \notin live /\ Parses(code, i) ->
                    Backwards(code, i - 2, live, DefMessages(l.v, live) \o done)
               [] is_def(l) /\ ~(l.v \notin live /\ Parses(code, i)) ->
                    Backwards(code, i - 1, live \ {l.v},
                              <<l>> \o DefMessages(l.v, live) \o done)
               [] is_dir_use(l) ->
                    Backwards(code, i - 1, live \cup {l.v},
                              <<l>> \o UseMessages(l.v, live) \o done)
               [] OTHER -> Backwards(code, i - 1, live, <<l>> \o done)

(* The text of the procedure with its messages; params are live at first.  *)
lv_mesg(proc, lv, params) ==
    [b \in Blocks(proc) |->
        LET code == Backwards(proc[b], Len(proc[b]), lv.out[b], <<>>)
            was == IF b = 1 THEN params ELSE lv.out[b - 1]
        IN  app_block(code, block_entry(was, lv.in[b]))]

lv_optimize(proc, succ, params) == lv_mesg(proc, solve_lv(succ, def_use(proc)), params)
=============================================================================
