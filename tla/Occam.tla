------------------------------- MODULE Occam -------------------------------
(***************************************************************************)
(* Programs on the occam runtime system: the processes of PAR constructs,  *)
(* as lang/occam/comp translates them (occam.g), with the channels of      *)
(* Channels and the scheduler of Parco; or, on the same library, programs  *)
(* with coroutines (co.c).  Nothing preempts a process: it runs until it   *)
(* calls resumenext(), parend() or resume().                               *)
(*                                                                         *)
(* var[p] is what the piece of stack of process p should hold; what the    *)
(* kernel makes of the pieces is k.mem, k.stack and k.between.             *)
(***************************************************************************)
EXTENDS Parco, Channels

VARIABLES k,        \* the state of Parco
          library,  \* what the program uses: "par" or "co"
          forkers   \* the processes that set up a PAR and still fork

vars == <<k, library, forkers, chanVars>>

ASSUME OccamAssumption == Process = Pid \cup {nil} /\ Var = Process /\ Value = Data

me == Current(k)
group == Last(k.path)
Running == k.abort = ""
Leaf(p) == IF p = nil THEN k.path = <<>> ELSE p \in Live(k) /\ k.down[p] = nil

(* The processes whose pieces of stack are there: the current one and,     *)
(* where there is anything between two splits, those above it.             *)
Holder(l) == ActiveAt(k, l)
Levels == 0..Depth(k)
Visible(l) == l \notin {0, Depth(k)} => k.between[k.path[l + 1]] # NONE

Init ==
    /\ k = InitKernel
    /\ library \in {"par", "co"}
    /\ forkers = {}
    /\ ChanInit
    /\ val = [c \in Channel |-> Undefined]
    /\ var = [x \in Var |-> Undefined]

(* A piece of stack that is not yet, or no longer, in use is undefined.    *)
Undeclare(x, d) == /\ var' = [var EXCEPT ![x] = d]
                   /\ UNCHANGED <<synch, val, op, on, msg, into>>

no_deadlock(s) == [s EXCEPT !.deadlock = 0]
-----------------------------------------------------------------------------
Calls == Running /\ library = "par" /\ op[me] = "none" /\ UNCHANGED library

In(c, l) ==
    /\ Calls /\ me \notin forkers /\ Visible(l)
    /\ InCall(me, c, Holder(l))
    /\ k' = no_deadlock(k)
    /\ UNCHANGED forkers

Out(c, v) ==
    /\ Calls /\ me \notin forkers
    /\ OutCall(me, c, v)
    /\ k' = no_deadlock(k)
    /\ UNCHANGED forkers

Alt(o, S) ==
    /\ Calls /\ me \notin forkers
    /\ AltCall(me, o, S, me)
    /\ k' = no_deadlock(k)
    /\ UNCHANGED forkers

(* PAR: the process enters a group of its own, as the one that forks.      *)
Par(own) ==
    /\ Calls /\ me \notin forkers
    /\ FreeGroups(k) # {} /\ FreeProcs(k) # {}
    /\ k' = pc_begin(k, own, CHOOSE i \in Ident : TRUE)
    /\ forkers' = forkers \cup {Current(k')}
    /\ Undeclare(Current(k'), k'.mem[Depth(k')])

Fork ==
    /\ Calls /\ me \in forkers /\ FreeProcs(k) # {}
    /\ k' = pc_fork(k, CHOOSE i \in Ident : TRUE)
    /\ Undeclare(Min(FreeProcs(k)), k'.stack[Min(FreeProcs(k))])
    /\ UNCHANGED forkers

(* The end of a branch, or of the forking.  If the group ends, the piece   *)
(* of stack that was not there (own) is undefined again.                   *)
ParEnd ==
    /\ Calls /\ me # nil
    /\ k' = parend(k)
    /\ forkers' = forkers \ {me}
    /\ var' = [x \in Var |->
                 CASE x = me -> Undefined
                   [] x = Current(k') /\ k'.procs[group] = <<>> /\ k.between[group] = NONE
                      -> k'.mem[Depth(k')]
                   [] OTHER -> var[x]]
    /\ UNCHANGED <<synch, val, op, on, msg, into>>
-----------------------------------------------------------------------------
Waits == Running /\ library = "par" /\ op[me] # "none" /\ UNCHANGED <<library, forkers>>

(* *v = c->c.val, where v may be in a piece of stack further down.  A      *)
(* guard of an ALT calls chan_in(), which sets deadlock to 0 again.        *)
Receive(c) ==
    /\ Waits
    /\ Take(me, c)
    /\ LET l == CHOOSE l \in Levels : Holder(l) = into[me]
       IN  k' = [k EXCEPT !.mem[l] = val[c], !.deadlock = IF op[me] = "in" THEN @ ELSE 0]

Send(c) ==
    /\ Waits
    /\ \/ Put(me, c) /\ k' = no_deadlock(k)
       \/ Acknowledged(me, c) /\ k' = k

(* now() sets deadlock to 0. *)
TimeComes == Waits /\ Late(me) /\ k' = no_deadlock(k)

Blocked(p) ==
    \/ op[p] \in {"in", "alt"} /\ \A c \in on[p] : ~chan_any(c)
    \/ op[p] = "free" /\ \A c \in on[p] : synch[c] # "FREE"
    \/ op[p] = "ack" /\ \A c \in on[p] : synch[c] # "ACK"

(* The condition of the loop holds; an ALT or WAIT with a time asks now(). *)
MayYield == /\ Running /\ library = "par"
            /\ Blocked(me) \/ (op[me] = "altwait" /\ \A c \in on[me] : ~chan_any(c))
Yielded == resumenext(IF op[me] = "altwait" THEN no_deadlock(k) ELSE k)

YieldResets ==
    /\ MayYield
    /\ k' = resumenext(no_deadlock(k))
    /\ UNCHANGED <<library, forkers, chanVars>>

Yield ==
    /\ MayYield
    /\ k' = Yielded
    /\ UNCHANGED <<library, forkers, chanVars>>
-----------------------------------------------------------------------------
Co == Running /\ library = "co" /\ UNCHANGED <<library, forkers>>

CoAssign(l, v) ==
    /\ Co /\ Visible(l)
    /\ k' = [k EXCEPT !.mem[l] = v]
    /\ Undeclare(Holder(l), v)

CoBegin(own, i) ==
    /\ Co /\ FreeGroups(k) # {} /\ FreeProcs(k) # {}
    /\ k' = pc_begin(k, own, i)
    /\ Undeclare(Current(k'), k'.mem[Depth(k')])

CoFork(i) ==
    /\ Co /\ me # nil /\ FreeProcs(k) # {}
    /\ k' = pc_fork(k, i)
    /\ Undeclare(Min(FreeProcs(k)), k'.stack[Min(FreeProcs(k))])

Resume(i) == Co /\ k' = resume(k, i) /\ UNCHANGED chanVars

CoEnd ==
    /\ Co /\ me # nil
    /\ k' = coend(k)
    /\ var' = [x \in Var |->
                 CASE x # nil /\ x \notin Live(k') -> Undefined
                   [] x = Current(k') /\ k.between[group] = NONE -> k'.mem[Depth(k')]
                   [] OTHER -> var[x]]
    /\ UNCHANGED <<synch, val, op, on, msg, into>>
-----------------------------------------------------------------------------
Call == \/ \E c \in Channel : (\E l \in Levels : In(c, l)) \/ (\E v \in Value : Out(c, v))
        \/ \E o \in Ops, S \in SUBSET Channel : Alt(o, S)

Next ==
    \/ Call
    \/ \E own \in BOOLEAN : Par(own)
    \/ Fork
    \/ ParEnd
    \/ \E c \in Channel : Receive(c) \/ Send(c)
    \/ TimeComes
    \/ Yield
    \/ \E l \in Levels, v \in Value : CoAssign(l, v)
    \/ \E own \in BOOLEAN, i \in Ident : CoBegin(own, i)
    \/ \E i \in Ident : CoFork(i) \/ Resume(i)
    \/ CoEnd

(* No process keeps the others from running by computing for ever, or by   *)
(* polling for ever what is always ready: unless it has aborted, a program *)
(* gets to Yield again and again, the step from MayYield that leaves the   *)
(* channels alone, or stays in it with nothing changed.                    *)
Fairness ==
    \/ []<>(~Running \/ library = "co")
    \/ []<><<MayYield /\ UNCHANGED chanVars>>_vars
    \/ <>[](MayYield /\ Yielded = k)

Spec == Init /\ [][Next]_vars /\ Fairness
-----------------------------------------------------------------------------
TypeOK == k \in Kernel /\ ChanTypeOK /\ forkers \subseteq Live(k)

(* The process groups are a tree and every process is in one place of it;  *)
(* the way down by the active processes ends at the process that runs; and *)
(* exactly the other leaves have a saved stack, so that none is lost or    *)
(* freed twice.  (The types of the variables are part of it.)              *)
TreeOK ==
    LET groups == Gid \ FreeGroups(k)
    IN  TypeOK /\ (k.abort = "" =>
        /\ \A g, h \in groups : g # h => ToSet(k.procs[g]) \cap ToSet(k.procs[h]) = {}
        /\ \A g \in groups : Cardinality(ToSet(k.procs[g])) = Len(k.procs[g])
        /\ \A g \in groups : Cardinality({p \in Live(k) : k.down[p] = g}) = IF g = k.path[1] THEN 0 ELSE 1
        /\ \A l \in 1..Depth(k) : k.active[k.path[l]] \in DOMAIN k.procs[k.path[l]]
        /\ groups # {} => Down(k, k.active, k.path[1]) = k.path
        /\ {p \in Pid : k.stack[p] # NONE} = {p \in Live(k) : Leaf(p)} \ {me})

(* Whatever runs finds its variables, and those of the processes around    *)
(* it, as they were last assigned: top_save, top_load, save_between and    *)
(* load_betweens together keep every piece of every stack.                 *)
StackKept == k.abort = "" => \A l \in Levels : Visible(l) => k.mem[l] = var[Holder(l)]

(* DEADLOCK() is called only if every process that could run waits for     *)
(* something none of them will do.                                         *)
DeadlockReal == k.abort = "DEADLOCK" => \A p \in Process : Leaf(p) => Blocked(p)

AllBlocked == library = "par" /\ \A p \in Process : Leaf(p) => Blocked(p)

(* If every process waits in vain the program does not go around for ever: *)
(* resumenext() finds the deadlock.                                        *)
DeadlockFound == AllBlocked ~> k.abort = "DEADLOCK"

(* The counter deadlock, which all of the library resets, is right in both *)
(* directions: DEADLOCK() is called when every process waits in vain, and  *)
(* then only.                                                              *)
DeadlockExact == []DeadlockReal /\ DeadlockFound

(* search_next() gives every leaf of the tree its turn: no process whose   *)
(* channel is ready is passed over for ever.                               *)
EveryTurn == \A p \in Pid :
    []<>(~Running \/ me = p \/ library = "co" \/ ~Leaf(p) \/ p \notin Live(k) \/ Blocked(p))
=============================================================================
