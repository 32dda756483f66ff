------------------------------- MODULE Parco -------------------------------
(***************************************************************************)
(* lang/occam/lib: par.c, co.c and parco.c, which simulate parallelism or  *)
(* coroutines on one stack.                                                *)
(*                                                                         *)
(* The processes form a tree.  A process group is a list of processes, and *)
(* a process may have set up a group that runs under it.  The process that *)
(* runs is a leaf: *group->active.  The others have the top of the stack   *)
(* they had, from the s_brk of their group on, in a saved copy; the piece  *)
(* of stack between the s_brk of a group and that of the group above it is *)
(* kept in the group (between) when control leaves the group.              *)
(*                                                                         *)
(* The stack is one datum for each level of the tree: mem[l] is the piece  *)
(* that starts at the s_brk of a group of level l, and mem[0] what is      *)
(* below all groups.  A list of processes is a sequence, and the pointer   *)
(* to a link that active is, the position of the process it points to (one *)
(* past the end for the last link).  Only the chain of up pointers of the  *)
(* current group is ever followed: it is path, from the outermost group to *)
(* the current one.  The state of the library is one record k, because its *)
(* functions call each other.                                              *)
(***************************************************************************)
EXTENDS Naturals, Sequences, SequencesExt, FiniteSetsExt

CONSTANTS MaxProcs, MaxGroups,  \* how many there is memory for
          Data,                 \* what a piece of stack may hold
          Ident,                \* identifications of coroutines
          NONE

Pid == 1..MaxProcs
Gid == 1..MaxGroups
nil == 0
Level == 0..MaxGroups

Kernel ==
    [procs: [Gid -> Seq(Pid)],             \* the list at group->first
     active: [Gid -> 1..MaxProcs + 1],     \* the position of *group->active
     between: [Gid -> Data \cup {NONE}],
     down: [Pid -> Gid \cup {nil}],
     stack: [Pid -> Data \cup {NONE}],     \* NONE: no saved copy
     id: [Pid -> Ident],
     mem: [Level -> Data],
     path: Seq(Gid),                       \* the groups from the outermost to group
     highest_group: Level,                 \* its place in path
     deadlock: 0..2,
     abort: {"", "DEADLOCK", "RESUMERR"}]

Undefined == CHOOSE d \in Data : TRUE

(* The main program, before its first group. *)
InitKernel ==
    [procs |-> [g \in Gid |-> <<>>], active |-> [g \in Gid |-> 1],
     between |-> [g \in Gid |-> NONE],
     down |-> [p \in Pid |-> nil], stack |-> [p \in Pid |-> NONE],
     id |-> [p \in Pid |-> CHOOSE i \in Ident : TRUE],
     mem |-> [l \in Level |-> Undefined],
     path |-> <<>>, highest_group |-> 0, deadlock |-> 0, abort |-> ""]

Depth(k) == Len(k.path)

(* *group->active of the group of level l; nil is the main program. *)
ActiveAt(k, l) == IF l = 0 THEN nil ELSE k.procs[k.path[l]][k.active[k.path[l]]]
Current(k) == ActiveAt(k, Depth(k))

Live(k) == UNION {ToSet(k.procs[g]) : g \in Gid}
FreeProcs(k) == Pid \ Live(k)
FreeGroups(k) == {g \in Gid : k.procs[g] = <<>>}

(* From g down to a leaf, by the process at position at[x] of group x.     *)
Down(k, at, g) ==
    LET below[x \in Gid \cup {nil}] ==
            IF x = nil THEN <<>> ELSE <<x>> \o below[k.down[k.procs[x][at[x]]]]
    IN  below[g]
-----------------------------------------------------------------------------
(* parco.c *)

(* own: there are variables between the s_brk of the group above and that  *)
(* of the new one.  The piece below the outermost group is never saved.    *)
init_between(k, own) == IF k.path = <<>> \/ ~own THEN NONE ELSE k.mem[Depth(k)]

pc_begin(k, own, i) ==
    LET g == Min(FreeGroups(k))
        p == Min(FreeProcs(k))
        parent == Current(k)
    IN  [k EXCEPT !.procs[g] = <<p>>, !.active[g] = 1,
                  !.down = [q \in Pid |-> CASE q = p -> nil [] q = parent -> g [] OTHER -> @[q]],
                  !.id[p] = i,
                  !.between[g] = init_between(k, own),
                  !.path = Append(@, g)]

PcForkNoAdvance(k, i) ==
    LET p == Min(FreeProcs(k))
        g == Last(k.path)
    IN  [k EXCEPT !.procs[g] = InsertAt(@, k.active[g], p),
                  !.down[p] = nil, !.id[p] = i,
                  !.stack[p] = k.mem[Depth(k)]]

(* The new process comes before the current one, which goes on running.    *)
pc_fork(k, i) ==
    LET p == Min(FreeProcs(k))
        g == Last(k.path)
    IN  [k EXCEPT !.procs[g] = InsertAt(@, k.active[g], p), !.active[g] = @ + 1,
                  !.down[p] = nil, !.id[p] = i,
                  !.stack[p] = k.mem[Depth(k)]]

(* The groups of the levels above l are left. *)
save_between(k, l) ==
    [k EXCEPT !.between = [g \in Gid |->
        IF @[g] # NONE /\ \E j \in l + 1..Depth(k) : k.path[j] = g
        THEN k.mem[(CHOOSE j \in l + 1..Depth(k) : k.path[j] = g) - 1] ELSE @[g]]]

LoadBetweensNone(k) == k

(* From the current group up to highest_group, that one excluded. *)
load_betweens(k) ==
    [k EXCEPT !.mem = [l \in Level |->
        IF l \in k.highest_group..Depth(k) - 1 /\ k.between[k.path[l + 1]] # NONE
        THEN k.between[k.path[l + 1]] ELSE @[l]]]

(* What is above the top of the stack is of no importance.                 *)
Cleared(k) == [k EXCEPT !.mem = [l \in Level |-> IF l > Depth(k) THEN Undefined ELSE @[l]]]

(* top_load() of the current process, and what it does when top_save()     *)
(* returns 0 in it: free its copy and load_betweens().                     *)
top_load(k) ==
    LET p == Current(k)
    IN  Cleared(load_betweens([k EXCEPT !.mem[Depth(k)] = k.stack[p], !.stack[p] = NONE]))

top_save(k) == [k EXCEPT !.stack[Current(k)] = k.mem[Depth(k)]]
-----------------------------------------------------------------------------
(* par.c *)

(* Another round, or DEADLOCK() if that was one in which nobody called     *)
(* anything.                                                               *)
Round(k) == [k EXCEPT !.deadlock = @ + 1, !.abort = IF k.deadlock + 1 > 1 THEN "DEADLOCK" ELSE @]

(* Goes up while there is no process left in the group, and then down to a *)
(* leaf, always taking the first process.                                  *)
search_next(k) ==
    LET n == Depth(k)
        at(l) == IF l = n THEN k.active[k.path[l]] ELSE k.active[k.path[l]] + 1
        left == {l \in 1..n : at(l) <= Len(k.procs[k.path[l]])}
        top == IF left = {} THEN 1 ELSE Max(left)
        group == k.path[top]
        link == IF left = {} THEN 1 ELSE at(top)
        k1 == IF left = {} THEN Round(save_between(k, top)) ELSE save_between(k, top)
        down == Down(k, [g \in Gid |-> 1], k.down[k.procs[group][link]])
        active == [g \in Gid |->
                     CASE g = group -> link
                       [] g \in ToSet(down) -> 1
                       [] g \in ToSet(SubSeq(k.path, top + 1, n)) -> Len(k.procs[g]) + 1
                       [] OTHER -> k.active[g]]
    IN  IF k1.abort # "" THEN k1
        ELSE top_load([k1 EXCEPT !.active = active, !.highest_group = top,
                                 !.path = SubSeq(@, 1, top) \o down])

ResumenextSame(k) == IF k.path = <<>> THEN Round(k) ELSE search_next(top_save(k))

resumenext(k) ==
    IF k.path = <<>> THEN Round(k)
    ELSE search_next([top_save(k) EXCEPT !.active[Last(k.path)] = @ + 1])

(* Also the end of coend(): the process that set up the group goes on.     *)
LeaveGroup(k) ==
    LET g == Last(k.path)
        parent == ActiveAt(k, Depth(k) - 1)
    IN  Cleared([k EXCEPT !.procs[g] = <<>>, !.active[g] = 1, !.between[g] = NONE,
                          !.path = Front(@),
                          !.down = [p \in Pid |-> IF p = parent THEN nil ELSE @[p]]])

parend(k) ==
    LET g == Last(k.path)
        k1 == [k EXCEPT !.procs[g] = RemoveAt(@, k.active[g])]
    IN  IF k1.procs[g] = <<>> THEN LeaveGroup(k1)
        ELSE search_next([k1 EXCEPT !.deadlock = 0])
-----------------------------------------------------------------------------
(* co.c *)

(* The innermost group with a process i, its first such process, and from  *)
(* there down to the process that ran last.                                *)
search(k, i) ==
    LET found == {l \in 1..Depth(k) : \E p \in ToSet(k.procs[k.path[l]]) : k.id[p] = i}
        top == Max(found)
        list == k.procs[k.path[top]]
        link == Min({j \in DOMAIN list : k.id[list[j]] = i})
        down == Down(k, k.active, k.down[list[link]])
    IN  IF found = {} THEN [k EXCEPT !.abort = "RESUMERR"]
        ELSE top_load([save_between(k, top) EXCEPT !.active[k.path[top]] = link,
                                                   !.highest_group = top,
                                                   !.path = SubSeq(@, 1, top) \o down])

resume(k, i) ==
    IF k.path = <<>> THEN [k EXCEPT !.abort = "RESUMERR"] ELSE search(top_save(k), i)

(* The groups of delete_group(): g and those under its processes. *)
Subtree(k, g) ==
    LET tree[x \in Gid \cup {nil}] ==
            IF x = nil THEN {} ELSE {x} \cup UNION {tree[k.down[p]] : p \in ToSet(k.procs[x])}
    IN  tree[g]

coend(k) ==
    LET gone == Subtree(k, Last(k.path))
        dead == UNION {ToSet(k.procs[g]) : g \in gone}
    IN  LeaveGroup([k EXCEPT !.procs = [g \in Gid |-> IF g \in gone THEN <<>> ELSE @[g]],
                             !.active = [g \in Gid |-> IF g \in gone THEN 1 ELSE @[g]],
                             !.between = [g \in Gid |-> IF g \in gone THEN NONE ELSE @[g]],
                             !.stack = [p \in Pid |-> IF p \in dead THEN NONE ELSE @[p]],
                             !.down = [p \in Pid |-> IF p \in dead THEN nil ELSE @[p]]])
=============================================================================
