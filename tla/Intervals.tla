----------------------------- MODULE Intervals -----------------------------
(***************************************************************************)
(* The intervals of the register allocation, util/ego/ra/ra_interv.c.  A   *)
(* list of intervals is a sequence of pairs <<start, stop>> of instruction *)
(* numbers, in chronological order.  An interval may be empty, with its    *)
(* stop one below its start: that is how an assignment to a dead variable  *)
(* is recorded.                                                            *)
(***************************************************************************)
EXTENDS Integers, SequencesExt

(* (t1,t2) belongs behind the n intervals that do not start after t2; it is *)
(* joined with the interval before it, the one after it, or both.           *)
add_interval(t1, t2, list) ==
    LET later == SelectInSeq(list, LAMBDA x : t2 < x[1])
        n == IF later = 0 THEN Len(list) ELSE later - 1
        joinsLeft == n > 0 /\ t1 = list[n][2] + 1
        joinsRight == n < Len(list) /\ t2 + 1 = list[n + 1][1]
        start == IF joinsLeft THEN list[n][1] ELSE t1
        stop == IF joinsRight THEN list[n + 1][2] ELSE t2
    IN  SubSeq(list, 1, IF joinsLeft THEN n - 1 ELSE n)
        \o <<<<start, stop>>>>
        \o SubSeq(list, IF joinsRight THEN n + 2 ELSE n + 1, Len(list))

(* The list whose first interval starts first, pmin, and the other, pmax.  *)
Pmin(l1, l2) == IF Head(l1)[1] < Head(l2)[1] THEN l1 ELSE l2
Pmax(l1, l2) == IF Head(l1)[1] < Head(l2)[1] THEN l2 ELSE l1

RECURSIVE Intersection(_, _, _)
Intersection(l1, l2, lt) ==
    IF l1 = <<>> \/ l2 = <<>> THEN lt
    ELSE LET pmin == Pmin(l1, l2)
             pmax == Pmax(l1, l2)
             start == Head(pmax)[1]
             minStop == Head(pmin)[2]
             maxStop == Head(pmax)[2]
         IN  IF start > minStop THEN Intersection(Tail(pmin), pmax, lt)
             ELSE IF maxStop < minStop
                  THEN Intersection(pmin, Tail(pmax), add_interval(start, maxStop, lt))
             ELSE Intersection(Tail(pmin), IF maxStop = minStop THEN Tail(pmax) ELSE pmax,
                               add_interval(start, minStop, lt))

intersect(list1, list2) == Intersection(list1, list2, <<>>)

RECURSIVE not_disjoint(_, _)
not_disjoint(list1, list2) ==
    /\ list1 # <<>> /\ list2 # <<>>
    /\ LET pmin == Pmin(list1, list2)
           pmax == Pmax(list1, list2)
       IN  Head(pmax)[1] <= Head(pmin)[2] \/ not_disjoint(Tail(pmin), pmax)

(* The first interval that does not stop before t decides. *)
contains(t, timespan) ==
    LET i == SelectInSeq(timespan, LAMBDA x : t <= x[2])
    IN  i # 0 /\ t >= timespan[i][1]
=============================================================================
