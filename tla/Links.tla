------------------------------- MODULE Links -------------------------------
(***************************************************************************)
(* Lists of records that are linked through a field, as most of the        *)
(* libraries keep them: nx is that field of all records, nil ends a list.  *)
(***************************************************************************)
EXTENDS Naturals, Sequences

(* The list that starts at first, or as much of it as n steps reach. *)
Walk(first, nx, nil, n) ==
    LET w[k \in 0..n] ==
            [x \in DOMAIN nx \cup {nil} |->
                IF k = 0 \/ x = nil THEN <<>> ELSE <<x>> \o w[k - 1][nx[x]]]
    IN  w[n][first]
=============================================================================
