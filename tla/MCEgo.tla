------------------------------- MODULE MCEgo -------------------------------
(* Ego with its constants given values for TLC. *)
EXTENDS Ego, TLC

CONSTANTS x, y,
          Kinds, MaxLen,          \* statements, and how many a procedure has
          LongKinds, LongLen      \* and those of longer procedures

(* The statements, k being the value they make. *)
Statement(kind, v, w, k) ==
    CASE kind = "set"   -> <<[op |-> "loc", k |-> k], [op |-> "stl", v |-> v]>>
      [] kind = "call"  -> <<[op |-> "lfr", k |-> k], [op |-> "stl", v |-> v]>>
      [] kind = "zero"  -> <<[op |-> "zrl", v |-> v]>>
      [] kind = "inc"   -> <<[op |-> "inl", v |-> v, k |-> k]>>
      [] kind = "use"   -> <<[op |-> "lol", v |-> v], [op |-> "pop"]>>
      [] kind = "copy"  -> <<[op |-> "lol", v |-> w], [op |-> "stl", v |-> v]>>
      [] kind = "comma" -> <<[op |-> "lol", v |-> w], [op |-> "zrl", v |-> v], [op |-> "pop"]>>

MCVar == {x, y}

Lab == <<[op |-> "lab"]>>
Jump(op, to) == <<[op |-> op, to |-> to]>>
Ret == <<[op |-> "ret"]>>

(* Flow graphs: the last lines of the blocks. *)
Shapes ==
  { <<Jump("beq", {3}), Ret, Ret>>,                          \* two ends
    <<<<>>, Jump("beq", {2}), Ret>>,                         \* a loop with a header
    <<Jump("beq", {3}), Jump("bra", {4}), <<>>, Ret>>,       \* if, else
    <<<<>>, Jump("beq", {4}), Jump("bra", {2}), Ret>>,       \* a while loop
    <<<<>>, <<>>, Jump("beq", {3}), Jump("beq", {2}), Ret>> } \* a loop in a loop

(* No jumps at all. *)
Straight == { <<<<>>, Ret>> }

(* All flow graphs of four blocks, and a loop of three blocks. *)
Ends(b) == {Ret} \cup {Jump("bra", {to}) : to \in 2..4}
           \cup (IF b = 4 THEN {} ELSE {<<>>} \cup {Jump("beq", {to}) : to \in 2..4})
Graphs == {<<a, b, c, d>> : a \in Ends(1), b \in Ends(2), c \in Ends(3), d \in Ends(4)}
          \cup {<<<<>>, Jump("beq", {5}), <<>>, Jump("bra", {2}), Ret>>}

(* Procedures whose last block jumps back. *)
EndlessShapes == { <<<<>>, Jump("bra", {2})>> }

Other(v) == CHOOSE w \in MCVar : w # v
Lines(body, b) == FlattenSeq([i \in DOMAIN body |->
                      Statement(body[i][1], body[i][2], Other(body[i][2]), 10 * b + i)])

(* All ways to spread at most len statements over the blocks b..n: the lines *)
(* of each block.                                                            *)
RECURSIVE Spread(_, _, _, _)
Spread(b, n, kinds, len) ==
    IF b > n THEN {<<>>}
    ELSE UNION {{<<lines>> \o rest :
                    lines \in {Lines(body, b) : body \in [1..m -> kinds \X MCVar]},
                    rest \in Spread(b + 1, n, kinds, len - m)} : m \in 0..len}

Made(shape, lines) ==
    [b \in DOMAIN shape |-> (IF b = 1 THEN <<[op |-> "pro"]>> ELSE Lab)
                             \o lines[b] \o shape[b]]

Filled(shapes, kinds, len) ==
    UNION {{Made(shape, lines) : lines \in Spread(1, Len(shape), kinds, len)} : shape \in shapes}

(* Does the procedure use both variables? *)
UsesBoth(c) ==
    \A v \in MCVar : \E b \in DOMAIN c : [op |-> "lol", v |-> v] \in ToSet(c[b])

(* A use that is removed, of a variable that is assigned in the same block  *)
(* and live past it.                                                        *)
RemovedUse == Made(<<Jump("beq", {3}), <<>>, Ret>>,
                   <<Lines(<<<<"call", y>>, <<"use", y>>>>, 1),
                     Lines(<<<<"copy", y>>, <<"call", x>>>>, 2), Lines(<<<<"use", x>>>>, 3)>>)

MCProcedures ==
    [code : Filled(Shapes, Kinds, MaxLen) \cup Filled(Graphs, {}, 0)
            \cup {c \in Filled(Shapes, LongKinds, LongLen) \cup Filled(Straight, LongKinds, LongLen + 1) :
                       UsesBoth(c)}
            \cup {RemovedUse},
     params : {{x}}]
    \cup [code : {c \in Filled(Straight, LongKinds, LongLen + 1) : UsesBoth(c)}, params : {MCVar}]

MCEndless == [code : Filled(EndlessShapes, Kinds, MaxLen), params : {{x}}]
=============================================================================
