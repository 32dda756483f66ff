------------------------------ MODULE MCX86emu ------------------------------
(***************************************************************************)
(* Words of a few bits.  The routines for two-word numbers run on words of *)
(* W bits, for all first operands and the second operands in Y.  The       *)
(* probes run for all operands: the sums on words of SumW bits so that bit *)
(* 3 is not the last one, the shifts on words of SumW bits so that there   *)
(* are counts above the width of an int, the decimal ones on bytes of 8    *)
(* bits.                                                                   *)
(***************************************************************************)
EXTENDS X86emu

CONSTANTS W, Y, SumW, Bcd

Job(codes, w, sizes, xs, ys, fs) ==
    [code : codes, w : {w}, z : sizes, x : xs, y : ys, f : fs]

Word(w) == 0..(2^w - 1)

NoFlag == {{}}
AnyCarry == {{}, {"CF"}}

Routines ==
    Job(DOMAIN Library \ {"sli4", "sri4", "sru4"}, W, {"word"}, Word(2 * W), Y, {{"CF"}})
    \cup Job({"sli4", "sri4", "sru4"}, W, {"word"}, Word(2 * W), 0..(2 * W - 1), AnyCarry)

Probes ==
    Job(Sums, SumW, {"word", "long"}, Word(SumW), Word(SumW), AnyCarry)
    \cup Job({"inc", "dec", "neg"}, SumW, {"word"}, Word(SumW), {0}, AnyCarry)
    \cup Job({"not"} \cup Logicals, W, {"word"}, Word(W), Word(W), AnyCarry)
    \cup Job(Shifts, SumW, Size, Word(SumW), 0..(4 * SumW + 3), AnyCarry)
    \cup Job(Doubles, W, {"word", "long"}, Word(2 * W), Word(W), NoFlag)

Multiplications == Job({"mul", "imul"}, W, Size, Word(W), Word(W), NoFlag)

Divisions == Job({"div", "idiv"}, W, Size, Word(2 * W), Word(W), NoFlag)

Packed == {16 * h + l : h, l \in Bcd}
Digit == 0..9

Decimals ==
    Job({"daa", "das"}, 8, {"byte"}, Packed, Packed, AnyCarry)
    \cup Job({"aaa", "aam"}, 8, {"byte"}, Digit, Digit, NoFlag)
    \cup Job({"aas", "aad"}, 8, {"byte"}, {256 * h + l : h \in 1..9, l \in Digit}, 1..9, NoFlag)

MCJobs == Routines \cup Probes \cup Multiplications \cup Divisions \cup Decimals
=============================================================================
