------------------------------ MODULE EMArith ------------------------------
(***************************************************************************)
(* The integer arithmetic of the EM machine as the EM interpreter executes *)
(* it (util/int/do_intar.c, do_unsar.c, do_comp.c), on operands of n bits  *)
(* given as naturals below 2^n: what a translation of EM to a real machine *)
(* has to compute.  The interpreter's overflow checks are off, as they are *)
(* unless it is asked to test.  A division by zero traps.                  *)
(***************************************************************************)
EXTENDS Integers

EIDIVZ == "EIDIVZ"

signed(n, v) == IF v >= 2^(n - 1) THEN v - 2^n ELSE v

npush(n, v) == [trap |-> FALSE, v |-> v % 2^n]

trap(t) == [trap |-> TRUE, v |-> t]

(* C's division truncates; the remainder has the sign of the dividend *)
Truncated(a, b) == IF (a < 0) = (b < 0) THEN a \div b ELSE -((-a) \div b)

Adi(n, w1, w2) == npush(n, w1 + w2)

Sbi(n, w1, w2) == npush(n, w1 - w2)

Ngi(n, w1, w2) == npush(n, -w1)

Mli(n, w1, w2) == npush(n, w1 * w2)

Dvi(n, w1, w2) ==
    IF w2 = 0 THEN trap(EIDIVZ) ELSE npush(n, Truncated(signed(n, w1), signed(n, w2)))

Rmi(n, w1, w2) ==
    LET a == signed(n, w1)
        b == signed(n, w2)
    IN  IF w2 = 0 THEN trap(EIDIVZ) ELSE npush(n, a - b * Truncated(a, b))

Dvu(n, w1, w2) == IF w2 = 0 THEN trap(EIDIVZ) ELSE npush(n, w1 \div w2)

Rmu(n, w1, w2) == IF w2 = 0 THEN trap(EIDIVZ) ELSE npush(n, w1 % w2)

Sli(n, w1, w2) == npush(n, w1 * 2^w2)

Sri(n, w1, w2) == npush(n, signed(n, w1) \div 2^w2)

Sru(n, w1, w2) == npush(n, w1 \div 2^w2)

Compared(n, s, t) == npush(n, IF t < s THEN 1 ELSE IF t > s THEN -1 ELSE 0)

DoCMI(n, w1, w2) == Compared(n, signed(n, w1), signed(n, w2))

DoCMU(n, w1, w2) == Compared(n, w1, w2)
=============================================================================
