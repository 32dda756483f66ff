------------------------------- MODULE X86emu -------------------------------
(***************************************************************************)
(* The emulator's processor running a piece of 8086 code: the main loop of *)
(* plat/pc86/emu/x86emu/decode.c, the handlers of ops.c for the            *)
(* instructions that ACK's 4-byte arithmetic uses, and the arithmetic of   *)
(* prim_ops.c below them.                                                  *)
(*                                                                         *)
(* A job is a piece of code with its operands: either one of the routines  *)
(* of LibEm, or a probe of one or two instructions.  The operand x is in   *)
(* dx:ax and on the stack, y in bx, cx and on the stack.  In a probe of    *)
(* byte size, ax and dx stand for AL and AH.                               *)
(***************************************************************************)
EXTENDS PrimOps, EMArith, LibEm

CONSTANT Jobs       \* records with fields code, w, z, x, y and f

VARIABLES job, m, f, ip, intr, exited
vars == <<job, m, f, ip, intr, exited>>

Loc == {"ax", "bx", "cx", "dx", "di", "st", "xl", "xh", "yl", "yh"}

Library ==
    [adi4 |-> adi4, sbi4 |-> sbi4, ngi4 |-> ngi4, mli4 |-> mli4, sli4 |-> sli4, sri4 |-> sri4,
     sru4 |-> sru4, dvi4 |-> dvi4, rmi4 |-> rmi4, dvu4 |-> dvu4, rmu4 |-> rmu4,
     cmi4 |-> cmi4, cmu4 |-> cmu4]

Sums == {"add", "adc", "sub", "sbb", "cmp"}
Steps == {"inc", "dec", "neg", "not"}
Logicals == {"and", "or", "xor", "test"}
Shifts == {"rcl", "rcr", "rol", "ror", "shl", "shr", "sar"}
Doubles == {"shld", "shrd"}
Products == {"mul", "imul", "div", "idiv"}
Adjusts == {"aaa", "aas", "aad", "aam", "daa", "das"}

(* The probes: an instruction on ax, or a decimal sum and its adjustment *)
Probe ==
    [op \in Sums \cup Logicals |-> << <<op, "ax", "bx">> >>]
    @@ [op \in Steps |-> << <<op, "ax">> >>]
    @@ [op \in Shifts |-> << <<op, "ax", "cx">> >>]
    @@ [op \in Doubles |-> << <<op, "ax", "dx", "cx">> >>]
    @@ [op \in Products |-> << <<op, "bx">> >>]
    @@ [daa |-> << <<"adc", "ax", "bx">>, <<"daa">> >>, das |-> << <<"sbb", "ax", "bx">>, <<"das">> >>,
        aaa |-> << <<"add", "ax", "bx">>, <<"aaa">> >>, aas |-> << <<"sub", "ax", "bx">>, <<"aas">> >>,
        aam |-> << <<"mul", "bx">>, <<"aam">> >>, aad |-> << <<"aad">>, <<"div", "bx">> >>]

Code == Library @@ Probe

Init ==
    /\ job \in Jobs
    /\ LET w == job.w IN
       m = [ax |-> Low(job.x, w), dx |-> Right(job.x, w), bx |-> Low(job.y, w), cx |-> Low(job.y, w),
            di |-> 0, st |-> 0, xl |-> Low(job.x, w), xh |-> Right(job.x, w),
            yl |-> Low(job.y, w), yh |-> Right(job.y, w)]
    /\ f = job.f
    /\ ip = 1
    /\ intr = FALSE
    /\ exited = FALSE

(* Registers, words in memory and immediate operands *)
Operand(o) ==
    CASE o \in Loc -> m[o]
      [] o = "0"   -> 0
      [] o = "1"   -> 1
      [] o = "-1"  -> 2^job.w - 1
      [] o = "16"  -> job.w

Fetched == Code[job.code][ip]

Running == ~intr /\ ~exited /\ ip <= Len(Code[job.code])

Goto(label) == ip' = CHOOSE i \in DOMAIN Code[job.code] : Code[job.code][i] = <<label>>

Leaves(r) == m' = [m EXCEPT ![Fetched[2]] = r.v] /\ f' = r.f

LeavesPair(r) ==
    /\ m' = [m EXCEPT !.ax = r.lo, !.dx = r.hi]
    /\ f' = r.f
    /\ intr' = r.intr

(* The handlers of the instructions that leave a value in their operand;   *)
(* ub is what the host makes of a shift that C leaves undefined            *)
Operation ==
    /\ Running
    /\ \E ub \in BOOLEAN :
       LET op == Fetched[1]
           w  == job.w
           z  == job.z
           d  == Operand(Fetched[2])
           s  == Operand(Fetched[3])
       IN  \/ op = "adc" /\ Leaves(adc(w, z, d, s, f))
           \/ op = "add" /\ Leaves(add(w, z, d, s, f))
           \/ op = "sbb" /\ Leaves(sbb(w, d, s, f))
           \/ op = "sub" /\ Leaves(sub(w, d, s, f))
           \/ op = "cmp" /\ Leaves(cmp(w, d, s, f))
           \/ op = "and" /\ Leaves(and(w, d, s, f))
           \/ op = "or" /\ Leaves(or(w, d, s, f))
           \/ op = "xor" /\ Leaves(xor(w, d, s, f))
           \/ op = "test" /\ Leaves(test(w, d, s, f))
           \/ op = "inc" /\ Leaves(inc(w, d, f))
           \/ op = "dec" /\ Leaves(dec(w, d, f))
           \/ op = "neg" /\ Leaves(neg(w, d, f))
           \/ op = "not" /\ Leaves(not(w, d, f))
           \/ op = "rcl" /\ Leaves(rcl(w, z, d, s, ub, f))
           \/ op = "rcr" /\ Leaves(rcr(w, d, s, f))
           \/ op = "rol" /\ Leaves(rol(w, d, s, f))
           \/ op = "ror" /\ Leaves(ror(w, d, s, f))
           \/ op = "shl" /\ Leaves(shl(w, z, d, s, ub, f))
           \/ op = "shr" /\ Leaves(shr(w, z, d, s, ub, f))
           \/ op = "sar" /\ Leaves(sar(w, d, s, f))
           \/ op = "shld" /\ Leaves(shld(w, z, d, s, Operand(Fetched[4]), ub, f))
           \/ op = "shrd" /\ Leaves(shrd(w, d, s, Operand(Fetched[4]), f))
    /\ ip' = ip + 1
    /\ UNCHANGED <<job, intr, exited>>

(* The handlers of the instructions on DX:AX, and of the adjustments; ub   *)
(* as above, for abs                                                       *)
PairOperation ==
    /\ Running
    /\ \E ub \in BOOLEAN :
       LET op == Fetched[1]
           w  == job.w
           z  == job.z
           s  == Operand(Fetched[2])
           Byte(r) == Pair(m.dx, r.v, r.f)
       IN  \/ op = "mul" /\ LeavesPair(mul(w, z, m.dx, m.ax, s, f))
           \/ op = "imul" /\ LeavesPair(imul(w, z, m.dx, m.ax, s, f))
           \/ op = "div" /\ LeavesPair(div(w, z, m.dx, m.ax, s, ub, f))
           \/ op = "idiv" /\ LeavesPair(idiv(w, z, m.dx, m.ax, s, ub, f))
           \/ op = "aaa" /\ LeavesPair(aaa(m.dx, m.ax, f))
           \/ op = "aas" /\ LeavesPair(aas(m.dx, m.ax, f))
           \/ op = "aad" /\ LeavesPair(aad(m.dx, m.ax, f))
           \/ op = "aam" /\ LeavesPair(aam(m.ax, f))
           \/ op = "daa" /\ LeavesPair(Byte(daa(m.ax, f)))
           \/ op = "das" /\ LeavesPair(Byte(das(m.ax, f)))
    /\ ip' = ip + 1
    /\ UNCHANGED <<job, exited>>

(* mov, xchg and cwd; a label is no instruction at all *)
Move ==
    /\ Running
    /\ \/ Fetched[1] = "mov" /\ m' = [m EXCEPT ![Fetched[2]] = Operand(Fetched[3])]
       \/ /\ Fetched[1] = "xchg"
          /\ m' = [m EXCEPT ![Fetched[2]] = m[Fetched[3]], ![Fetched[3]] = m[Fetched[2]]]
       \/ /\ Fetched[1] = "cwd"
          /\ m' = [m EXCEPT !.dx = IF Bit(m.ax, job.w - 1) THEN 2^job.w - 1 ELSE 0]
       \/ Len(Fetched) = 1 /\ Fetched[1] \notin {"cwd"} \cup Adjusts /\ m' = m
    /\ ip' = ip + 1
    /\ UNCHANGED <<job, f, intr, exited>>

(* The conditional jumps *)
Condition ==
    [ja  |-> f \cap {"CF", "ZF"} = {},
     jb  |-> "CF" \in f,
     jbe |-> f \cap {"CF", "ZF"} # {},
     je  |-> "ZF" \in f,
     jne |-> "ZF" \notin f,
     jl  |-> ("SF" \in f) # ("OF" \in f),
     jge |-> ("SF" \in f) = ("OF" \in f),
     jg  |-> "ZF" \notin f /\ ("SF" \in f) = ("OF" \in f)]

Jump ==
    /\ Running
    /\ \/ Fetched[1] = "jmp" /\ Goto(Fetched[2])
       \/ Fetched[1] = "jcxz" /\ IF m.cx = 0 THEN Goto(Fetched[2]) ELSE ip' = ip + 1
       \/ /\ Fetched[1] \in DOMAIN Condition
          /\ IF Condition[Fetched[1]] THEN Goto(Fetched[2]) ELSE ip' = ip + 1
    /\ UNCHANGED <<job, m, f, intr, exited>>

(* A slip: the count is not written back. *)
LoopKeepsCx ==
    /\ Running
    /\ Fetched[1] = "loop"
    /\ IF m.cx - 1 # 0 THEN Goto(Fetched[2]) ELSE ip' = ip + 1
    /\ UNCHANGED <<job, m, f, intr, exited>>

Loop ==
    /\ Running
    /\ Fetched[1] = "loop"
    /\ m' = [m EXCEPT !.cx = (@ - 1) % 2^job.w]
    /\ IF m'.cx # 0 THEN Goto(Fetched[2]) ELSE ip' = ip + 1
    /\ UNCHANGED <<job, f, intr, exited>>

(* Interrupt 0 is handled before the next instruction: pc86emu's handler   *)
(* for it is unknown_interrupt_cb, which exits.                            *)
x86emu_intr_handle ==
    /\ intr
    /\ ~exited
    /\ exited' = TRUE
    /\ UNCHANGED <<job, m, f, ip, intr>>

Next == Operation \/ PairOperation \/ Move \/ Jump \/ Loop \/ x86emu_intr_handle

(* X86EMU_exec is a loop: while there is an instruction or an interrupt, a *)
(* step is taken (weak fairness of Next, written out)                      *)
Busy == Running \/ (intr /\ ~exited)

Spec == Init /\ [][Next]_vars /\ ([]<>~Busy \/ []<><<TRUE>>_vars)

-----------------------------------------------------------------------------
Done == ip > Len(Code[job.code]) /\ ~intr

(* Every register and every word in memory holds a word of the job's width *)
(* whatever the instructions shift and add (the casts of prim_ops.c).      *)
TypeOK ==
    /\ m \in [Loc -> 0..(2^job.w - 1)]
    /\ f \subseteq Flag
    /\ ip \in 1..(Len(Code[job.code]) + 1)
    /\ intr \in BOOLEAN /\ exited \in BOOLEAN

(* What the EM machine makes of the operands of a routine *)
EMResult ==
    LET n == 2 * job.w
        x == job.x
        y == job.y
    IN  CASE job.code = "adi4" -> Adi(n, x, y)
          [] job.code = "sbi4" -> Sbi(n, x, y)
          [] job.code = "ngi4" -> Ngi(n, x, y)
          [] job.code = "mli4" -> Mli(n, x, y)
          [] job.code = "sli4" -> Sli(n, x, y)
          [] job.code = "sri4" -> Sri(n, x, y)
          [] job.code = "sru4" -> Sru(n, x, y)
          [] job.code = "dvi4" -> Dvi(n, x, y)
          [] job.code = "rmi4" -> Rmi(n, x, y)
          [] job.code = "dvu4" -> Dvu(n, x, y)
          [] job.code = "rmu4" -> Rmu(n, x, y)
          [] job.code = "cmi4" -> DoCMI(n, x, y)
          [] job.code = "cmu4" -> DoCMU(n, x, y)

(* The code ACK generates for a 4-byte operation leaves in dx:ax (for a    *)
(* comparison, in ax) what the EM interpreter computes for it, and the     *)
(* processor raises its divide error only where EM traps, however the code *)
(* goes about it: a division of words or the loop over the bits, the sign  *)
(* taken off and put back, the carries between the words.                  *)
LongArithmetic ==
    job.code \in DOMAIN Library =>
        /\ Done /\ job.code \notin {"cmi4", "cmu4"} =>
             ~EMResult.trap /\ m.dx * 2^job.w + m.ax = EMResult.v
        /\ Done /\ job.code \in {"cmi4", "cmu4"} => m.ax = Low(EMResult.v, job.w)
        /\ intr => EMResult.trap

(* Additions and subtractions leave the sum and flags that say what the    *)
(* arithmetic on numbers says, although the functions derive CF, OF and AF *)
(* from a chain of carries they reconstruct from the operands and the      *)
(* result; inc and dec keep CF, on which adc and sbb in a loop depend.     *)
SumsExact ==
    Done /\ job.code \in Sums \cup {"inc", "dec", "neg"} =>
        LET w    == job.w
            op   == job.code
            a    == IF op = "neg" THEN 0 ELSE job.x
            b    == CASE op = "neg" -> job.x [] op \in {"inc", "dec"} -> 1 [] OTHER -> job.y
            c    == IF op \in {"adc", "sbb"} THEN Carry(job.f) ELSE 0
            Total(p, q) == IF op \in {"add", "adc", "inc"} THEN p + q + c ELSE p - q - c
            t    == Total(a, b)
        IN  /\ m.ax = IF op = "cmp" THEN a ELSE Low(t, w)
            /\ ("CF" \in f) = IF op \in {"inc", "dec"} THEN "CF" \in job.f ELSE t \notin 0..(2^w - 1)
            /\ ("OF" \in f) = (Total(Signed(w, a), Signed(w, b)) \notin -(2^(w - 1))..(2^(w - 1) - 1))
            /\ ("AF" \in f) = (Total(a % 16, b % 16) \notin 0..15)
            /\ ("ZF" \in f) = (Low(t, w) = 0)
            /\ ("SF" \in f) = Bit(Low(t, w), w - 1)

(* v, of k bits, turned r places to the left *)
Turned(k, v, r) == Left(k, v, r % k) + Right(v, k - (r % k))

(* A rotation by n, done in one go with masks, is n rotations by one bit   *)
(* of the ring (of which the carry is part for rcl and rcr), for every n;  *)
(* a shift is a multiplication or a division by 2^n whose last bit out is  *)
(* the carry; the double shifts take the bits that come in from the        *)
(* second operand.  Two cases are left out, whose shifts C does not        *)
(* define: rcl_long by 32 (prim_ops.c:983), and the carry of a shl by more *)
(* than the 32 bits of an int (prim_ops.c:1385, 1427, 1468).  Counts from  *)
(* the width on are not promised anything for sar, shld and shrd, nor the  *)
(* carry for shr.                                                          *)
ShiftsExact ==
    Done /\ job.code \in Shifts \cup Doubles =>
        LET w    == job.w
            op   == job.code
            d    == Low(job.x, w)
            fill == Right(job.x, w)
            s    == Low(job.y, w)
            cf   == "CF" \in f
            in   == d + Left(w + 1, Carry(job.f), w)
            out  == m.ax + Left(w + 1, Carry(f), w)
        IN  /\ op = "rcl" /\ ~(job.z = "long" /\ s % (w + 1) = w) => out = Turned(w + 1, in, s)
            /\ op = "rcr" => in = Turned(w + 1, out, s)
            /\ op = "rol" => m.ax = Turned(w, d, s) /\ (s # 0 => cf = Bit(m.ax, 0))
            /\ op = "ror" => d = Turned(w, m.ax, s) /\ (s # 0 => cf = Bit(m.ax, w - 1))
            /\ op = "shl" /\ s # 0 => m.ax = Left(w, d, s)
            /\ op = "shl" /\ s \in 1..IntBits(w, job.z) => out = Left(w + 1, d, s)
            /\ op = "shr" => m.ax = Right(d, s) /\ (s \in 1..(w - 1) => cf = Bit(d, s - 1))
            /\ s < w =>
                 /\ op = "sar" => Signed(w, m.ax) = Signed(w, d) \div 2^s
                 /\ op = "shld" => m.ax = Right(Left(2 * w, d * 2^w + fill, s), w)
                 /\ op = "shrd" => m.ax = Low(Right(fill * 2^w + d, s), w)
            /\ s \in 1..(w - 1) /\ op \in {"shl", "shr", "sar", "shld", "shrd"} =>
                 ("ZF" \in f) = (m.ax = 0) /\ ("SF" \in f) = Bit(m.ax, w - 1)

(* mul_long loses the carry of the sum of its cross products, which may    *)
(* need 33 bits (prim_ops.c:2317).                                         *)
CarryLost ==
    LET h  == job.w \div 2
        lo == Low(job.x, job.w)
        s  == Low(job.y, job.w)
    IN  /\ job.code = "mul" /\ job.z = "long"
        /\ Right(lo, h) * Low(s, h) + Low(lo, h) * Right(s, h) + Right(Low(lo, h) * Low(s, h), h)
             >= 2^job.w

(* A quotient is too large and the test does not see it: abs makes a       *)
(* quotient of div_word or idiv_word small or leaves it negative           *)
(* (prim_ops.c:2373, 2502), and 33 steps of div_long take one bit more     *)
(* than the quotient holds (prim_ops.c:2571).                              *)
QuotientUnseen ==
    LET w  == job.w
        s  == Low(job.y, w)
        sx == Signed(2 * w, job.x)
    IN  \/ /\ job.code = "div" /\ job.z = "word" /\ s = 1
           /\ job.x = 2^(2 * w - 1) \/ 2^(2 * w) - job.x < 2^w
        \/ /\ job.code = "idiv" /\ job.z = "word"
           /\ sx = -(2^(2 * w - 1)) /\ Signed(w, s) \in {1, -1}
        \/ /\ job.code = "div" /\ job.z = "long"
           /\ job.x \in (s * 2^w)..(s * 2^(w + 1))

(* idiv_long drops the sign bits of its operands and makes the sign of the *)
(* quotient from bits 28 (prim_ops.c:2411, 2412, 2448), and its 32 steps   *)
(* find quotients that need the sign bit (prim_ops.c:2443).                *)
SignsLost ==
    LET w  == job.w
        s  == Signed(w, Low(job.y, w))
        sx == Signed(2 * w, job.x)
    IN  /\ job.code = "idiv" /\ job.z = "long" /\ s # 0
        /\ \/ sx < 0 \/ s < 0
           \/ sx \div s \in 2^(w - 1)..2^w
           \/ Bit(Right(job.x, w), w - 4) # Bit(job.y, w - 4)

(* Products and quotients are those of the numbers, also where a long is   *)
(* multiplied by halves and divided bit by bit, and a division raises the  *)
(* divide error exactly when it is by zero or its quotient does not fit,   *)
(* for all operands but those of CarryLost, QuotientUnseen and SignsLost,  *)
(* which the functions get wrong.  Nothing is said of the carry of imul on *)
(* words and longs, whose high half is compared with 0xFF.                 *)
ProductsExact ==
    (Done \/ intr) /\ job.code \in Products =>
        LET w   == job.w
            op  == job.code
            lo  == Low(job.x, w)
            s   == Low(job.y, w)
            big == m.dx * 2^w + m.ax
            sq  == Quotient(Signed(2 * w, job.x), Signed(w, s))
        IN  \/ CarryLost \/ QuotientUnseen \/ SignsLost
            \/ /\ op = "mul" => big = lo * s /\ ("CF" \in f) = (lo * s >= 2^w)
               /\ op = "imul" => Signed(2 * w, big) = Signed(w, lo) * Signed(w, s)
               /\ op = "imul" /\ job.z = "byte" =>
                    ("CF" \in f) = (Signed(2 * w, big) \notin -(2^(w - 1))..(2^(w - 1) - 1))
               /\ op = "div" => intr = (s = 0 \/ job.x \div s >= 2^w)
               /\ op = "idiv" => intr = (s = 0 \/ sq \notin -(2^(w - 1) - 1)..(2^(w - 1) - 1))
               /\ op = "div" /\ ~intr => m.ax * s + m.dx = job.x /\ m.dx < s
               /\ op = "idiv" /\ ~intr =>
                    /\ Signed(w, m.ax) = sq
                    /\ Signed(w, m.dx) = Signed(2 * w, job.x) - sq * Signed(w, s)

Decimal(v) == 10 * (v \div 16) + (v % 16)

(* Decimal arithmetic: the adjustment after an addition or subtraction of  *)
(* two bytes of two digits makes their decimal sum or difference, with the *)
(* carry in CF, so that it can be continued; with digits in AH and AL,     *)
(* sum, difference, product and quotient come out as digits.               *)
DecimalExact ==
    Done /\ job.code \in Adjusts =>
        LET op     == job.code
            digits == 10 * m.dx + m.ax
            x      == 10 * Right(job.x, 8) + Low(job.x, 8)
            sum    == Decimal(job.x) + Decimal(job.y) + Carry(job.f)
            diff   == Decimal(job.x) - Decimal(job.y) - Carry(job.f)
        IN  /\ op = "daa" => Decimal(m.ax) = sum % 100 /\ ("CF" \in f) = (sum >= 100)
            /\ op = "das" => Decimal(m.ax) = diff % 100 /\ ("CF" \in f) = (diff < 0)
            /\ op \in {"aaa", "aas", "aam"} => m.ax \in 0..9
            /\ op = "aaa" => digits = x + job.y
            /\ op = "aas" => digits = x - job.y
            /\ op = "aam" => digits = x * job.y
            /\ op = "aad" => m.ax = x \div job.y /\ m.dx = x % job.y

(* Every instruction does what the arithmetic it stands for says, for all  *)
(* operands and flags but the cases that ShiftsExact and ProductsExact     *)
(* name, and leaves registers of their width.                              *)
InstructionsExact == TypeOK /\ SumsExact /\ ShiftsExact /\ ProductsExact /\ DecimalExact

(* Every routine returns, or ends in the divide error: the loops over the  *)
(* bits and over the shift count stop.                                     *)
Ends == <>(Done \/ exited)
=============================================================================
