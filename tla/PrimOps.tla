------------------------------ MODULE PrimOps ------------------------------
(***************************************************************************)
(* The arithmetic of the 8086 emulator ACK tests its pc86 code on          *)
(* (plat/pc86/emu/x86emu/prim_ops.c).                                      *)
(*                                                                         *)
(* A word is a natural number below 2^w; w stands for the 8, 16 or 32 bits *)
(* of the _byte, _word and _long functions, which are one operator here.   *)
(* Where the three differ in more than the width, the size z tells them    *)
(* apart.  f is the set of the flags that are set.  An operator returns    *)
(* the value of the function and the flags it leaves.                      *)
(*                                                                         *)
(* The int of the host is as wide as a long.  C leaves open what a shift   *)
(* by that width or more yields, and what becomes of the least int when    *)
(* its sign is changed: the parameter ub, which is TRUE or FALSE, says     *)
(* which of the two outcomes found on hosts it is.                         *)
(***************************************************************************)
EXTENDS Integers, FiniteSets, Bitwise, TLC

Flag == {"CF", "PF", "AF", "ZF", "SF", "OF"}

Size == {"byte", "word", "long"}

Bit(v, i) == (v \div 2^i) % 2 = 1

(* the low n bits of v, v >> n, and v << n in w bits *)
Low(v, n) == v % 2^n

Right(v, n) == v \div 2^n

Left(w, v, n) == (v * 2^n) % 2^w

(* the bits of an int, when the word of size z has w *)
IntBits(w, z) == CASE z = "byte" -> 4 * w [] z = "word" -> 2 * w [] z = "long" -> w

(* the count by which n shifts an int: the host takes the count modulo the *)
(* width of an int (ub), or shifts everything out                          *)
ShiftCount(w, z, n, ub) == IF ub /\ n >= IntBits(w, z) THEN n % IntBits(w, z) ELSE n

PARITY(v) == Cardinality({i \in 0..7 : Bit(v, i)}) % 2 = 0

Signed(w, v) == IF Bit(v, w - 1) THEN v - 2^w ELSE v

Carry(f) == IF "CF" \in f THEN 1 ELSE 0

(* CONDITIONAL_SET_FLAG for every flag in the domain of c *)
Put(f, c) == (f \ DOMAIN c) \cup {k \in DOMAIN c : c[k]}

SZP(w, r) == [SF |-> Bit(r, w - 1), ZF |-> Low(r, w) = 0, PF |-> PARITY(Low(r, w))]

(* cc = ab + r'(a + b), and bc = a'b + r(a' + b), as sets of bits *)
CarryChain(w, d, s, r) ==
    {i \in 0..(w - 1) : \/ Bit(d, i) /\ Bit(s, i)
                        \/ ~Bit(r, i) /\ (Bit(d, i) \/ Bit(s, i))}

BorrowChain(w, d, s, r) ==
    {i \in 0..(w - 1) : \/ Bit(r, i) /\ (~Bit(d, i) \/ Bit(s, i))
                        \/ ~Bit(d, i) /\ Bit(s, i)}

Chain(w, c) == [OF |-> (w - 1 \in c) # (w - 2 \in c), AF |-> 3 \in c]

Result(v, f) == [v |-> v, f |-> f]

-----------------------------------------------------------------------------
(* Addition and subtraction.  There is no bit above a long, so that its    *)
(* carry comes from the sum of the high halves.                            *)
adc(w, z, d, s, f) ==
    LET h   == w \div 2
        res == d + s + Carry(f)
        lo  == Low(d, h) + Low(s, h) + Carry(f)
        hi  == Right(lo, h) + Right(d, h) + Right(s, h)
        cf  == IF z = "long" THEN Bit(hi, w - h) ELSE Bit(res, w)
    IN  Result(Low(res, w),
               Put(f, SZP(w, res) @@ Chain(w, CarryChain(w, d, s, res)) @@ [CF |-> cf]))

add(w, z, d, s, f) == adc(w, z, d, s, f \ {"CF"})

sbb(w, d, s, f) ==
    LET res == (d - s - Carry(f)) % 2^w
        bc  == BorrowChain(w, d, s, res)
    IN  Result(res, Put(f, SZP(w, res) @@ Chain(w, bc) @@ [CF |-> w - 1 \in bc]))

sub(w, d, s, f) == sbb(w, d, s, f \ {"CF"})

cmp(w, d, s, f) == Result(d, sub(w, d, s, f).f)

KeepCarry(r, f) == Result(r.v, Put(r.f, [CF |-> "CF" \in f]))

inc(w, d, f) == KeepCarry(add(w, "word", d, 1, f), f)

dec(w, d, f) == KeepCarry(sub(w, d, 1, f), f)

neg(w, s, f) ==
    LET res == (-s) % 2^w
        bc  == {i \in 0..(w - 1) : Bit(res | s, i)}
    IN  Result(res, Put(f, SZP(w, res) @@ Chain(w, bc) @@ [CF |-> s # 0]))

not(w, s, f) == Result(2^w - 1 - s, f)

Logical(w, r, f) == Result(r, Put(f, SZP(w, r) @@ [OF |-> FALSE, CF |-> FALSE]))

(* AF is cleared, but for test, which leaves it. *)
and(w, d, s, f) == Logical(w, d & s, f \ {"AF"})

or(w, d, s, f) == Logical(w, d | s, f \ {"AF"})

xor(w, d, s, f) == Logical(w, d ^^ s, f \ {"AF"})

test(w, d, s, f) == Result(d, Logical(w, d & s, f).f)

-----------------------------------------------------------------------------
(* Rotations.  Those through the carry go round w + 1 bits; rcl_long by 32 *)
(* shifts by the width of an int.                                          *)
rcl(w, z, d, s, ub, f) ==
    LET cnt == s % (w + 1)
        cf  == Bit(d, w - cnt)
        res == Left(w, d, ShiftCount(w, z, cnt, ub)) | Low(Right(d, w + 1 - cnt), cnt - 1)
                 | Left(w, Carry(f), cnt - 1)
    IN  IF cnt = 0 THEN Result(d, f)
        ELSE Result(res, Put(f, [CF |-> cf, OF |-> cnt = 1 /\ cf # Bit(res, w - 1)]))

(* A slip: the rotation goes round w bits. *)
RcrWidth(w, d, s, f) ==
    LET cnt == s % w
        res == Right(d, cnt) | Left(w, d, w + 1 - cnt) | Left(w, Carry(f), w - cnt)
    IN  IF cnt = 0 THEN Result(d, f)
        ELSE Result(res, Put(f, [CF |-> Bit(d, cnt - 1)]))

rcr(w, d, s, f) ==
    LET cnt == s % (w + 1)
        res == Right(d, cnt) | Left(w, d, w + 1 - cnt) | Left(w, Carry(f), w - cnt)
        out == Put(f, [CF |-> Bit(d, cnt - 1)])
    IN  CASE cnt = 0 -> Result(d, f)
          [] cnt = 1 -> Result(res, Put(out, [OF |-> ("CF" \in f) # Bit(d, w - 1)]))
          [] OTHER   -> Result(res, out)

rol(w, d, s, f) ==
    LET cnt == s % w
        res == Left(w, d, cnt) | Right(d, w - cnt)
        out == Put(f, [CF |-> Bit(res, 0)])
    IN  CASE s = 0   -> Result(d, f)
          [] cnt = 0 -> Result(d, Put(f, [CF |-> Bit(d, 0)]))
          [] OTHER   -> Result(res, Put(out, [OF |-> s = 1 /\ Bit(res, 0) # Bit(res, w - 1)]))

ror(w, d, s, f) ==
    LET cnt == s % w
        res == Left(w, d, w - cnt) | Right(d, cnt)
        out == Put(f, [CF |-> Bit(res, w - 1)])
    IN  CASE s = 0   -> Result(d, f)
          [] cnt = 0 -> Result(d, Put(f, [CF |-> Bit(d, w - 1)]))
          [] OTHER   -> Result(res, Put(out, [OF |-> s = 1 /\ Bit(res, w - 2) # Bit(res, w - 1)]))

-----------------------------------------------------------------------------
(* Shifts; a plain one is a double one that fills with zeros. *)
shld(w, z, d, fill, s, ub, f) ==
    LET res == Left(w, d, s) | Right(fill, w - s)
        cf  == Bit(d, w - s)
    IN  CASE s = 0 -> Result(d, f \ {"OF"})
          [] s \in 1..(w - 1) ->
               Result(res, Put(f, SZP(w, res) @@ [CF |-> cf, OF |-> s = 1 /\ Bit(res, w - 1) # cf]))
          [] OTHER ->
               Result(0, Put(f, SZP(w, 0) @@ [CF |-> Bit(d * 2^ShiftCount(w, z, s - 1, ub), w - 1),
                                              OF |-> FALSE]))

shl(w, z, d, s, ub, f) == shld(w, z, d, 0, s, ub, f)

shrd(w, d, fill, s, f) ==
    LET res == Right(d, s) | Left(w, fill, w - s)
    IN  CASE s = 0 -> Result(d, f \ {"OF"})
          [] s \in 1..(w - 1) ->
               Result(res, Put(f, SZP(w, res) @@ [CF |-> Bit(d, s - 1),
                                 OF |-> s = 1 /\ Bit(res, w - 2) # Bit(res, w - 1)]))
          [] OTHER -> Result(0, (f \ {"CF", "OF", "SF", "PF"}) \cup {"ZF"})

shr(w, z, d, s, ub, f) ==
    IF z = "byte" /\ s >= w
    THEN Result(0, Put(f, SZP(w, 0) @@ [CF |-> Bit(d, ShiftCount(w, z, s - 1, ub)), OF |-> FALSE]))
    ELSE shrd(w, d, 0, s, f)

(* the count is taken modulo the width, so that the code for counts beyond *)
(* it is never reached                                                     *)
sar(w, d, s, f) ==
    LET cnt == s % w
        res == (Signed(w, d) \div 2^cnt) % 2^w
    IN  IF cnt = 0 THEN Result(d, f)
        ELSE Result(res, Put(f, SZP(w, res) @@ [CF |-> Bit(d, cnt - 1)]))

-----------------------------------------------------------------------------
(* Multiplication and division work on the pair hi:lo, that is AH:AL,      *)
(* DX:AX or EDX:EAX, and division may raise interrupt 0 instead.           *)
Pair(hi, lo, f) == [hi |-> hi, lo |-> lo, f |-> f, intr |-> FALSE]

x86emu_intr_raise(hi, lo, f) == [Pair(hi, lo, f) EXCEPT !.intr = TRUE]

Wide(w, p, ok, f) ==
    Pair(Right(p, w), Low(p, w), Put(f, [CF |-> ~ok, OF |-> ~ok]))

(* The long product from the products of the halves, in words of w bits *)
ByHalves(w, d, s) ==
    LET h   == w \div 2
        lo  == Low(d, h) * Low(s, h)
        mid == Low(Right(d, h) * Low(s, h) + Low(d, h) * Right(s, h) + Right(lo, h), w)
    IN  Left(2 * w, Low(Right(d, h) * Right(s, h) + Right(mid, h), w), w)
          + Left(w, mid, h) + Low(lo, h)

mul(w, z, hi, lo, s, f) ==
    LET p == IF z = "long" THEN ByHalves(w, lo, s) ELSE lo * s
    IN  Wide(w, p, Right(p, w) = 0, f)

Magnitude(w, v) == IF Bit(v, w - 1) THEN 2^w - v ELSE v

imul_long_direct(w, d, s) ==
    LET p  == ByHalves(w, Magnitude(w, d), Magnitude(w, s))
        lo == 2^w - 1 - Low(p, w)
        c  == Right(Low(lo, w \div 2) + 1, w \div 2) + Right(lo, w \div 2)
        hi == 2^w - 1 - Right(p, w) + Right(c, w \div 2)
    IN  IF Bit(d, w - 1) = Bit(s, w - 1) THEN p
        ELSE Left(2 * w, hi, w) + Low(lo + 1, w)

(* imul_word and imul_long compare the high word with 0xFF as well *)
AllOnes(w, z) == 2^(CASE z = "byte" -> w [] z = "word" -> w \div 2 [] OTHER -> w \div 4) - 1

imul(w, z, hi, lo, s, f) ==
    LET p == IF z = "long" THEN imul_long_direct(w, lo, s)
             ELSE Low(Signed(w, lo) * Signed(w, s), 2 * w)
    IN  Wide(w, p, Right(p, w) = (IF Bit(p, w - 1) THEN AllOnes(w, z) ELSE 0), f)

(* C's division, which truncates *)
Quotient(a, b) == IF (a < 0) = (b < 0) THEN a \div b ELSE -((-a) \div b)

(* abs(v), whose argument is an int: twice as wide as a word, and much     *)
(* wider than a byte.  The least int may stay as it is (ub).               *)
AbsInt(w, z, v, ub) ==
    LET i == IF z = "byte" THEN v ELSE Signed(2 * w, Low(v, 2 * w))
    IN  IF i >= 0 \/ (ub /\ z = "word" /\ i = -(2^(2 * w - 1))) THEN i ELSE -i

(* Subtracting s << 32, s << 31, ... s << 0 where the dividend allows it;  *)
(* the first step is left out when from is 1.                              *)
Divided(w, hi, lo, s, from) ==
    LET st[k \in from..(w + 1)] ==
          IF k = from THEN [div |-> 0, h |-> hi, l |-> lo]
          ELSE LET p     == st[k - 1]
                   ls    == Left(w, s, w + 1 - k)
                   carry == IF p.l >= ls THEN 0 ELSE 1
                   sub1  == Right(s, k - 1) + carry
               IN  IF p.h < sub1 THEN [p EXCEPT !.div = Left(w, @, 1)]
                   ELSE [div |-> Left(w, p.div, 1) + 1, h |-> p.h - sub1, l |-> Low(p.l - ls, w)]
    IN  st[w + 1]

(* the flags of the word and the long forms *)
DivFlags(z, div, mod, f) ==
    CASE z = "byte" -> f
      [] z = "word" -> Put(f \ {"CF", "SF"}, [ZF |-> div = 0, PF |-> PARITY(mod)])
      [] z = "long" -> Put(f \ {"CF", "AF", "SF"}, [ZF |-> TRUE, PF |-> PARITY(mod)])

Divide(w, z, hi, lo, div, mod, wrong, f) ==
    IF wrong THEN x86emu_intr_raise(hi, lo, f)
    ELSE Pair(Low(mod, w), Low(div, w), DivFlags(z, div, Low(mod, w), f))

div(w, z, hi, lo, s, ub, f) ==
    LET dvd == hi * 2^w + lo
        st  == Divided(w, hi, lo, s, 0)
    IN  CASE s = 0      -> x86emu_intr_raise(hi, lo, f)
          [] z = "long" -> Divide(w, z, hi, lo, st.div, st.l, st.h # 0 \/ st.l > s, f)
          [] OTHER      -> Divide(w, z, hi, lo, dvd \div s, dvd % s,
                                  AbsInt(w, z, dvd \div s, ub) > 2^w - 1, f)

(* The least int divided by -1 is undefined too: it may be itself again,   *)
(* with the choice AbsInt then has, or it may trap on the host, which ends *)
(* the emulator as interrupt 0 does.                                       *)
idiv(w, z, hi, lo, s, ub, f) ==
    LET dvd  == Signed(2 * w, hi * 2^w + lo)
        q    == Quotient(dvd, Signed(w, s))
        abss == Low(s, w - 1)
        st   == Divided(w, Low(hi, w - 1), lo, abss, 1)
        sign == IF Bit(hi, w - 4) # Bit(s, w - 4) THEN 2^(w - 4) ELSE 0
    IN  CASE s = 0      -> x86emu_intr_raise(hi, lo, f)
          [] z = "long" -> Divide(w, z, hi, lo, st.div | sign, st.l, st.h # 0 \/ st.l > abss, f)
          [] OTHER      -> Divide(w, z, hi, lo, q, dvd - q * Signed(w, s),
                                  AbsInt(w, z, q, ub) > 2^(w - 1) - 1, f)

-----------------------------------------------------------------------------
(* Decimal adjustments, on AH and AL of 8 bits *)
ASCII(d, adjust, f) ==
    LET wrong == d % 16 > 9 \/ "AF" \in f
        ax    == IF wrong THEN (d + adjust) % 2^16 ELSE d
        res   == ax - 16 * (Right(ax, 4) % 16)
    IN  Pair(Right(res, 8), Low(res, 8),
             Put(f, [AF |-> wrong, CF |-> wrong, SF |-> FALSE, ZF |-> res = 0, PF |-> PARITY(res)]))

aaa(hi, lo, f) == ASCII(hi * 256 + lo, 6 + 256, f)

aas(hi, lo, f) == ASCII(hi * 256 + lo, -(6 + 256), f)

Adjusted(l, f) ==
    Pair(Right(l, 8), Low(l, 8),
         Put(f \ {"CF", "AF", "OF"}, [SF |-> Bit(l, 7), ZF |-> l = 0, PF |-> PARITY(l)]))

aad(hi, lo, f) == Adjusted((lo + 10 * hi) % 256, f)

aam(lo, f) == Adjusted((lo \div 10) * 256 + (lo % 10), f)

daa(d, f) ==
    LET low  == d % 16 > 9 \/ "AF" \in f
        r1   == IF low THEN d + 6 ELSE d
        high == r1 > 159 \/ "CF" \in f
        res  == IF high THEN r1 + 96 ELSE r1
    IN  Result(Low(res, 8), Put(f, SZP(8, res) @@ [AF |-> low, CF |-> high]))

das(d, f) ==
    LET low  == d % 16 > 9 \/ "AF" \in f
        r1   == IF low THEN (d - 6) % 256 ELSE d
        high == r1 > 159 \/ "CF" \in f
        res  == IF high THEN (r1 - 96) % 256 ELSE r1
    IN  Result(res, Put(f, SZP(8, res) @@ [AF |-> low, CF |-> high]))
=============================================================================
