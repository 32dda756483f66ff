------------------------------- MODULE LibEm -------------------------------
(***************************************************************************)
(* The code ACK runs for the 4-byte integers of EM on the 8086, a machine  *)
(* of 2-byte words: the routines of mach/i86/libem and the instructions    *)
(* mach/i86/ncg/table expands in line, one tuple for an instruction.  A    *)
(* tuple of one name is a label; "0", "1", "-1" and "16" are immediate     *)
(* operands, of which "16" is the number of bits of a word.  xl, xh, yl    *)
(* and yh are the operands on the stack, st the word a routine pushes.     *)
(* Saving and restoring si and di and the return are left out.             *)
(***************************************************************************)
EXTENDS Sequences

(* %1 and %2 are ax and dx *)
adi4 == << <<"add", "ax", "yl">>, <<"adc", "dx", "yh">> >>

sbi4 == << <<"sub", "ax", "yl">>, <<"sbb", "dx", "yh">> >>

(* A slip: the low word is negated first. *)
Ngi4Low == << <<"neg", "ax">>, <<"neg", "dx">>, <<"sbb", "dx", "0">> >>

ngi4 == << <<"neg", "dx">>, <<"neg", "ax">>, <<"sbb", "dx", "0">> >>

ShiftLoop(first, second) ==
    << <<"jcxz", "1f">>, <<"2b">>, first, second, <<"loop", "2b">>, <<"1f">> >>

sli4 == ShiftLoop(<<"shl", "ax", "1">>, <<"rcl", "dx", "1">>)

sri4 == ShiftLoop(<<"sar", "dx", "1">>, <<"rcr", "ax", "1">>)

sru4 == ShiftLoop(<<"shr", "dx", "1">>, <<"rcr", "ax", "1">>)

Compare(greater, less) ==
    << <<"mov", "bx", "xh">>, <<"cmp", "bx", "yh">>, <<greater, "1f">>, <<less, "2f">>,
       <<"mov", "ax", "xl">>, <<"cmp", "ax", "yl">>, <<"ja", "1f">>, <<"je", "3f">>,
       <<"2f">>, <<"mov", "ax", "-1">>, <<"jmp", "ret">>,
       <<"3f">>, <<"xor", "ax", "ax">>, <<"jmp", "ret">>,
       <<"1f">>, <<"mov", "ax", "1">>, <<"ret">> >>

cmi4 == Compare("jg", "jl")

cmu4 == Compare("ja", "jb")

mli4 ==
    << <<"mov", "st", "dx">>, <<"mov", "cx", "ax">>, <<"mul", "yh">>,
       <<"mov", "dx", "st">>, <<"mov", "st", "ax">>, <<"mov", "ax", "dx">>, <<"mul", "yl">>,
       <<"mov", "dx", "st">>, <<"add", "dx", "ax">>,
       <<"mov", "ax", "cx">>, <<"mov", "cx", "dx">>, <<"mul", "yl">>, <<"add", "dx", "cx">> >>

(* the loop of the four division routines, for a divisor of two words: the *)
(* remainder is in bx:dx, the quotient comes into ax from the right        *)
DivideLoop(ready) ==
    << <<"mov", "cx", "16">>,
       <<"1b">>, <<"shl", "ax", "1">>, <<"rcl", "dx", "1">>, <<"rcl", "bx", "1">>,
       <<"cmp", "di", "bx">>, <<"ja", "3f">>, <<"jb", "2f'">>,
       <<"cmp", "yl", "dx">>, <<"jbe", "2f'">>,
       <<"3f">>, <<"loop", "1b">>, <<"jmp", ready>>,
       <<"2f'">>, <<"sub", "dx", "yl">>, <<"sbb", "bx", "di">>, <<"inc", "ax">>,
       <<"loop", "1b">>, <<"jmp", ready>> >>

dvu4 ==
    << <<"mov", "bx", "yl">>, <<"mov", "ax", "yh">>, <<"or", "ax", "ax">>, <<"jne", "7f">>,
       <<"xor", "dx", "dx">>, <<"mov", "cx", "xl">>, <<"mov", "ax", "xh">>,
       <<"div", "bx">>, <<"xchg", "ax", "cx">>, <<"div", "bx">>,
       <<"9b">>, <<"mov", "dx", "cx">>, <<"jmp", "ret">>,
       <<"7f">>, <<"mov", "di", "ax">>, <<"xor", "bx", "bx">>,
       <<"mov", "ax", "xl">>, <<"mov", "dx", "xh">> >>
    \o DivideLoop("9b") \o << <<"ret">> >>

rmu4 ==
    << <<"mov", "bx", "yl">>, <<"mov", "ax", "yh">>, <<"or", "ax", "ax">>, <<"jne", "7f">>,
       <<"xor", "dx", "dx">>, <<"mov", "cx", "xl">>, <<"mov", "ax", "xh">>,
       <<"div", "bx">>, <<"xchg", "ax", "cx">>, <<"div", "bx">>, <<"xor", "bx", "bx">>,
       <<"9b">>, <<"mov", "ax", "dx">>, <<"mov", "dx", "bx">>, <<"jmp", "ret">>,
       <<"7f">>, <<"mov", "di", "ax">>, <<"xor", "bx", "bx">>,
       <<"mov", "ax", "xl">>, <<"mov", "dx", "xh">> >>
    \o DivideLoop("9b") \o << <<"ret">> >>

(* the sign of the quotient is kept in di, or in st during the loop *)
dvi4 ==
    << <<"mov", "bx", "yl">>, <<"mov", "ax", "yh">>, <<"cwd">>, <<"mov", "di", "dx">>,
       <<"cmp", "dx", "ax">>, <<"jne", "7f">>, <<"and", "dx", "dx">>, <<"jge", "1f">>,
       <<"neg", "bx">>, <<"je", "7f">>,
       <<"1f">>, <<"xor", "dx", "dx">>, <<"mov", "cx", "xl">>, <<"mov", "ax", "xh">>,
       <<"and", "ax", "ax">>, <<"jge", "2f">>,
       <<"neg", "ax">>, <<"neg", "cx">>, <<"sbb", "ax", "dx">>, <<"not", "di">>,
       <<"2f">>, <<"div", "bx">>, <<"xchg", "ax", "cx">>, <<"div", "bx">>,
       <<"9b">>, <<"and", "di", "di">>, <<"jge", "9e">>,
       <<"neg", "cx">>, <<"neg", "ax">>, <<"sbb", "cx", "0">>,
       <<"9e">>, <<"mov", "dx", "cx">>, <<"jmp", "ret">>,
       <<"7f">>, <<"mov", "st", "dx">>, <<"mov", "di", "ax">>, <<"xor", "bx", "bx">>,
       <<"and", "di", "di">>, <<"jge", "7x">>,
       <<"neg", "di">>, <<"neg", "yl">>, <<"sbb", "di", "bx">>,
       <<"7x">>, <<"mov", "ax", "xl">>, <<"mov", "dx", "xh">>,
       <<"and", "dx", "dx">>, <<"jge", "7l">>,
       <<"neg", "dx">>, <<"neg", "ax">>, <<"sbb", "dx", "bx">>, <<"not", "st">>, <<"7l">> >>
    \o DivideLoop("7e")
    \o << <<"7e">>, <<"mov", "di", "st">>, <<"jmp", "9b">>, <<"ret">> >>

rmi4 ==
    << <<"mov", "bx", "yl">>, <<"mov", "ax", "yh">>, <<"cwd">>,
       <<"cmp", "dx", "ax">>, <<"jne", "7f">>, <<"and", "dx", "dx">>, <<"jge", "1f">>,
       <<"neg", "bx">>, <<"je", "7f">>,
       <<"1f">>, <<"xor", "dx", "dx">>, <<"mov", "cx", "xl">>, <<"mov", "ax", "xh">>,
       <<"and", "ax", "ax">>, <<"jge", "2f">>,
       <<"neg", "ax">>, <<"neg", "cx">>, <<"sbb", "ax", "dx">>,
       <<"2f">>, <<"div", "bx">>, <<"xchg", "ax", "cx">>, <<"div", "bx">>, <<"xor", "bx", "bx">>,
       <<"9b">>, <<"cmp", "xh", "0">>, <<"jge", "9e">>,
       <<"neg", "bx">>, <<"neg", "dx">>, <<"sbb", "bx", "0">>,
       <<"9e">>, <<"mov", "ax", "dx">>, <<"mov", "dx", "bx">>, <<"jmp", "ret">>,
       <<"7f">>, <<"mov", "di", "ax">>, <<"xor", "bx", "bx">>, <<"and", "di", "di">>, <<"jge", "7x">>,
       <<"neg", "di">>, <<"neg", "yl">>, <<"sbb", "di", "bx">>,
       <<"7x">>, <<"mov", "ax", "xl">>, <<"mov", "dx", "xh">>,
       <<"and", "dx", "dx">>, <<"jge", "7l">>,
       <<"neg", "dx">>, <<"neg", "ax">>, <<"sbb", "dx", "bx">>, <<"7l">> >>
    \o DivideLoop("9b") \o << <<"ret">> >>
=============================================================================
