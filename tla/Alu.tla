-------------------------------- MODULE Alu --------------------------------
(***************************************************************************)
(* The arithmetic of the emulator: the functions of alu.c and the bit      *)
(* operations of bit.c they are made of.  Additions and subtractions work  *)
(* nibble by nibble, in unsigned bytes that wrap; words are added byte by  *)
(* byte.  A nibble has four bits in the code; its width is a constant here *)
(* so that TLC can enumerate every operand of a narrower machine, while    *)
(* the theorems of AluProofs hold for every width up to the code's.        *)
(*                                                                         *)
(* Null results and unknown directions, which the functions refuse, never  *)
(* reach them from cpu-alu.c.                                              *)
(***************************************************************************)
EXTENDS Integers

CONSTANT NibbleBits     \* bits of a nibble, 4 in the code
ASSUME NibbleAssumption == NibbleBits \in 1 .. 4

ByteBits == 2 * NibbleBits
Power(i) == <<1, 2, 4, 8, 16, 32, 64, 128, 256>>[i + 1]      \* 1 << i
Nibble == Power(NibbleBits)
Byte == Power(ByteBits)
Word == Byte * Byte
U8 == 0 .. Byte - 1
U16 == 0 .. Word - 1
Digits == 0 .. ByteBits - 1

-----------------------------------------------------------------------------
(* bit.c *)

lsb4(v) == v % Nibble
msb4(v) == v \div Nibble
merge4(v1, v2) == (v2 * Nibble + lsb4(v1)) % Byte
lsb8(v) == v % Byte
msb8(v) == v \div Byte
merge8(v1, v2) == v2 * Byte + v1

bit_get(v, i) == (v \div Power(i)) % 2
bit_set(v, i) == IF bit_get(v, i) = 1 THEN v ELSE v + Power(i)
bit_unset(v, i) == IF bit_get(v, i) = 1 THEN v - Power(i) ELSE v
bit_edit(v, i, b) == IF b # 0 THEN bit_set(v, i) ELSE bit_unset(v, i)

Directions == {"LEFT", "RIGHT"}
\* bit_rotate by one place, the only distance the ALU asks for
bit_rotate(v, dir) ==
    LET d == IF dir = "RIGHT" THEN ByteBits - 1 ELSE 1
    IN  ((v * Power(d)) % Byte) + v \div Power(ByteBits - d)

-----------------------------------------------------------------------------
(***************************************************************************)
(* A byte of flags: the flags that are up, and the low nibble.  While that *)
(* nibble is not zero every flag reads as down and none can be set.        *)
(***************************************************************************)

FlagNames == {"Z", "N", "H", "C"}
FlagBytes == [up : SUBSET FlagNames, low : 0 .. 15]
NoFlags == [up |-> {}, low |-> 0]

get_flag(flags, f) == IF flags.low = 0 /\ f \in flags.up THEN 1 ELSE 0
set_flag(flags, f) ==
    IF flags.low = 0 THEN [flags EXCEPT !.up = @ \cup {f}] ELSE flags

\* Any value but 0 raises its flag.
set_output(value, z, n, h, c) ==
    [value |-> value,
     flags |-> [up |-> {f \in FlagNames :
                          \/ f = "Z" /\ z
                          \/ f = "N" /\ n
                          \/ f = "H" /\ h # 0
                          \/ f = "C" /\ c # 0},
                low |-> 0]]

-----------------------------------------------------------------------------
(* alu.c *)

alu_add8(x, y, c0) ==
    LET low  == lsb4(x) + lsb4(y) + c0
        high == msb4(x) + msb4(y) + msb4(low)
        sum  == merge4(low, high)
    IN  set_output(sum, sum = 0, FALSE, msb4(low), msb4(high))

\* Mutant: the high nibble of the wrapped low byte is borrowed as it is.
BorrowAsItIs(x, y, b0) ==
    LET low  == (lsb4(x) - lsb4(y) - b0) % Byte
        high == (msb4(x) - msb4(y) - msb4(low)) % Byte
        sum  == merge4(low, high)
    IN  set_output(sum, sum = 0, TRUE, msb4(low), msb4(high))

\* low and high are bytes: a negative difference wraps.
alu_sub8(x, y, b0) ==
    LET low    == (lsb4(x) - lsb4(y) - b0) % Byte
        borrow == IF msb4(low) # 0 THEN 1 ELSE 0
        high   == (msb4(x) - msb4(y) - borrow) % Byte
        sum    == merge4(low, high)
    IN  set_output(sum, sum = 0, TRUE, msb4(low), msb4(high))

alu_add16_high(x, y) ==
    LET low  == alu_add8(lsb8(x), lsb8(y), 0)
        high == alu_add8(msb8(x), msb8(y), get_flag(low.flags, "C"))
        sum  == merge8(low.value, high.value)
    IN  set_output(sum, sum = 0, FALSE,
                   get_flag(high.flags, "H"), get_flag(high.flags, "C"))

\* The bit that leaves the byte on a move to that side.
Leaving(x, dir) == IF dir = "LEFT" THEN bit_get(x, ByteBits - 1) ELSE bit_get(x, 0)

alu_shift(x, dir) ==
    LET moved == IF dir = "LEFT" THEN (x * 2) % Byte ELSE x \div 2
    IN  set_output(moved, moved = 0, FALSE, 0, Leaving(x, dir))

alu_carry_rotate(x, dir, flags) ==
    LET moved == bit_edit(bit_rotate(x, dir),
                          IF dir = "LEFT" THEN 0 ELSE ByteBits - 1,
                          get_flag(flags, "C"))
    IN  set_output(moved, moved = 0, FALSE, 0, Leaving(x, dir))

-----------------------------------------------------------------------------
(* cpu-alu.h: where each flag comes from, <<Z, N, H, C>> *)

ADD_FLAGS_SRC    == <<"ALU", "CLEAR", "ALU", "ALU">>
INC_FLAGS_SRC    == <<"ALU", "CLEAR", "ALU", "CPU">>
SUB_FLAGS_SRC    == <<"ALU", "SET", "ALU", "ALU">>
DEC_FLAGS_SRC    == <<"ALU", "SET", "ALU", "CPU">>
AND_FLAGS_SRC    == <<"ALU", "CLEAR", "SET", "CLEAR">>
OR_FLAGS_SRC     == <<"ALU", "CLEAR", "CLEAR", "CLEAR">>
DAA_FLAGS_SRC    == <<"ALU", "CPU", "CLEAR", "ALU">>
ROT_FLAGS_SRC    == <<"CLEAR", "CLEAR", "CLEAR", "ALU">>
SHIFT_FLAGS_SRC  == <<"ALU", "CLEAR", "CLEAR", "ALU">>
ADD_16_FLAGS_SRC == <<"CPU", "CLEAR", "ALU", "ALU">>

flags_src_value(src, cpu_f, alu_f) ==
    \/ src = "SET"
    \/ src = "ALU" /\ alu_f = 1
    \/ src = "CPU" /\ cpu_f = 1

\* The byte of flags is built anew from an empty one.
Raise(flags, f, taken) == IF taken THEN set_flag(flags, f) ELSE flags
CombinedFlags(F, src, alu) ==
    LET taken(f, i) == flags_src_value(src[i], get_flag(F, f), get_flag(alu, f))
        z == Raise(NoFlags, "Z", taken("Z", 1))
        n == Raise(z, "N", taken("N", 2))
        h == Raise(n, "H", taken("H", 3))
    IN  Raise(h, "C", taken("C", 4))
=============================================================================
