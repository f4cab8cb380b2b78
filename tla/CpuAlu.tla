------------------------------- MODULE CpuAlu -------------------------------
(***************************************************************************)
(* The arithmetic instructions of cpu-alu.c on the registers A, H, L and F *)
(* and on the pair HL, which overlaps H and L, with the loads and POPs of  *)
(* cpu-storage.c that put arbitrary bytes there.  An instruction computes  *)
(* in the ALU (module Alu) and then takes each flag from one of four       *)
(* sources.  The registers B, C, D and E and their pairs behave as H, L    *)
(* and HL do; a byte or a word read from memory, from the program or from  *)
(* such a register is a free choice.  cpu->alu is written by every         *)
(* instruction that reads it and is not part of the state.                 *)
(*                                                                         *)
(* Not here: the families cpu_dispatch_alu leaves to a binary library, and *)
(* INC_HLR, which is INC_R8 on a byte of the bus.                          *)
(***************************************************************************)
EXTENDS Alu

CONSTANTS Bytes, Words,     \* operands that come from elsewhere
          Places,           \* bits that BIT, SET and RES name
          PoppedFlags       \* bytes POP AF may find for F, low nibble included
ASSUME OperandAssumption ==
    /\ Bytes \subseteq U8 /\ Words \subseteq U16
    /\ Places \subseteq Digits /\ PoppedFlags \subseteq FlagBytes

VARIABLES
    reg,    \* the 8-bit registers
    F       \* the byte of flags
vars == <<reg, F>>

Registers == {"A", "H", "L"}

-----------------------------------------------------------------------------
(* cpu-registers.c *)

HL == merge8(reg["L"], reg["H"])
cpu_reg_set(r, v) == reg' = [reg EXCEPT ![r] = v]
cpu_HL_set(v) == reg' = [reg EXCEPT !["H"] = msb8(v), !["L"] = lsb8(v)]
\* Mutant: the word goes into AF as it is.
KeepLowNibble(a, f) == reg' = [reg EXCEPT !["A"] = a] /\ F' = f
\* The low nibble of F is forced to 0.
cpu_AF_set(a, f) == reg' = [reg EXCEPT !["A"] = a] /\ F' = [f EXCEPT !.low = 0]

Init == reg = [r \in Registers |-> 0] /\ F = NoFlags

cpu_combine_alu_flags(src, alu) == F' = CombinedFlags(F, src, alu)

-----------------------------------------------------------------------------
(* cpu_dispatch_alu *)

\* Another register, or a byte from elsewhere.
Operands == {reg[r] : r \in Registers} \cup Bytes

\* ADD or ADC: a bit of the opcode says whether the carry takes part.
extract_carry(withCarry) == IF withCarry THEN get_flag(F, "C") ELSE 0
ADD_A(y, withCarry) ==
    LET alu == alu_add8(reg["A"], y, extract_carry(withCarry))
    IN  cpu_combine_alu_flags(ADD_FLAGS_SRC, alu.flags) /\ cpu_reg_set("A", alu.value)

INC_R8(r) ==
    LET alu == alu_add8(reg[r], 1, 0)
    IN  cpu_combine_alu_flags(INC_FLAGS_SRC, alu.flags) /\ cpu_reg_set(r, alu.value)
DEC_R8(r) ==
    LET alu == alu_sub8(reg[r], 1, 0)
    IN  cpu_combine_alu_flags(DEC_FLAGS_SRC, alu.flags) /\ cpu_reg_set(r, alu.value)

CP_A(y) ==
    LET alu == alu_sub8(reg["A"], y, 0)
    IN  cpu_combine_alu_flags(SUB_FLAGS_SRC, alu.flags) /\ UNCHANGED reg

ADD_HL_R16SP(w) ==
    LET alu == alu_add16_high(HL, w)
    IN  cpu_combine_alu_flags(ADD_16_FLAGS_SRC, alu.flags) /\ cpu_HL_set(alu.value)
\* The 16-bit count goes through the ALU and leaves the flags alone.
INC_R16SP == cpu_HL_set(alu_add16_high(HL, 1).value) /\ UNCHANGED F

SLA_R8(r) ==
    LET alu == alu_shift(reg[r], "LEFT")
    IN  cpu_combine_alu_flags(SHIFT_FLAGS_SRC, alu.flags) /\ cpu_reg_set(r, alu.value)
ROT_R8(r, dir) ==
    LET alu == alu_carry_rotate(reg[r], dir, F)
    IN  cpu_combine_alu_flags(SHIFT_FLAGS_SRC, alu.flags) /\ cpu_reg_set(r, alu.value)

BIT_U3_R8(r, n3) ==
    LET z == IF bit_get(reg[r], n3) = 0 THEN "SET" ELSE "CLEAR"
    IN  cpu_combine_alu_flags(<<z, "CLEAR", "SET", "CPU">>, NoFlags) /\ UNCHANGED reg

do_set_or_res(v, n3, sr) == IF sr THEN bit_set(v, n3) ELSE bit_unset(v, n3)
CHG_U3_R8(r, n3, sr) == cpu_reg_set(r, do_set_or_res(reg[r], n3, sr)) /\ UNCHANGED F

-----------------------------------------------------------------------------
(* cpu_dispatch_storage, as far as it reaches these registers *)

LD_R8(r, v) == cpu_reg_set(r, v) /\ UNCHANGED F
LD_HL(w) == cpu_HL_set(w) /\ UNCHANGED F
\* LD A,(HL+) and LD A,(HL-); LD (HL+),A and LD (HL-),A keep A.  HL is
\* stepped in 16 bits, past the ALU.
LD_HLRU(v, step) ==
    LET w == (HL + step) % Word
    IN  /\ reg' = [reg EXCEPT !["A"] = v, !["H"] = msb8(w), !["L"] = lsb8(w)]
        /\ UNCHANGED F
POP_AF(a, f) == cpu_AF_set(a, f)

Next ==
    \/ \E y \in Operands, withCarry \in BOOLEAN : ADD_A(y, withCarry)
    \/ \E y \in Operands : CP_A(y)
    \/ \E r \in Registers : INC_R8(r) \/ DEC_R8(r)
    \/ \E w \in {HL} \cup Words : ADD_HL_R16SP(w)
    \/ INC_R16SP
    \/ \E r \in Registers : SLA_R8(r) \/ \E dir \in Directions : ROT_R8(r, dir)
    \/ \E r \in Registers, n3 \in Places :
          BIT_U3_R8(r, n3) \/ \E sr \in BOOLEAN : CHG_U3_R8(r, n3, sr)
    \/ \E r \in Registers, v \in Operands : LD_R8(r, v)
    \/ \E w \in Words : LD_HL(w)
    \/ \E v \in {reg["A"]} \cup Bytes, step \in {-1, 1} : LD_HLRU(v, step)
    \/ \E a \in Bytes, f \in PoppedFlags : POP_AF(a, f)

Spec == Init /\ [][Next]_vars

-----------------------------------------------------------------------------
(* Type invariant: bytes stay bytes, and the low nibble of F stays zero,
   without which every flag would read as down. *)
TypeOK ==
    /\ reg \in [Registers -> U8]
    /\ F \in FlagBytes
    /\ F.low = 0

\* The machine seen through whole numbers and the flags that read as up.
Exact == INSTANCE Arithmetic WITH
    A <- reg["A"], H <- reg["H"], L <- reg["L"],
    up <- {f \in FlagNames : get_flag(F, f) = 1}

(* Nibbles, wrapping bytes, borrowed carries, flag sources and the overlap of
   HL with H and L together compute what whole-number arithmetic says, along
   every sequence of instructions: the ALU of alu.c under the dispatch of
   cpu-alu.c implements Arithmetic. *)
ImplementsArithmetic == Exact!Spec
=============================================================================
