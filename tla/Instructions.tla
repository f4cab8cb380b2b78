---------------------------- MODULE Instructions ----------------------------
(***************************************************************************)
(* What one instruction does to the machine: cpu_dispatch of cpu.c with    *)
(* the registers (cpu-registers), the loads, stores and the stack          *)
(* (cpu-storage) and the arithmetic (cpu-alu) it dispatches to.            *)
(*                                                                         *)
(* The functions of the code are operators from a machine to a machine: a  *)
(* record of the registers reg, the byte of flags F, SP, PC, IME, HALT,    *)
(* idle_time, write_listener, the memory behind the bus (mem, the bytes    *)
(* that are not 0; gap, the addresses where nothing is plugged) and err,   *)
(* the error code returned.  A gap is never one byte past a plugged one    *)
(* where a word is accessed: the code would follow a null pointer.         *)
(*                                                                         *)
(* The families that cpu_dispatch_alu leaves to a binary library are in    *)
(* cpu_dispatch_alu_ext, as the unit tests of the repository use them.     *)
(***************************************************************************)
EXTENDS Alu, Opcode

Fine(m) == m.err = "ERR_NONE"
Fail(m, code) == [m EXCEPT !.err = code]
\* The caller does not look at the error.
Unchecked(m) == Fail(m, "ERR_NONE")
Signed8(b) == IF b < 128 THEN b ELSE b - 256

-----------------------------------------------------------------------------
(* cpu-registers *)

Halves == [BC |-> <<"B", "C">>, DE |-> <<"D", "E">>, HL |-> <<"H", "L">>]
Weight == [Z |-> 128, N |-> 64, H |-> 32, C |-> 16]
FlagsOf(b) == [up |-> {f \in FlagNames : (b \div Weight[f]) % 2 = 1}, low |-> b % 16]
ByteOf(flags) ==
    LET weight(f) == IF f \in flags.up THEN Weight[f] ELSE 0
    IN  weight("Z") + weight("N") + weight("H") + weight("C") + flags.low

cpu_reg_set(m, r, v) == [m EXCEPT !.reg[r] = v]

cpu_reg_pair_get(m, p) ==
    IF p = "AF" THEN merge8(ByteOf(m.F), m.reg["A"])
    ELSE merge8(m.reg[Halves[p][2]], m.reg[Halves[p][1]])
\* The low nibble of F is forced to 0.
cpu_reg_pair_set(m, p, w) ==
    IF p = "AF"
    THEN [m EXCEPT !.reg["A"] = msb8(w), !.F = [FlagsOf(lsb8(w)) EXCEPT !.low = 0]]
    ELSE [m EXCEPT !.reg[Halves[p][1]] = msb8(w), !.reg[Halves[p][2]] = lsb8(w)]

\* SP takes the place of AF.
cpu_reg_pair_SP_get(m, code) ==
    IF R16SPAt[code + 1] = "SP" THEN m.SP ELSE cpu_reg_pair_get(m, R16SPAt[code + 1])
cpu_reg_pair_SP_set(m, code, w) ==
    IF R16SPAt[code + 1] = "SP" THEN [m EXCEPT !.SP = w]
    ELSE cpu_reg_pair_set(m, R16SPAt[code + 1], w)

HLOf(m) == cpu_reg_pair_get(m, "HL")

-----------------------------------------------------------------------------
(* cpu-storage: the bus *)

REGISTERS_START == 65280
NULL_DATA == 255

ByteAt(m, a) == IF a \in DOMAIN m.mem THEN m.mem[a] ELSE 0

cpu_read_at_idx(m, a) == IF a \in m.gap THEN NULL_DATA ELSE ByteAt(m, a)
Written(mem, a, v) == [x \in {a} \cup DOMAIN mem |-> IF x = a THEN v ELSE mem[x]]
\* Reads as the single byte 0xFF in a gap.
cpu_read16_at_idx(m, a) ==
    IF a \in m.gap THEN NULL_DATA ELSE merge8(ByteAt(m, a), ByteAt(m, a + 1))
cpu_write_at_idx(m, a, v) ==
    IF a \in m.gap THEN Fail(m, "ERR_BAD_PARAMETER")
    ELSE [m EXCEPT !.mem = Written(@, a, v), !.write_listener = a]
cpu_write16_at_idx(m, a, w) ==
    IF a \in m.gap THEN Fail(m, "ERR_BAD_PARAMETER")
    ELSE [m EXCEPT !.mem = Written(Written(@, a + 1, msb8(w)), a, lsb8(w)), !.write_listener = a]

cpu_read_at_HL(m) == cpu_read_at_idx(m, HLOf(m))
cpu_read_data_after_opcode(m) == cpu_read_at_idx(m, (m.PC + 1) % Word)
cpu_read_addr_after_opcode(m) == cpu_read16_at_idx(m, (m.PC + 1) % Word)

\* Mutant: SP is not put back when the push fails.
PushAndStay(m, w) ==
    LET down == [m EXCEPT !.SP = (@ - 2) % Word]
    IN  cpu_write16_at_idx(down, down.SP, w)
cpu_SP_push(m, w) ==
    LET down == [m EXCEPT !.SP = (@ - 2) % Word]
        done == cpu_write16_at_idx(down, down.SP, w)
    IN  IF Fine(done) THEN done ELSE [done EXCEPT !.SP = m.SP]
AfterPop(m) == [m EXCEPT !.SP = (@ + 2) % Word]
Popped(m) == cpu_read16_at_idx(m, m.SP)

Load(m, r, a) == cpu_reg_set(m, r, cpu_read_at_idx(m, a))
Store(m, r, a) == cpu_write_at_idx(m, a, m.reg[r])
\* Mutant: HL does not wrap.
MoveHLBeyond(m, lu) ==
    IF Fine(m) THEN cpu_reg_pair_set(m, "HL", HLOf(m) + extract_HL_increment(lu.opcode)) ELSE m
\* HL moves if the access has not failed.
MoveHL(m, lu) ==
    IF Fine(m) THEN cpu_reg_pair_set(m, "HL", (HLOf(m) + extract_HL_increment(lu.opcode)) % Word)
    ELSE m

cpu_dispatch_storage(m, lu) ==
    LET family == lu.family[1]
        n8 == cpu_read_data_after_opcode(m)
        n16 == cpu_read_addr_after_opcode(m)
        CR == REGISTERS_START + m.reg["C"]
        pair == extract_reg_pair(lu.opcode)
    IN  CASE family = "LD_A_BCR"  -> Load(m, "A", cpu_reg_pair_get(m, "BC"))
          [] family = "LD_A_DER"  -> Load(m, "A", cpu_reg_pair_get(m, "DE"))
          [] family = "LD_A_CR"   -> Load(m, "A", CR)
          [] family = "LD_A_N16R" -> Load(m, "A", n16)
          [] family = "LD_A_N8R"  -> Load(m, "A", REGISTERS_START + n8)
          [] family = "LD_A_HLRU" -> MoveHL(Load(m, "A", HLOf(m)), lu)
          [] family = "LD_R8_HLR" -> Load(m, extract_reg(lu.opcode, 3), HLOf(m))
          [] family = "LD_BCR_A"  -> Store(m, "A", cpu_reg_pair_get(m, "BC"))
          [] family = "LD_DER_A"  -> Store(m, "A", cpu_reg_pair_get(m, "DE"))
          [] family = "LD_CR_A"   -> Store(m, "A", CR)
          [] family = "LD_N16R_A" -> Store(m, "A", n16)
          [] family = "LD_N8R_A"  -> Store(m, "A", REGISTERS_START + n8)
          [] family = "LD_HLRU_A" -> MoveHL(Store(m, "A", HLOf(m)), lu)
          [] family = "LD_HLR_R8" -> Store(m, extract_reg(lu.opcode, 0), HLOf(m))
          [] family = "LD_HLR_N8" -> cpu_write_at_idx(m, HLOf(m), n8)
          [] family = "LD_N16R_SP" -> cpu_write16_at_idx(m, n16, m.SP)
          [] family = "LD_R16SP_N16" -> cpu_reg_pair_SP_set(m, pair, n16)
          [] family = "LD_R8_N8"  -> cpu_reg_set(m, extract_reg(lu.opcode, 3), n8)
          [] family = "LD_R8_R8"  ->
                IF extract_reg(lu.opcode, 3) = extract_reg(lu.opcode, 0) THEN Fail(m, "ERR_INSTR")
                ELSE cpu_reg_set(m, extract_reg(lu.opcode, 3), m.reg[extract_reg(lu.opcode, 0)])
          [] family = "LD_SP_HL"  -> [m EXCEPT !.SP = HLOf(m)]
          [] family = "POP_R16"   -> cpu_reg_pair_set(AfterPop(m), R16At[pair + 1], Popped(m))
          [] family = "PUSH_R16"  -> cpu_SP_push(m, cpu_reg_pair_get(m, R16At[pair + 1]))

-----------------------------------------------------------------------------
(* cpu-alu.c: the flags *)

cpu_combine_alu_flags(m, src, alu) == [m EXCEPT !.F = CombinedFlags(m.F, src, alu)]

\* The flags, and then the value into A or another register.
combine_flags_set(m, r, alu, src) ==
    cpu_reg_set(cpu_combine_alu_flags(m, src, alu.flags), r, alu.value)

extract_carry(m, op) == IF bit(op, 3) = 1 THEN get_flag(m.F, "C") ELSE 0

-----------------------------------------------------------------------------
(* cpu-alu.c *)

\* The 8-bit operand: at HL, after the opcode, or the register at a place of it.
Operand(m, lu) ==
    CASE lu.family[2] = "HLR" -> cpu_read_at_HL(m)
      [] lu.family[2] = "N8"  -> cpu_read_data_after_opcode(m)
      [] lu.family[2] = "R8"  ->
            m.reg[extract_reg(lu.opcode, IF lu.family[1] \in {"INC", "DEC"} THEN 3 ELSE 0)]
\* The value back to where it came from; what a write at HL returns is not looked at.
Back(m, lu, v) ==
    IF lu.family[2] = "HLR" THEN Unchecked(cpu_write_at_idx(m, HLOf(m), v))
    ELSE cpu_reg_set(m, extract_reg(lu.opcode, IF lu.family[1] \in {"INC", "DEC"} THEN 3 ELSE 0), v)
InPlace(m, lu, alu, src) == Back(cpu_combine_alu_flags(m, src, alu.flags), lu, alu.value)

do_set_or_res(v, n3, sr) == IF sr = 1 THEN bit_set(v, n3) ELSE bit_unset(v, n3)
BitTest(m, v, n3) ==
    LET z == IF bit_get(v, n3) = 0 THEN "SET" ELSE "CLEAR"
    IN  cpu_combine_alu_flags(m, <<z, "CLEAR", "SET", "CPU">>, NoFlags)

\* What the logical operations, SWAP, RLC, RRC, SRA and DAA leave in the ALU.
Moved(v, c) == set_output(v, v = 0, FALSE, 0, c)
Common(a, b) ==
    LET both(i) == Power(i) * bit_get(a, i) * bit_get(b, i)
    IN  both(0) + both(1) + both(2) + both(3) + both(4) + both(5) + both(6) + both(7)
alu_and(a, b) == Moved(Common(a, b), 0)
alu_or(a, b) == Moved(a + b - Common(a, b), 0)
alu_xor(a, b) == Moved(a + b - 2 * Common(a, b), 0)
alu_swap(a) == Moved(merge4(msb4(a), lsb4(a)), 0)
alu_rotate(a, dir) == Moved(bit_rotate(a, dir), Leaving(a, dir))
\* The sign stays.
alu_shiftR_A(a) == Moved(bit_edit(a \div 2, ByteBits - 1, bit_get(a, ByteBits - 1)), bit_get(a, 0))
DecimalAdjust(m) ==
    LET a == m.reg["A"]
        down == get_flag(m.F, "N") = 1
        units == get_flag(m.F, "H") = 1 \/ (~down /\ a % 16 > 9)
        tens == get_flag(m.F, "C") = 1 \/ (~down /\ a > 153)
        by == (IF units THEN 6 ELSE 0) + (IF tens THEN 96 ELSE 0)
        v == (IF down THEN a - by ELSE a + by) % 256
    IN  Moved(v, IF tens THEN 1 ELSE 0)

cpu_dispatch_alu_ext(m, lu) ==
    LET family == lu.family[1]
        a == m.reg["A"]
        x == Operand(m, lu)
        dir == extract_rot_dir(lu.opcode)
        pair == extract_reg_pair(lu.opcode)
        n8 == cpu_read_data_after_opcode(m)
        sum == (m.SP + Signed8(n8)) % Word
        carried == (extract_sccf(lu.opcode) * get_flag(m.F, "C")) = 0
    IN  CASE family = "SUB_A" -> combine_flags_set(m, "A", alu_sub8(a, x, extract_carry(m, lu.opcode)), SUB_FLAGS_SRC)
          [] family = "AND_A" -> combine_flags_set(m, "A", alu_and(a, x), AND_FLAGS_SRC)
          [] family = "OR_A"  -> combine_flags_set(m, "A", alu_or(a, x), OR_FLAGS_SRC)
          [] family = "XOR_A" -> combine_flags_set(m, "A", alu_xor(a, x), OR_FLAGS_SRC)
          [] family = "CP_A"  -> cpu_combine_alu_flags(m, SUB_FLAGS_SRC, alu_sub8(a, x, 0).flags)
          [] family = "DEC" /\ lu.family[2] = "HLR" -> InPlace(m, lu, alu_sub8(x, 1, 0), DEC_FLAGS_SRC)
          [] family = "DEC" /\ lu.family[2] = "R16SP" ->
                cpu_reg_pair_SP_set(m, pair, (cpu_reg_pair_SP_get(m, pair) - 1) % Word)
          [] family = "SLA"  -> InPlace(m, lu, alu_shift(x, "LEFT"), SHIFT_FLAGS_SRC)
          [] family = "SRL"  -> InPlace(m, lu, alu_shift(x, "RIGHT"), SHIFT_FLAGS_SRC)
          [] family = "SRA"  -> InPlace(m, lu, alu_shiftR_A(x), SHIFT_FLAGS_SRC)
          [] family = "ROT"  -> InPlace(m, lu, alu_carry_rotate(x, dir, m.F), SHIFT_FLAGS_SRC)
          [] family = "ROTC" -> InPlace(m, lu, alu_rotate(x, dir), SHIFT_FLAGS_SRC)
          [] family = "ROTA" -> combine_flags_set(m, "A", alu_carry_rotate(a, dir, m.F), ROT_FLAGS_SRC)
          [] family = "ROTCA" -> combine_flags_set(m, "A", alu_rotate(a, dir), ROT_FLAGS_SRC)
          [] family = "SWAP" -> InPlace(m, lu, alu_swap(x), OR_FLAGS_SRC)
          [] family = "BIT_U3" -> BitTest(m, x, extract_n3(lu.opcode))
          [] family = "CHG_U3" ->
                Back(m, lu, do_set_or_res(x, extract_n3(lu.opcode), extract_sr_bit(lu.opcode)))
          [] family = "CPL"  -> [cpu_combine_alu_flags(m, <<"CPU", "SET", "SET", "CPU">>, NoFlags)
                                   EXCEPT !.reg["A"] = Byte - 1 - a]
          [] family = "DAA"  -> combine_flags_set(m, "A", DecimalAdjust(m), DAA_FLAGS_SRC)
          [] family = "SCCF" -> cpu_combine_alu_flags(m,
                <<"CPU", "CLEAR", "CLEAR", IF carried THEN "SET" ELSE "CLEAR">>, NoFlags)
          [] family = "LD_HLSP_S8" ->
                LET low == alu_add8(lsb8(m.SP), n8, 0)
                    flagged == cpu_combine_alu_flags(m, <<"CLEAR", "CLEAR", "ALU", "ALU">>, low.flags)
                IN  IF bit(lu.opcode, 4) = 1 THEN cpu_reg_pair_set(flagged, "HL", sum)
                    ELSE [flagged EXCEPT !.SP = sum]

cpu_dispatch_alu(m, lu) ==
    LET family == lu.family[1]
        form == lu.family[2]
        a == m.reg["A"]
        x == Operand(m, lu)
        pair == extract_reg_pair(lu.opcode)
        n3 == extract_n3(lu.opcode)
    IN  CASE family = "ADD_A" -> combine_flags_set(m, "A", alu_add8(a, x, extract_carry(m, lu.opcode)), ADD_FLAGS_SRC)
          [] family = "INC" /\ form \in {"R8", "HLR"} -> InPlace(m, lu, alu_add8(x, 1, 0), INC_FLAGS_SRC)
          [] family = "DEC" /\ form = "R8" -> InPlace(m, lu, alu_sub8(x, 1, 0), DEC_FLAGS_SRC)
          [] family = "ADD_HL_R16SP" ->
                LET alu == alu_add16_high(HLOf(m), cpu_reg_pair_SP_get(m, pair))
                IN  cpu_reg_pair_set(cpu_combine_alu_flags(m, ADD_16_FLAGS_SRC, alu.flags), "HL", alu.value)
          [] family = "INC" /\ form = "R16SP" ->
                cpu_reg_pair_SP_set(m, pair, alu_add16_high(cpu_reg_pair_SP_get(m, pair), 1).value)
          [] family = "CP_A" /\ form # "HLR" -> cpu_combine_alu_flags(m, SUB_FLAGS_SRC, alu_sub8(a, x, 0).flags)
          [] family = "SLA" /\ form = "R8" -> InPlace(m, lu, alu_shift(x, "LEFT"), SHIFT_FLAGS_SRC)
          [] family = "ROT" /\ form = "R8" ->
                InPlace(m, lu, alu_carry_rotate(x, extract_rot_dir(lu.opcode), m.F), SHIFT_FLAGS_SRC)
          [] family = "BIT_U3" /\ form = "R8" -> BitTest(m, x, n3)
          [] family = "CHG_U3" /\ form = "R8" -> Back(m, lu, do_set_or_res(x, n3, extract_sr_bit(lu.opcode)))
          [] OTHER -> cpu_dispatch_alu_ext(m, lu)

-----------------------------------------------------------------------------
(* cpu.c *)

AluFamilies ==
    {"ADD_A", "INC", "ADD_HL_R16SP", "SUB_A", "DEC", "AND_A", "OR_A", "XOR_A", "CPL", "CP_A", "SLA",
     "SRA", "SRL", "ROTCA", "ROTA", "ROTC", "ROT", "SWAP", "BIT_U3", "CHG_U3", "LD_HLSP_S8", "DAA", "SCCF"}
StorageFamilies ==
    {"LD_A_BCR", "LD_A_CR", "LD_A_DER", "LD_A_HLRU", "LD_A_N16R", "LD_A_N8R", "LD_BCR_A", "LD_CR_A",
     "LD_DER_A", "LD_HLRU_A", "LD_HLR_N8", "LD_HLR_R8", "LD_N16R_A", "LD_N16R_SP", "LD_N8R_A",
     "LD_R16SP_N16", "LD_R8_HLR", "LD_R8_N8", "LD_R8_R8", "LD_SP_HL", "POP_R16", "PUSH_R16"}
ConditionalFamilies == {"JP_CC_N16", "JR_CC_E8", "CALL_CC_N16", "RET_CC"}
\* Where increment_pc is false.
JumpFamilies == {"JP_CC_N16", "JP_HL", "JP_N16", "CALL_CC_N16", "CALL_N16", "RET", "RET_CC", "RST_U3", "RETI"}

check_cc(m, lu) ==
    LET f == IF extract_cc(lu.opcode) < 2 THEN "Z" ELSE "C"
    IN  get_flag(m.F, f) = extract_cc(lu.opcode) % 2

Goto(m, a) == [m EXCEPT !.PC = a % Word]
\* Mutant: the target is read before the push.
CallReadingFirst(m, lu) ==
    LET pushed == cpu_SP_push(m, (m.PC + lu.bytes) % Word)
    IN  IF Fine(pushed) THEN Goto(pushed, cpu_read_addr_after_opcode(m)) ELSE pushed
\* The target is read after the push, and a push that fails is the end of it.
Call(m, lu) ==
    LET pushed == cpu_SP_push(m, (m.PC + lu.bytes) % Word)
    IN  IF Fine(pushed) THEN Goto(pushed, cpu_read_addr_after_opcode(pushed)) ELSE pushed
Return(m) == Goto(AfterPop(m), Popped(m))
\* RST does not look at the outcome of its push.
Restart(m, lu) ==
    Goto(Unchecked(cpu_SP_push(m, (m.PC + 1) % Word)), 8 * extract_n3(lu.opcode))

Executed(m, lu) ==
    LET family == lu.family[1]
    IN  CASE family \in AluFamilies -> cpu_dispatch_alu(m, lu)
          [] family \in StorageFamilies -> cpu_dispatch_storage(m, lu)
          [] family \in {"JP_N16", "JP_CC_N16"} -> Goto(m, cpu_read_addr_after_opcode(m))
          [] family = "JP_HL" -> Goto(m, HLOf(m))
          [] family \in {"JR_E8", "JR_CC_E8"} -> Goto(m, m.PC + Signed8(cpu_read_data_after_opcode(m)))
          [] family \in {"CALL_N16", "CALL_CC_N16"} -> Call(m, lu)
          [] family \in {"RET", "RET_CC"} -> Return(m)
          [] family = "RST_U3" -> Restart(m, lu)
          [] family = "EDI" -> [m EXCEPT !.IME = extract_ime(lu.opcode)]
          [] family = "RETI" -> Return([m EXCEPT !.IME = 1])
          [] family = "HALT" -> [m EXCEPT !.HALT = 1]
          [] family \in {"STOP", "NOP"} -> m
          [] OTHER -> Fail(m, "ERR_INSTR")

\* After an error PC and idle_time stay.
cpu_dispatch(m, lu) ==
    LET conditional == lu.family[1] \in ConditionalFamilies
        taken == conditional => check_cc(m, lu)
        done == IF taken THEN Executed(m, lu) ELSE m
        stays == taken /\ lu.family[1] \in JumpFamilies
    IN  IF ~Fine(done) THEN done
        ELSE [done EXCEPT !.PC = IF stays THEN @ ELSE (@ + lu.bytes) % Word,
                          !.idle_time = (@ + lu.cycles + IF taken THEN lu.xtra_cycles ELSE 0) % 256]

\* The instruction at PC, from one table or the other.
Fetched(m) ==
    LET opcode == cpu_read_at_idx(m, m.PC)
    IN  IF opcode = 203 THEN instruction_prefixed[cpu_read_data_after_opcode(m)]
        ELSE instruction_direct[opcode]
=============================================================================
