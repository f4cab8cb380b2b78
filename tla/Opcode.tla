------------------------------- MODULE Opcode -------------------------------
(***************************************************************************)
(* The instruction set: the 500 rows of opcode.h, the two tables of        *)
(* opcode.c that hold them by opcode, and the macros that cut the operands *)
(* out of an opcode.                                                       *)
(*                                                                         *)
(* A row of opcode.h has a name, OP_LD_B_HLR, and is written by hand; a    *)
(* table lists names.  Here a name is <<"LD", "B", "HLR">>, with "-" for a *)
(* missing operand; and a family of the enum opcode_family is split at its *)
(* operand where the enum has the same family for several operands:        *)
(* ADD_A_R8 is <<"ADD_A", "R8">>, and the others have "-" in that place.   *)
(***************************************************************************)
EXTENDS Integers, Sequences

R8s   == {"B", "C", "D", "E", "H", "L", "A"}
\* reg_kind, with the operand that stands at the one code without a register
R8At  == <<"B", "C", "D", "E", "H", "L", "HLR", "A">>
\* reg_pair_kind; the last code is AF for the stack and SP everywhere else
R16At   == <<"BC", "DE", "HL", "AF">>
R16SPAt == <<"BC", "DE", "HL", "SP">>
Conditions == <<"NZ", "Z", "NC", "C">>
U3At == <<"0", "1", "2", "3", "4", "5", "6", "7">>

CodeOf(at, x) == (CHOOSE i \in DOMAIN at : at[i] = x) - 1
REG(x) == CodeOf(R8At, x)
\* An operand of a table of operands with the code that selects it.
Coded(at) == {[x |-> at[i], code |-> i - 1] : i \in DOMAIN at}

INSTR_DFX(kind, name, family, opcode, bytes, cycles, xtra) ==
    [kind |-> kind, name |-> name, family |-> family, opcode |-> opcode,
     bytes |-> bytes, cycles |-> cycles, xtra_cycles |-> xtra]
INSTR_DEF(name, family, opcode, bytes, cycles) ==
    INSTR_DFX("DIRECT", name, <<family, "-">>, opcode, bytes, cycles, 0)
INSTR_FORM(name, family, form, opcode, bytes, cycles) ==
    INSTR_DFX("DIRECT", name, <<family, form>>, opcode, bytes, cycles, 0)
INSTR_PRE(name, family, form, opcode, cycles) ==
    INSTR_DFX("PREFIXED", name, <<family, form>>, opcode, 2, cycles, 0)

-----------------------------------------------------------------------------
(* The direct rows of opcode.h, in its alphabetical order *)

\* One verb of the ALU: A with a register, with the byte at HL, with a byte.
Accumulator(verb, family, base) ==
    {INSTR_FORM(<<verb, "A", r>>, family, "R8", base + REG(r), 1, 1) : r \in R8s}
    \cup {INSTR_FORM(<<verb, "A", "HLR">>, family, "HLR", base + 6, 1, 2),
          INSTR_FORM(<<verb, "A", "N8">>, family, "N8", base + 70, 2, 2)}
\* One verb on the pairs and SP.
Wide(verb, family, base) ==
    {INSTR_FORM(<<verb, p.x, "-">>, family, "R16SP", base + 16 * p.code, 1, 2) : p \in Coded(R16SPAt)}
Counted(verb, family, base) ==
    {INSTR_FORM(<<verb, r, "-">>, family, "R8", base + 8 * REG(r), 1, 1) : r \in R8s}
    \cup {INSTR_FORM(<<verb, "HLR", "-">>, family, "HLR", base + 48, 1, 3)}
Conditional(verb, to, family, base, bytes, cycles, xtra) ==
    {INSTR_DFX("DIRECT", <<verb, c.x, to>>, <<family, "-">>, base + 8 * c.code,
               bytes, cycles, xtra) : c \in Coded(Conditions)}

OP_UNKOWN == INSTR_DEF(<<"UNKN", "-", "-">>, "UNKN", 0, 1, 1)

RowsADCtoCPL ==
    Accumulator("ADC", "ADD_A", 136) \cup Accumulator("ADD", "ADD_A", 128)
    \cup {INSTR_FORM(<<"ADD", "HL", p.x>>, "ADD_HL_R16SP", "-", 9 + 16 * p.code, 1, 2) :
              p \in Coded(R16SPAt)}
    \cup {INSTR_DEF(<<"ADD", "SP", "N">>, "LD_HLSP_S8", 232, 2, 4)}
    \cup Accumulator("AND", "AND_A", 160)
    \cup Conditional("CALL", "N16", "CALL_CC_N16", 196, 3, 3, 3)
    \cup {INSTR_DEF(<<"CALL", "N16", "-">>, "CALL_N16", 205, 3, 6),
          INSTR_DEF(<<"CCF", "-", "-">>, "SCCF", 63, 1, 1), INSTR_DEF(<<"CPL", "-", "-">>, "CPL", 47, 1, 1)}

RowsCPtoJR ==
    Accumulator("CP", "CP_A", 184)
    \cup {INSTR_DEF(<<"DAA", "-", "-">>, "DAA", 39, 1, 1)}
    \cup Counted("DEC", "DEC", 5) \cup Wide("DEC", "DEC", 11)
    \cup {INSTR_DEF(<<"DI", "-", "-">>, "EDI", 243, 1, 1), INSTR_DEF(<<"EI", "-", "-">>, "EDI", 251, 1, 1),
          INSTR_DEF(<<"HALT", "-", "-">>, "HALT", 118, 1, 1)}
    \cup Counted("INC", "INC", 4) \cup Wide("INC", "INC", 3)
    \cup Conditional("JP", "N16", "JP_CC_N16", 194, 3, 3, 1)
    \cup Conditional("JR", "E8", "JR_CC_E8", 32, 2, 2, 1)
    \cup {INSTR_DEF(<<"JP", "HL", "-">>, "JP_HL", 233, 1, 1), INSTR_DEF(<<"JP", "N16", "-">>, "JP_N16", 195, 3, 4),
          INSTR_DEF(<<"JR", "E8", "-">>, "JR_E8", 24, 2, 3)}

RowsLDPlaces ==
    {INSTR_DEF(<<"LD", "HLR", "N8">>, "LD_HLR_N8", 54, 2, 3),
     INSTR_DEF(<<"LD", "A", "BCR">>, "LD_A_BCR", 10, 1, 2),
     INSTR_DEF(<<"LD", "A", "DER">>, "LD_A_DER", 26, 1, 2),
     INSTR_DEF(<<"LD", "A", "HLRI">>, "LD_A_HLRU", 42, 1, 2),
     INSTR_DEF(<<"LD", "A", "HLRD">>, "LD_A_HLRU", 58, 1, 2),
     INSTR_DEF(<<"LD", "A", "CR">>, "LD_A_CR", 242, 1, 2),
     INSTR_DEF(<<"LD", "A", "N16R">>, "LD_A_N16R", 250, 3, 4),
     INSTR_DEF(<<"LD", "A", "N8R">>, "LD_A_N8R", 240, 2, 3),
     INSTR_DEF(<<"LD", "BCR", "A">>, "LD_BCR_A", 2, 1, 2),
     INSTR_DEF(<<"LD", "DER", "A">>, "LD_DER_A", 18, 1, 2),
     INSTR_DEF(<<"LD", "HLRI", "A">>, "LD_HLRU_A", 34, 1, 2),
     INSTR_DEF(<<"LD", "HLRD", "A">>, "LD_HLRU_A", 50, 1, 2),
     INSTR_DEF(<<"LD", "CR", "A">>, "LD_CR_A", 226, 1, 2),
     INSTR_DEF(<<"LD", "N16R", "A">>, "LD_N16R_A", 234, 3, 4),
     INSTR_DEF(<<"LD", "N8R", "A">>, "LD_N8R_A", 224, 2, 3),
     INSTR_DEF(<<"LD", "N16R", "SP">>, "LD_N16R_SP", 8, 3, 5),
     INSTR_DEF(<<"LD", "HL", "SP_N8">>, "LD_HLSP_S8", 248, 2, 3),
     INSTR_DEF(<<"LD", "SP", "HL">>, "LD_SP_HL", 249, 1, 2)}
\* LD of a register to itself is in the family NOP.
FamilyOfLD(r, s) == IF r = s THEN "NOP" ELSE "LD_R8_R8"
RowsLD ==
    {INSTR_DEF(<<"LD", r, s>>, FamilyOfLD(r, s), 64 + 8 * REG(r) + REG(s), 1, 1) :
         r \in R8s, s \in R8s}
    \cup {INSTR_DEF(<<"LD", r, "HLR">>, "LD_R8_HLR", 70 + 8 * REG(r), 1, 2) : r \in R8s}
    \cup {INSTR_DEF(<<"LD", r, "N8">>, "LD_R8_N8", 6 + 8 * REG(r), 2, 2) : r \in R8s}
    \cup {INSTR_DEF(<<"LD", "HLR", r>>, "LD_HLR_R8", 112 + REG(r), 1, 2) : r \in R8s}
    \cup {INSTR_DEF(<<"LD", p.x, "N16">>, "LD_R16SP_N16", 1 + 16 * p.code, 3, 3) : p \in Coded(R16SPAt)}
    \cup RowsLDPlaces

\* STOP takes no cycle at all.
RowsNOPtoXOR ==
    {INSTR_DEF(<<"NOP", "-", "-">>, "NOP", 0, 1, 1), INSTR_DEF(<<"SCF", "-", "-">>, "SCCF", 55, 1, 1),
     INSTR_DEF(<<"STOP", "-", "-">>, "STOP", 16, 1, 0),
     INSTR_DEF(<<"RET", "-", "-">>, "RET", 201, 1, 4), INSTR_DEF(<<"RETI", "-", "-">>, "RETI", 217, 1, 4),
     INSTR_DEF(<<"RLCA", "-", "-">>, "ROTCA", 7, 1, 1), INSTR_DEF(<<"RRCA", "-", "-">>, "ROTCA", 15, 1, 1),
     INSTR_DEF(<<"RLA", "-", "-">>, "ROTA", 23, 1, 1), INSTR_DEF(<<"RRA", "-", "-">>, "ROTA", 31, 1, 1)}
    \cup {INSTR_DEF(<<"POP", p.x, "-">>, "POP_R16", 193 + 16 * p.code, 1, 3) : p \in Coded(R16At)}
    \cup {INSTR_DEF(<<"PUSH", p.x, "-">>, "PUSH_R16", 197 + 16 * p.code, 1, 4) : p \in Coded(R16At)}
    \cup Conditional("RET", "-", "RET_CC", 192, 1, 2, 3)
    \cup {INSTR_DEF(<<"RST", u.x, "-">>, "RST_U3", 199 + 8 * u.code, 1, 4) : u \in Coded(U3At)}
    \cup Accumulator("OR", "OR_A", 176) \cup Accumulator("SBC", "SUB_A", 152)
    \cup Accumulator("SUB", "SUB_A", 144) \cup Accumulator("XOR", "XOR_A", 168)

-----------------------------------------------------------------------------
(* The prefixed rows of opcode.h *)

Shifted(verb, family, base) ==
    {INSTR_PRE(<<verb, r, "-">>, family, "R8", base + REG(r), 2) : r \in R8s}
    \cup {INSTR_PRE(<<verb, "HLR", "-">>, family, "HLR", base + 6, 4)}
Placed(verb, family, base, cyclesHLR) ==
    {INSTR_PRE(<<verb, u.x, r>>, family, "R8", base + 8 * u.code + REG(r), 2) :
         u \in Coded(U3At), r \in R8s}
    \cup {INSTR_PRE(<<verb, u.x, "HLR">>, family, "HLR", base + 8 * u.code + 6, cyclesHLR) :
              u \in Coded(U3At)}

RowsBIT == Placed("BIT", "BIT_U3", 64, 3)
RowsRES == Placed("RES", "CHG_U3", 128, 4)
RowsRLCtoRR == Shifted("RLC", "ROTC", 0) \cup Shifted("RL", "ROT", 16)
               \cup Shifted("RRC", "ROTC", 8) \cup Shifted("RR", "ROT", 24)
RowsSET == Placed("SET", "CHG_U3", 192, 4)
RowsSLAtoSWAP == Shifted("SLA", "SLA", 32) \cup Shifted("SRA", "SRA", 40)
                 \cup Shifted("SRL", "SRL", 56) \cup Shifted("SWAP", "SWAP", 48)

Rows == {OP_UNKOWN} \cup RowsADCtoCPL \cup RowsCPtoJR \cup RowsLD \cup RowsNOPtoXOR
        \cup RowsBIT \cup RowsRES \cup RowsRLCtoRR \cup RowsSET \cup RowsSLAtoSWAP

-----------------------------------------------------------------------------
(* The tables of opcode.c: the names in the order in which it lists them,
   eight to a line *)

None == <<"UNKN", "-", "-">>

\* The lines of the first quadrant go in twos, one for each pair.
DirectFirst(line) ==
    LET p == R16SPAt[line \div 2 + 1]
        x == R8At[line + 1]
        first == <<<<"NOP", "-", "-">>, <<"LD", "N16R", "SP">>, <<"STOP", "-", "-">>, <<"JR", "E8", "-">>,
                   <<"JR", "NZ", "E8">>, <<"JR", "Z", "E8">>, <<"JR", "NC", "E8">>, <<"JR", "C", "E8">>>>
        at == <<"BCR", "BCR", "DER", "DER", "HLRI", "HLRI", "HLRD", "HLRD">>[line + 1]
        last == <<"RLCA", "RRCA", "RLA", "RRA", "DAA", "CPL", "SCF", "CCF">>[line + 1]
        even == line % 2 = 0
    IN  <<first[line + 1],
          IF even THEN <<"LD", p, "N16">> ELSE <<"ADD", "HL", p>>,
          IF even THEN <<"LD", at, "A">> ELSE <<"LD", "A", at>>,
          <<IF even THEN "INC" ELSE "DEC", p, "-">>,
          <<"INC", x, "-">>, <<"DEC", x, "-">>, <<"LD", x, "N8">>, <<last, "-", "-">>>>

DirectLoads(line) ==
    [i \in 1 .. 8 |-> IF line = 6 /\ i = 7 THEN <<"HALT", "-", "-">>
                      ELSE <<"LD", R8At[line + 1], R8At[i]>>]

DirectAlu(line) ==
    LET verb == <<"ADD", "ADC", "SUB", "SBC", "AND", "XOR", "OR", "CP">>[line + 1]
    IN  [i \in 1 .. 8 |-> <<verb, "A", R8At[i]>>]

DirectLast(line) ==
    LET verb == <<"ADD", "ADC", "SUB", "SBC", "AND", "XOR", "OR", "CP">>[line + 1]
        c == Conditions[(line % 4) + 1]
        p == R16At[line \div 2 + 1]
        even == line % 2 = 0
        high == line >= 4
    IN  <<IF high THEN <<<<"LD", "N8R", "A">>, <<"ADD", "SP", "N">>,
                         <<"LD", "A", "N8R">>, <<"LD", "HL", "SP_N8">>>>[line - 3]
          ELSE <<"RET", c, "-">>,
          IF even THEN <<"POP", p, "-">>
          ELSE <<<<"RET", "-", "-">>, <<"RETI", "-", "-">>,
                 <<"JP", "HL", "-">>, <<"LD", "SP", "HL">>>>[line \div 2 + 1],
          IF high THEN <<<<"LD", "CR", "A">>, <<"LD", "N16R", "A">>,
                         <<"LD", "A", "CR">>, <<"LD", "A", "N16R">>>>[line - 3]
          ELSE <<"JP", c, "N16">>,
          CASE line = 0 -> <<"JP", "N16", "-">>
            [] line = 6 -> <<"DI", "-", "-">>
            [] line = 7 -> <<"EI", "-", "-">>
            [] OTHER -> None,
          IF high THEN None ELSE <<"CALL", c, "N16">>,
          IF even THEN <<"PUSH", p, "-">> ELSE IF line = 1 THEN <<"CALL", "N16", "-">> ELSE None,
          <<verb, "A", "N8">>,
          <<"RST", U3At[line + 1], "-">>>>

PrefixedFirst(line) ==
    LET verb == <<"RLC", "RRC", "RL", "RR", "SLA", "SRA", "SWAP", "SRL">>[line + 1]
    IN  [i \in 1 .. 8 |-> <<verb, R8At[i], "-">>]
PrefixedBIT(line) == [i \in 1 .. 8 |-> <<"BIT", U3At[line + 1], R8At[i]>>]
PrefixedRES(line) == [i \in 1 .. 8 |-> <<"RES", U3At[line + 1], R8At[i]>>]
PrefixedSET(line) == [i \in 1 .. 8 |-> <<"SET", U3At[line + 1], R8At[i]>>]

Place(i) == (i % 8) + 1
Line(i) == (i % 64) \div 8
DirectName(i) ==
    CASE i < 64 -> DirectFirst(Line(i))[Place(i)]
      [] i \in 64 .. 127 -> DirectLoads(Line(i))[Place(i)]
      [] i \in 128 .. 191 -> DirectAlu(Line(i))[Place(i)]
      [] i > 191 -> DirectLast(Line(i))[Place(i)]
PrefixedName(i) ==
    CASE i < 64 -> PrefixedFirst(Line(i))[Place(i)]
      [] i \in 64 .. 127 -> PrefixedBIT(Line(i))[Place(i)]
      [] i \in 128 .. 191 -> PrefixedRES(Line(i))[Place(i)]
      [] i > 191 -> PrefixedSET(Line(i))[Place(i)]

RowNamed(name) == CHOOSE row \in Rows : row.name = name
instruction_direct == [i \in 0 .. 255 |-> RowNamed(DirectName(i))]
instruction_prefixed == [i \in 0 .. 255 |-> RowNamed(PrefixedName(i))]

Sound(table, kind) ==
    \A i \in 0 .. 255 :
        table[i].kind = kind /\ (table[i].family[1] # "UNKN" => table[i].opcode = i)
opcode_check_integrity ==
    Sound(instruction_direct, "DIRECT") /\ Sound(instruction_prefixed, "PREFIXED")

-----------------------------------------------------------------------------
(* The operands in an opcode *)

bit(op, i) == (op \div 2 ^ i) % 2

extract_reg(op, index) == R8At[((op \div 2 ^ index) % 8) + 1]
extract_reg_pair(op) == (op \div 16) % 4
extract_n3(op) == (op \div 8) % 8
extract_sr_bit(op) == bit(op, 6)
extract_rot_dir(op) == IF bit(op, 3) = 1 THEN "RIGHT" ELSE "LEFT"
extract_sccf(op) == bit(op, 3)
extract_cc(op) == (op \div 8) % 4
extract_ime(op) == bit(op, 3)
\* Mutant: the directions swapped.
SwappedIncrement(op) == IF bit(op, 4) = 1 THEN 1 ELSE -1
extract_HL_increment(op) == IF bit(op, 4) = 1 THEN -1 ELSE 1
=============================================================================
