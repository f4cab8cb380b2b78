--------------------------- MODULE DispatchTests ---------------------------
(***************************************************************************)
(* The unit tests of cpu_dispatch that the repository holds, as data: a    *)
(* test is a function from its runs, each on a machine of its own, to the  *)
(* steps of the run.  A step puts values into registers and memory,        *)
(* dispatches a row of opcode.h and says what is to be found afterwards.   *)
(* TestBench runs them.                                                    *)
(*                                                                         *)
(* Not here: the NULL arguments of dispatch_err, the messages, and the     *)
(* allocations of INIT_RUN and END_RUN.                                    *)
(***************************************************************************)
EXTENDS Opcode, DispatchData, TLC
LOCAL INSTANCE SequencesExt

\* A value in a register or a pair; on the bus, at an address or behind PC; on the stack.
Reg(x, v) == [what |-> x, at |-> 0, v |-> v]
Bus(a, v) == [what |-> "bus", at |-> a, v |-> v]
Program(i, v) == [what |-> "program", at |-> i, v |-> v]
Stack(v) == [what |-> "stack", at |-> 0, v |-> v]
Low(w) == w % 256
High(w) == w \div 256
Step(puts, op, want) == [puts |-> puts, op |-> op, want |-> want]

-----------------------------------------------------------------------------
(* unit-test-cpu-dispatch.h: the steps over the tables in (a, b, f) and
   out (v, f) *)

RUN_DISPATCH_ALU_HL(in, out, op) ==
    [i \in DOMAIN in.f |->
        Step(<<Reg("A", in.a[i]), Reg("F", in.f[i]), Reg("HL", 0), Bus(0, in.b[i])>>, op,
             {Reg("A", out.v[i]), Reg("F", out.f[i])})]
RUN_DISPATCH_ALU_N8(in, out, op) ==
    [i \in DOMAIN in.f |->
        Step(<<Reg("A", in.a[i]), Reg("F", in.f[i]), Reg("PC", 0), Bus(1, in.b[i])>>, op,
             {Reg("A", out.v[i]), Reg("F", out.f[i])})]
RUN_DISPATCH_ALU_R8(in, out, r, op) ==
    [i \in DOMAIN in.f |->
        Step(<<Reg("A", in.a[i]), Reg("F", in.f[i]), Reg(r, in.b[i])>>, op,
             {Reg("A", out.v[i]), Reg("F", out.f[i])})]
RUN_DISPATCH_ALU_R8_S(in, out, r, op) ==
    [i \in DOMAIN in.f |->
        Step(<<Reg("F", in.f[i]), Reg(r, in.a[i])>>, op, {Reg(r, out.v[i]), Reg("F", out.f[i])})]
RUN_DISPATCH_ALU_R16_S(in, out, p, op) == RUN_DISPATCH_ALU_R8_S(in, out, p, op)

\* One verb on A with each register, and with A itself.
OnRegisters(verb, in, out, outA) ==
    [r \in R8s |->
        IF r = "A" THEN RUN_DISPATCH_ALU_R8_S(in, outA, "A", <<verb, "A", "A">>)
        ELSE RUN_DISPATCH_ALU_R8(in, out, r, <<verb, "A", r>>)]
OnEach(verbs, in, out) ==
    [x \in verbs \X R8s |-> RUN_DISPATCH_ALU_R8_S(in, out[x[1]], x[2], <<x[1], x[2], "-">>)]

-----------------------------------------------------------------------------
(* unit-test-cpu-dispatch-week08.c *)

RUN_DISPATCH_ALU_R16(in, out, p, op) ==
    [i \in DOMAIN in.f |->
        Step(<<Reg("HL", in.a[i]), Reg("F", in.f[i]), Reg(p, in.b[i])>>, op,
             {Reg("HL", out.v[i]), Reg("F", out.f[i])})]

test_ADD_A_HLR == "" :> RUN_DISPATCH_ALU_HL(ADD_IN, ADD_OUT, <<"ADD", "A", "HLR">>)
test_ADC_A_HLR == "" :> RUN_DISPATCH_ALU_HL(ADD_IN, ADD_OUT_C, <<"ADC", "A", "HLR">>)
test_ADD_A_N8 == "" :> RUN_DISPATCH_ALU_N8(ADD_IN, ADD_OUT, <<"ADD", "A", "N8">>)
test_ADC_A_N8 == "" :> RUN_DISPATCH_ALU_N8(ADD_IN, ADD_OUT_C, <<"ADC", "A", "N8">>)
test_ADD_A_R8 == OnRegisters("ADD", ADD_IN, ADD_OUT, ADD_OUT_S)
test_ADC_A_R8 == OnRegisters("ADC", ADD_IN, ADD_OUT_C, ADD_OUT_SC)
test_INC8 == OnEach({"INC"}, INC_IN, [INC |-> INC_OUT])
test_INC16 ==
    [p \in {"BC", "DE", "SP"} |-> RUN_DISPATCH_ALU_R16_S(INC_IN16, INC_OUT16, p, <<"INC", p, "-">>)]
test_ADD_HL_R16 ==
    [p \in {"BC", "DE", "HL", "SP"} |->
        IF p = "HL" THEN RUN_DISPATCH_ALU_R16_S(ADD_IN16, ADD_OUT_S16, p, <<"ADD", "HL", "HL">>)
        ELSE RUN_DISPATCH_ALU_R16(ADD_IN16, ADD_OUT16, p, <<"ADD", "HL", p>>)]
test_ROT_R8 == OnEach({"RL", "RR"}, ROT_IN, [RL |-> ROT_OUT_LZ, RR |-> ROT_OUT_RZ])
test_SLA_R8 == OnEach({"SLA"}, SHFT_IN, [SLA |-> SHFT_OUT_L])
test_CP_A_R8 == OnRegisters("CP", CP_IN, CP_OUT, CP_OUT_S)

\* One run: every register, in it every bit, in it the table.
R7 == <<"A", "B", "C", "D", "E", "H", "L">>
BITOP_R8_HELPER(verb, out) ==
    FlattenSeq([k \in 1 .. 56 |->
        LET r == R7[((k - 1) \div 8) + 1]
            n == ((k - 1) % 8) + 1
        IN  RUN_DISPATCH_ALU_R8_S(BIT_IN, out[n], r, <<verb, U3At[n], r>>)])
BITOP_OUT == [n \in 1 .. 8 |-> [v |-> BIT_IN.a, f |-> BIT_OUT_FLAG[n]]]
CHG_OUT == [n \in 1 .. 8 |-> [v |-> CHG_OUT_DATA[n], f |-> BIT_IN.f]]
test_BIT_U3_R8 == "" :> BITOP_R8_HELPER("BIT", BITOP_OUT)
test_CHG_U3_R8 == "" :> BITOP_R8_HELPER("RES", CHG_OUT)

\* sp is what the step before has left.
Pairs == <<"AF", "BC", "DE", "HL">>
LD_PUSH_R16_HELPER(p, i, sp) ==
    Step(<<Reg("SP", sp), Reg(p, SPPP.nn[i])>>, <<"PUSH", p, "-">>,
         {Reg("SP", sp - 2), Bus(sp - 1, SPPP.n2[i]),
          Bus(sp - 2, IF p = "AF" THEN SPPP.n1f[i] ELSE SPPP.n1[i])})
LD_POP_R16_HELPER(p, i, sp) ==
    Step(<<Reg("SP", sp), Bus(sp, SPPP.n1[i]), Bus(sp + 1, SPPP.n2[i])>>, <<"POP", p, "-">>,
         {Reg("SP", sp + 2), Reg(p, IF p = "AF" THEN SPPP.nnf[i] ELSE SPPP.nn[i])})
test_PUSH_R16 ==
    "" :> [k \in 1 .. 32 |->
              LD_PUSH_R16_HELPER(Pairs[((k - 1) \div 8) + 1], ((k - 1) % 8) + 1, 255 - 2 * (k - 1))]
test_POP_R16 ==
    "" :> [k \in 1 .. 32 |->
              LD_POP_R16_HELPER(Pairs[((k - 1) \div 8) + 1], ((k - 1) % 8) + 1, 255 + 2 * (k - 1))]
test_PUSH_POP_R16 ==
    "" :> FlattenSeq([k \in 1 .. 32 |->
              LET p == Pairs[((k - 1) \div 8) + 1]
                  i == ((k - 1) % 8) + 1
              IN  <<LD_PUSH_R16_HELPER(p, i, 255), LD_POP_R16_HELPER(p, i, 253)>>])

\* The data of the loads and stores, and the addresses.
dt == <<\h00, \h10, \h11, \hFF, \h00, \hDD, \h0F, \hF0>>
hlv == <<0, 0, 1, 1, 1, 0, 0, 0>>
hlevd == <<\hFFFF, \hFFFF, 0, 0, 0, \hFFFF, \hFFFF, \hFFFF>>
hlevi == <<1, 1, 2, 2, 2, 1, 1, 1>>
n16(i) == <<Program(1, SPPP.n1[i]), Program(2, SPPP.n2[i])>>

\* A load of A from where the pair points, HL being next afterwards.
FromPair(p, op, next) ==
    [i \in DOMAIN dt |-> Step(<<Bus(hlv[i], dt[i]), Reg(p, hlv[i])>>, <<"LD", "A", op>>,
                              {Reg("A", dt[i]), Reg(p, next[i])})]
test_LD_A_BCR == "" :> FromPair("BC", "BCR", hlv)
test_LD_A_CR ==
    "" :> [i \in DOMAIN dt |->
              Step(<<Bus(\hFF00 + hlv[i], dt[i]), Reg("C", hlv[i])>>, <<"LD", "A", "CR">>,
                   {Reg("A", dt[i])})]
test_LD_A_DER == "" :> FromPair("DE", "DER", hlv)
test_LD_A_HLR == "" :> FromPair("HL", "HLR", hlv)
test_LD_A_HLRU == "" :> FromPair("HL", "HLRD", hlevd) \o FromPair("HL", "HLRI", hlevi)
test_LD_A_N16R ==
    "" :> [i \in DOMAIN dt |-> Step(<<Bus(SPPP.nn[i], dt[i])>> \o n16(i), <<"LD", "A", "N16R">>,
                                    {Reg("A", dt[i])})]
test_LD_A_N8R ==
    "" :> [i \in DOMAIN dt |->
              Step(<<Bus(\hFF00 + SPPP.n1[i], dt[i]), Program(1, SPPP.n1[i])>>,
                   <<"LD", "A", "N8R">>, {Reg("A", dt[i])})]
test_LD_R16SP_N16 ==
    "" :> FlattenSeq([i \in DOMAIN dt |-> [k \in 1 .. 4 |->
              Step(n16(i), <<"LD", R16SPAt[k], "N16">>, {Reg(R16SPAt[k], SPPP.nn[i])})]])
test_LD_R8_HLR ==
    "" :> FlattenSeq([i \in DOMAIN dt |-> [k \in 1 .. 7 |->
              Step(<<Reg("HL", hlv[i]), Bus(hlv[i], dt[i])>>, <<"LD", R7[k], "HLR">>,
                   {Reg(R7[k], dt[i])})]])
test_LD_R8_N8 ==
    "" :> FlattenSeq([i \in DOMAIN dt |-> [k \in 1 .. 7 |->
              Step(<<Program(1, dt[i])>>, <<"LD", R7[k], "N8">>, {Reg(R7[k], dt[i])})]])

\* A store of A to where the pair points.
ToPair(p, op, next) ==
    [i \in DOMAIN dt |-> Step(<<Reg("A", dt[i]), Reg(p, hlv[i])>>, <<"LD", op, "A">>,
                              {Bus(hlv[i], dt[i]), Reg(p, next[i])})]
test_LD_BCR_A == "" :> ToPair("BC", "BCR", hlv)
test_LD_CR_A ==
    "" :> [i \in DOMAIN dt |->
              Step(<<Reg("A", dt[i]), Reg("C", hlv[i])>>, <<"LD", "CR", "A">>,
                   {Bus(\hFF00 + hlv[i], dt[i])})]
test_LD_DER_A == "" :> ToPair("DE", "DER", hlv)
test_LD_HLRU_A == "" :> ToPair("HL", "HLRD", hlevd) \o ToPair("HL", "HLRI", hlevi)
test_LD_HLR_N8 ==
    "" :> [i \in DOMAIN dt |->
              Step(<<Reg("HL", hlv[i]), Reg("PC", \h20), Program(1, dt[i])>>, <<"LD", "HLR", "N8">>,
                   {Bus(hlv[i], dt[i])})]
test_LD_HLR_R8 ==
    "" :> FlattenSeq([i \in DOMAIN dt |-> [k \in 1 .. 7 |->
              Step(<<Reg("HL", hlv[i]), Reg(R7[k], dt[i])>>, <<"LD", "HLR", R7[k]>>,
                   {Bus(hlv[i], dt[i])})]])
test_LD_N16R_A ==
    "" :> [i \in DOMAIN dt |-> Step(<<Reg("A", dt[i])>> \o n16(i), <<"LD", "N16R", "A">>,
                                    {Bus(SPPP.nn[i], dt[i])})]
test_LD_N16R_SP ==
    LET words == <<\hDEAD, \h1010, \h1111, \hFFFF, \h0000, \hDEAD, \h0F0F, \hF0F0>>
    IN  "" :> [i \in DOMAIN words |-> Step(<<Reg("SP", words[i])>> \o n16(i), <<"LD", "N16R", "SP">>,
                {Bus(SPPP.nn[i], Low(words[i])), Bus(SPPP.nn[i] + 1, High(words[i]))})]
test_LD_SP_HL ==
    LET nn == <<\h0000, \hDEAD, \h00FF, \h1010, \h0101, \h0000, \hDEAD, \hBEEF, \h0000>>
    IN  "" :> [i \in DOMAIN nn |-> Step(<<Reg("HL", nn[i])>>, <<"LD", "SP", "HL">>, {Reg("SP", nn[i])})]
test_LD_R8_R8 ==
    LET n == <<\h00, \hAD, \hFF, \h01, \h10, \h00, \hDD, \hBB, \h00, \hC0, \hFE, \hCA, \hDA, \h00,
               \hBE, \hEF, \h00>>
    IN  "" :> FlattenSeq([k \in 1 .. 49 |-> [i \in DOMAIN n |->
              LET to == R7[((k - 1) \div 7) + 1]
                  from == R7[((k - 1) % 7) + 1]
              IN  Step(<<Reg(from, n[i])>>, <<"LD", to, from>>, {Reg(to, n[i])})]])
test_STOP == "" :> <<Step(<<>>, <<"STOP", "-", "-">>, {})>>
test_NOP == "" :> <<Step(<<>>, <<"NOP", "-", "-">>, {})>>

-----------------------------------------------------------------------------
(* unit-test-cpu-dispatch.c *)

RUN_DISPATCH_ALU_A(in, out, op) == RUN_DISPATCH_ALU_R8_S(in, out, "A", op)
RUN_DISPATCH_ALU_HL_S(in, out, op) ==
    [i \in DOMAIN in.f |->
        Step(<<Reg("F", in.f[i]), Reg("HL", 0), Bus(0, in.a[i])>>, op,
             {Bus(0, out.v[i]), Reg("F", out.f[i])})]
\* One table each, the verb being the run.
OnA(in, outs) == [verb \in DOMAIN outs |-> RUN_DISPATCH_ALU_A(in, outs[verb], <<verb, "-", "-">>)]
AtHL(in, outs) == [verb \in DOMAIN outs |-> RUN_DISPATCH_ALU_HL_S(in, outs[verb], <<verb, "HLR", "-">>)]

test_SUB_A_HLR == "" :> RUN_DISPATCH_ALU_HL(SUB_IN, SUB_OUT, <<"SUB", "A", "HLR">>)
test_SBC_A_HLR == "" :> RUN_DISPATCH_ALU_HL(SUB_IN, SUB_OUT_C, <<"SBC", "A", "HLR">>)
test_SUB_A_N8 == "" :> RUN_DISPATCH_ALU_N8(SUB_IN, SUB_OUT, <<"SUB", "A", "N8">>)
test_SBC_A_N8 == "" :> RUN_DISPATCH_ALU_N8(SUB_IN, SUB_OUT_C, <<"SBC", "A", "N8">>)
test_SUB_A_R8 == OnRegisters("SUB", SUB_IN, SUB_OUT, SUB_OUT_S)
test_SBC_A_R8 == OnRegisters("SBC", SUB_IN, SUB_OUT_C, SUB_OUT_SC)
test_DEC8 == OnEach({"DEC"}, DEC_IN, [DEC |-> DEC_OUT])
test_DEC16 ==
    [p \in {"BC", "DE", "SP"} |-> RUN_DISPATCH_ALU_R16_S(DEC_IN16, DEC_OUT16, p, <<"DEC", p, "-">>)]
test_AND_A_HLR == "" :> RUN_DISPATCH_ALU_HL(AND_IN, AND_OUT, <<"AND", "A", "HLR">>)
test_AND_A_N8 == "" :> RUN_DISPATCH_ALU_N8(AND_IN, AND_OUT, <<"AND", "A", "N8">>)
test_AND_A_R8 == OnRegisters("AND", AND_IN, AND_OUT, AND_OUT_S)
test_OR_A_HLR == "" :> RUN_DISPATCH_ALU_HL(OR_IN, OR_OUT, <<"OR", "A", "HLR">>)
test_OR_A_N8 == "" :> RUN_DISPATCH_ALU_N8(OR_IN, OR_OUT, <<"OR", "A", "N8">>)
test_OR_A_R8 == OnRegisters("OR", OR_IN, OR_OUT, OR_OUT_S)
test_XOR_A_HLR == "" :> RUN_DISPATCH_ALU_HL(XOR_IN, XOR_OUT, <<"XOR", "A", "HLR">>)
test_XOR_A_N8 == "" :> RUN_DISPATCH_ALU_N8(XOR_IN, XOR_OUT, <<"XOR", "A", "N8">>)
test_XOR_A_R8 == OnRegisters("XOR", XOR_IN, XOR_OUT, XOR_OUT_S)
test_ROTA == OnA(ROT_IN, [RLA |-> ROT_OUT_L, RRA |-> ROT_OUT_R])
test_ROTCA == OnA(ROT_IN, [RLCA |-> ROT_OUT_LC, RRCA |-> ROT_OUT_RC])
test_ROT_HLR == AtHL(ROT_IN, [RL |-> ROT_OUT_LZ, RR |-> ROT_OUT_RZ])
test_ROTC_HLR == AtHL(ROT_IN, [RLC |-> ROT_OUT_LCZ, RRC |-> ROT_OUT_RCZ])
test_ROTC_R8 == OnEach({"RLC", "RRC"}, ROT_IN, [RLC |-> ROT_OUT_LCZ, RRC |-> ROT_OUT_RCZ])
test_SXA_HLR == AtHL(SHFT_IN, [SLA |-> SHFT_OUT_L, SRA |-> SHFT_OUT_R])
test_SXA_R8 == OnEach({"SLA", "SRA"}, SHFT_IN, [SLA |-> SHFT_OUT_L, SRA |-> SHFT_OUT_R])
test_SRL_HLR == AtHL(SHFT_IN, [SRL |-> SHFT_OUT_RL])
test_SRL_R8 == OnEach({"SRL"}, SHFT_IN, [SRL |-> SHFT_OUT_RL])
test_CP_A_HLR == "" :> RUN_DISPATCH_ALU_HL(CP_IN, CP_OUT, <<"CP", "A", "HLR">>)
test_CP_A_N8 == "" :> RUN_DISPATCH_ALU_N8(CP_IN, CP_OUT, <<"CP", "A", "N8">>)
test_SWAP_HLR == AtHL(SWAP_IN, [SWAP |-> SWAP_OUT])
test_SWAP_R8 == OnEach({"SWAP"}, SWAP_IN, [SWAP |-> SWAP_OUT])

\* HL stays 0; each byte of the table meets every bit.
BITOP_HL_HELPER(verb, out) ==
    FlattenSeq([i \in DOMAIN BIT_IN.f |-> [n \in 1 .. 8 |->
        Step(<<Bus(0, BIT_IN.a[i]), Reg("F", BIT_IN.f[i])>>, <<verb, U3At[n], "HLR">>,
             {Bus(0, out[n].v[i]), Reg("F", out[n].f[i])})]])
test_BIT_U3_HLR == "" :> BITOP_HL_HELPER("BIT", BITOP_OUT)
test_CHG_U3_HLR == "" :> BITOP_HL_HELPER("RES", CHG_OUT)

test_LD_HLSP_S8 ==
    LET loop(op, to) ==
            [i \in DOMAIN LD_HLSP_INPUT.f |->
                Step(<<Reg("SP", LD_HLSP_INPUT.a[i]), Reg("F", LD_HLSP_INPUT.f[i]), Reg("PC", 0),
                       Bus(1, LD_HLSP_INPUT.b[i])>>, op,
                     {Reg(to, LD_HLSP_OUTPUT.v[i]), Reg("F", LD_HLSP_OUTPUT.f[i])})]
    IN  "" :> loop(<<"LD", "HL", "SP_N8">>, "HL") \o loop(<<"ADD", "SP", "N">>, "SP")
test_DAA == "" :> RUN_DISPATCH_ALU_A(DAA_INPUT, DAA_OUTPUT, <<"DAA", "-", "-">>)
test_SCCF ==
    LET loop(op, out) == [i \in DOMAIN SCCF.f |-> Step(<<Reg("F", SCCF.f[i])>>, op, {Reg("F", out[i])})]
    IN  "" :> loop(<<"SCF", "-", "-">>, SCCF.scf) \o loop(<<"CCF", "-", "-">>, SCCF.ccf)

-----------------------------------------------------------------------------
(* unit-test-cpu-dispatch-week09.c *)

pcvr == <<\hDEAD, \hBEEF, \h0000, \h00FF>>
\* A 16-bit operand behind the opcode.
Target(a) == <<Program(1, Low(a)), Program(2, High(a))>>

test_JP_HL ==
    "" :> [i \in DOMAIN pcvr |->
              Step(<<Reg("PC", \hF00D), Reg("L", Low(pcvr[i])), Reg("H", High(pcvr[i]))>>,
                   <<"JP", "HL", "-">>, {Reg("PC", pcvr[i])})]
test_JP_N16 ==
    "" :> [i \in DOMAIN pcvr |->
              Step(<<Reg("PC", \hF00D)>> \o Target(pcvr[i]), <<"JP", "N16", "-">>, {Reg("PC", pcvr[i])})]
test_CALL_N16 ==
    "" :> [i \in DOMAIN pcvr |->
              Step(<<Reg("PC", \hF00D)>> \o Target(pcvr[i]) \o <<Reg("SP", 0)>>, <<"CALL", "N16", "-">>,
                   {Reg("PC", pcvr[i]), Stack(\hF00D + 3)})]

\* The flags in steps of 16; output_c, output_nc, output_z and output_nz.
insts == <<"C", "NC", "Z", "NZ">>
Outputs(c, i) ==
    CASE c = "C"  -> i % 2 = 0
      [] c = "NC" -> i % 2 = 1
      [] c = "Z"  -> i > 8
      [] c = "NZ" -> i <= 8
OnConditions(puts, op(_), wants(_)) ==
    "" :> FlattenSeq([k \in 1 .. 4 |-> [i \in 1 .. 16 |->
              Step(<<Reg("F", 16 * (i - 1))>> \o puts, op(insts[k]), wants(Outputs(insts[k], i)))]])
test_JP_CC_N16 ==
    OnConditions(<<Reg("PC", \hDEAA)>> \o Target(\hBEEF), LAMBDA c : <<"JP", c, "N16">>,
                 LAMBDA taken : {Reg("PC", IF taken THEN \hBEEF ELSE \hDEAD)})
test_JR_CC_E8 ==
    OnConditions(<<Reg("PC", \hDEAB), Program(1, \h81)>>, LAMBDA c : <<"JR", c, "E8">>,
                 LAMBDA taken : {Reg("PC", IF taken THEN \hDE2E ELSE \hDEAD)})
\* A call that is taken is popped again: SP is where it was.
test_CALL_CC_N16 ==
    OnConditions(<<Reg("PC", \hDEAA), Reg("SP", \hFFFF)>> \o Target(\hBEEF),
                 LAMBDA c : <<"CALL", c, "N16">>,
                 LAMBDA taken : IF taken THEN {Reg("PC", \hBEEF), Stack(\hDEAD)} ELSE {Reg("PC", \hDEAD)})
\* What a return that is not taken leaves on the stack stays there.
test_RET_CC ==
    LET steps == OnConditions(<<Reg("PC", \hDEAC), Stack(\hBEEF)>>, LAMBDA c : <<"RET", c, "-">>,
                              LAMBDA taken : {Reg("PC", IF taken THEN \hBEEF ELSE \hDEAD)})
    IN  [steps EXCEPT ![""][1].puts = <<Reg("SP", \hFFFF)>> \o @]

test_JR_E8 ==
    LET pcvi == <<\h00FF, \h0000, \hDEAD, \hBEEF>>
        pcv == <<\hFF, \h01, \hAD, \hEF>>
        pcvres == <<\h0100, \h0003, \hDE5C, \hBEE0>>
    IN  "" :> [i \in DOMAIN pcvi |-> Step(<<Reg("PC", pcvi[i]), Program(1, pcv[i])>>, <<"JR", "E8", "-">>,
                                          {Reg("PC", pcvres[i])})]
test_RET ==
    LET pcv == <<\h000F, \hDEAD, \hBEEF, \hC0FE, \hD1CE, \hC001>>
    IN  "" :> [i \in DOMAIN pcv |-> Step(<<Stack(pcv[i])>>, <<"RET", "-", "-">>, {Reg("PC", pcv[i])})]
test_RST_U3 ==
    "" :> [n \in 1 .. 8 |-> Step(<<Reg("PC", \h0F), Reg("SP", \hFFFF)>>, <<"RST", U3At[n], "-">>,
                                 {Reg("PC", 8 * (n - 1)), Stack(\h10)})]
test_EDI ==
    LET order == <<0, 1, 0, 0, 1, 1, 0>>
    IN  "" :> [i \in DOMAIN order |-> Step(<<>>, <<IF order[i] = 0 THEN "DI" ELSE "EI", "-", "-">>,
                                           {Reg("IME", order[i])})]
test_RETI == "" :> <<Step(<<Reg("SP", \hFFFF), Stack(\hDEAD)>>, <<"RETI", "-", "-">>,
                          {Reg("IME", 1), Reg("PC", \hDEAD)})>>
test_HALT == "" :> <<Step(<<>>, <<"HALT", "-", "-">>, {Reg("HALT", 1)})>>

-----------------------------------------------------------------------------
\* cpu_test_suite of the three files.
week08_suite ==
    [ADD_A_HLR |-> test_ADD_A_HLR, ADC_A_HLR |-> test_ADC_A_HLR, ADD_A_N8 |-> test_ADD_A_N8,
     ADC_A_N8 |-> test_ADC_A_N8, ADD_A_R8 |-> test_ADD_A_R8, ADC_A_R8 |-> test_ADC_A_R8,
     INC8 |-> test_INC8, INC16 |-> test_INC16, ADD_HL_R16 |-> test_ADD_HL_R16,
     ROT_R8 |-> test_ROT_R8, SLA_R8 |-> test_SLA_R8, CP_A_R8 |-> test_CP_A_R8,
     BIT_U3_R8 |-> test_BIT_U3_R8, CHG_U3_R8 |-> test_CHG_U3_R8, PUSH_R16 |-> test_PUSH_R16,
     POP_R16 |-> test_POP_R16, PUSH_POP_R16 |-> test_PUSH_POP_R16, LD_A_BCR |-> test_LD_A_BCR,
     LD_A_CR |-> test_LD_A_CR, LD_A_DER |-> test_LD_A_DER, LD_A_HLR |-> test_LD_A_HLR,
     LD_A_HLRU |-> test_LD_A_HLRU, LD_A_N16R |-> test_LD_A_N16R, LD_A_N8R |-> test_LD_A_N8R,
     LD_R16SP_N16 |-> test_LD_R16SP_N16, LD_R8_HLR |-> test_LD_R8_HLR, LD_R8_N8 |-> test_LD_R8_N8,
     LD_BCR_A |-> test_LD_BCR_A, LD_CR_A |-> test_LD_CR_A, LD_DER_A |-> test_LD_DER_A,
     LD_HLRU_A |-> test_LD_HLRU_A, LD_HLR_N8 |-> test_LD_HLR_N8, LD_HLR_R8 |-> test_LD_HLR_R8,
     LD_N16R_A |-> test_LD_N16R_A, LD_N16R_SP |-> test_LD_N16R_SP, LD_SP_HL |-> test_LD_SP_HL,
     LD_R8_R8 |-> test_LD_R8_R8, STOP |-> test_STOP, NOP |-> test_NOP]
cpu_suite ==
    [SUB_A_HLR |-> test_SUB_A_HLR, SBC_A_HLR |-> test_SBC_A_HLR, SUB_A_N8 |-> test_SUB_A_N8,
     SBC_A_N8 |-> test_SBC_A_N8, SUB_A_R8 |-> test_SUB_A_R8, SBC_A_R8 |-> test_SBC_A_R8,
     DEC8 |-> test_DEC8, DEC16 |-> test_DEC16, AND_A_HLR |-> test_AND_A_HLR,
     AND_A_N8 |-> test_AND_A_N8, AND_A_R8 |-> test_AND_A_R8, OR_A_HLR |-> test_OR_A_HLR,
     OR_A_N8 |-> test_OR_A_N8, OR_A_R8 |-> test_OR_A_R8, XOR_A_HLR |-> test_XOR_A_HLR,
     XOR_A_N8 |-> test_XOR_A_N8, XOR_A_R8 |-> test_XOR_A_R8, ROTA |-> test_ROTA,
     ROTCA |-> test_ROTCA, ROT_HLR |-> test_ROT_HLR, ROTC_HLR |-> test_ROTC_HLR,
     ROTC_R8 |-> test_ROTC_R8, SXA_HLR |-> test_SXA_HLR, SXA_R8 |-> test_SXA_R8,
     SRL_HLR |-> test_SRL_HLR, SRL_R8 |-> test_SRL_R8, CP_A_HLR |-> test_CP_A_HLR,
     CP_A_N8 |-> test_CP_A_N8, SWAP_HLR |-> test_SWAP_HLR, SWAP_R8 |-> test_SWAP_R8,
     BIT_U3_HLR |-> test_BIT_U3_HLR, CHG_U3_HLR |-> test_CHG_U3_HLR,
     LD_HLSP_S8 |-> test_LD_HLSP_S8, DAA |-> test_DAA, SCCF |-> test_SCCF]
week09_suite ==
    [JP_HL |-> test_JP_HL, JP_N16 |-> test_JP_N16, CALL_N16 |-> test_CALL_N16,
     JP_CC_N16 |-> test_JP_CC_N16, JR_CC_E8 |-> test_JR_CC_E8, CALL_CC_N16 |-> test_CALL_CC_N16,
     RET_CC |-> test_RET_CC, JR_E8 |-> test_JR_E8, RET |-> test_RET, RST_U3 |-> test_RST_U3,
     EDI |-> test_EDI, RETI |-> test_RETI, HALT |-> test_HALT]
Tests == week08_suite @@ cpu_suite @@ week09_suite
=============================================================================
