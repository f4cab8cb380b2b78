----------------------------- MODULE Mnemonics -----------------------------
(***************************************************************************)
(* What the names of opcode.h promise: the instruction at PC is the row of *)
(* opcode.h that carries its opcode, and it does what that row is called.  *)
(* Nothing here looks at the tables of opcode.c, at the family of a row or *)
(* at the bits of an opcode: OP_LD_B_HLR loads into B the byte at HL       *)
(* because it is called so.  Arithmetic is on whole numbers.               *)
(*                                                                         *)
(* Of the instructions it takes the machine, the memory and the registers  *)
(* behind it, and the cycles of the rows.                                  *)
(***************************************************************************)
EXTENDS Instructions

\* The length of an instruction follows from its operands.
Length(row) ==
    IF row.kind = "PREFIXED" THEN 2
    ELSE 1 + (IF {"N8", "E8", "N8R", "N", "SP_N8"} \cap {row.name[2], row.name[3]} # {} THEN 1 ELSE 0)
           + (IF {"N16", "N16R"} \cap {row.name[2], row.name[3]} # {} THEN 2 ELSE 0)

-----------------------------------------------------------------------------
(* Operands *)

Following(s) == cpu_read_at_idx(s, (s.PC + 1) % 65536)
FollowingWord(s) == cpu_read16_at_idx(s, (s.PC + 1) % 65536)

Wide16 == {"BC", "DE", "HL", "SP", "AF"}
Get16(s, x) == IF x = "SP" THEN s.SP ELSE cpu_reg_pair_get(s, x)
Set16(s, x, w) == IF x = "SP" THEN [s EXCEPT !.SP = w] ELSE cpu_reg_pair_set(s, x, w)

\* Where an operand in parentheses is.
Place8(s, x) ==
    CASE x \in {"HLR", "HLRI", "HLRD"} -> Get16(s, "HL")
      [] x = "BCR" -> Get16(s, "BC")
      [] x = "DER" -> Get16(s, "DE")
      [] x = "CR" -> 65280 + s.reg["C"]
      [] x = "N8R" -> 65280 + Following(s)
      [] x = "N16R" -> FollowingWord(s)
Get8(s, x) ==
    CASE x \in R8s -> s.reg[x]
      [] x = "N8" -> Following(s)
      [] OTHER -> cpu_read_at_idx(s, Place8(s, x))
Set8(s, x, v) ==
    IF x \in R8s THEN [s EXCEPT !.reg[x] = v] ELSE cpu_write_at_idx(s, Place8(s, x), v)
\* The result of a computation is dropped where it cannot be written.
Keep8(s, x, v) == Unchecked(Set8(s, x, v))

Up(s, f) == f \in s.F.up
Carry(s) == IF Up(s, "C") THEN 1 ELSE 0
\* Exactly these flags are up afterwards.
Flags(s, z, n, h, c) ==
    LET raised == [Z |-> z, N |-> n, H |-> h, C |-> c]
    IN  [s EXCEPT !.F = [up |-> {f \in DOMAIN raised : raised[f]}, low |-> 0]]

-----------------------------------------------------------------------------
(* Verbs *)

Add(s, y, c) ==
    LET a == s.reg["A"]
    IN  [Flags(s, (a + y + c) % 256 = 0, FALSE, (a % 16) + (y % 16) + c > 15, a + y + c > 255)
           EXCEPT !.reg["A"] = (a + y + c) % 256]
Compare(s, y, c) ==
    LET a == s.reg["A"]
    IN  Flags(s, (a - y - c) % 256 = 0, TRUE, a % 16 < (y % 16) + c, a < y + c)
Subtract(s, y, c) == [Compare(s, y, c) EXCEPT !.reg["A"] = (@ - y - c) % 256]

Has(v, i) == (v \div 2 ^ i) % 2 = 1
ByteOfBits(places) == CHOOSE v \in 0 .. 255 : \A i \in 0 .. 7 : Has(v, i) <=> i \in places
Ones(v) == {i \in 0 .. 7 : Has(v, i)}
Logic(s, places, h) ==
    [Flags(s, places = {}, FALSE, h, FALSE) EXCEPT !.reg["A"] = ByteOfBits(places)]

\* A byte becomes v, the bit that left it becomes the carry.
Turn(s, x, v, out) == Keep8(Flags(s, v = 0, FALSE, FALSE, out), x, v)
TurnA(s, v, out) == Keep8(Flags(s, FALSE, FALSE, FALSE, out), "A", v)

\* A decimal addition or subtraction is put right by 6 for each digit.
Decimal(s) ==
    LET a == s.reg["A"]
        units == IF Up(s, "H") \/ (~Up(s, "N") /\ a % 16 \in 10 .. 15) THEN 6 ELSE 0
        tens == IF Up(s, "C") \/ (~Up(s, "N") /\ a \in 154 .. 255) THEN 96 ELSE 0
        v == (IF Up(s, "N") THEN a - units - tens ELSE a + units + tens) % 256
    IN  [Flags(s, v = 0, Up(s, "N"), FALSE, tens # 0) EXCEPT !.reg["A"] = v]

\* SP plus a signed byte; the flags are those of the unsigned low bytes.
Displaced(s, to) ==
    LET b == Following(s)
        w == (s.SP + IF b > 127 THEN b - 256 ELSE b) % 65536
    IN  Set16(Flags(s, FALSE, FALSE, (s.SP % 16) + (b % 16) > 15, (s.SP % 256) + b > 255), to, w)

AddPair(s, w) ==
    LET hl == Get16(s, "HL")
    IN  Set16(Flags(s, Up(s, "Z"), FALSE, (hl % 4096) + (w % 4096) > 4095, hl + w > 65535),
              "HL", (hl + w) % 65536)

Step8(s, x, by) ==
    LET v == (Get8(s, x) + by) % 256
    IN  Keep8(Flags(s, v = 0, by = -1, v % 16 = (IF by = 1 THEN 0 ELSE 15), Up(s, "C")), x, v)

\* HL follows an access through (HL+) or (HL-) that is made.
Move(s, to, from) ==
    LET done == Set8(s, to, Get8(s, from))
        by == IF "HLRI" \in {to, from} THEN 1 ELSE -1
    IN  IF Fine(done) /\ {"HLRI", "HLRD"} \cap {to, from} # {}
        THEN Set16(done, "HL", (Get16(done, "HL") + by) % 65536)
        ELSE done
Loaded(s, to, from) ==
    CASE from = "SP_N8" -> Displaced(s, to)
      [] from = "N16" -> Set16(s, to, FollowingWord(s))
      [] to = "N16R" /\ from = "SP" -> cpu_write16_at_idx(s, Place8(s, to), s.SP)
      [] to \in Wide16 /\ from \in Wide16 -> Set16(s, to, Get16(s, from))
      [] OTHER -> Move(s, to, from)

\* The word goes below SP, or nothing happens.
Push(s, w) ==
    LET below == (s.SP - 2) % 65536
        done == cpu_write16_at_idx(s, below, w)
    IN  IF Fine(done) THEN [done EXCEPT !.SP = below] ELSE done
Holds(s, c) == CASE c = "NZ" -> ~Up(s, "Z") [] c = "Z" -> Up(s, "Z")
                 [] c = "NC" -> ~Up(s, "C") [] c = "C" -> Up(s, "C") [] OTHER -> TRUE

Digit(x) == (CHOOSE i \in 1 .. 8 : U3At[i] = x) - 1

\* All that does not concern PC.
Does(s, name) ==
    LET verb == name[1]
        x == name[2]
        y == name[3]
        v == Get8(s, x)
        u == Get8(s, y)
        a == s.reg["A"]
        i == Digit(x)
    IN  CASE verb = "LD" -> Loaded(s, x, y)
          [] verb = "PUSH" -> Push(s, Get16(s, x))
          [] verb = "POP" -> Set16([s EXCEPT !.SP = (@ + 2) % 65536], x, cpu_read16_at_idx(s, s.SP))
          [] verb = "ADD" /\ x = "HL" -> AddPair(s, Get16(s, y))
          [] verb = "ADD" /\ x = "SP" -> Displaced(s, "SP")
          [] verb = "ADD" /\ x = "A" -> Add(s, u, 0)
          [] verb = "ADC" -> Add(s, u, Carry(s))
          [] verb = "SUB" -> Subtract(s, u, 0)
          [] verb = "SBC" -> Subtract(s, u, Carry(s))
          [] verb = "CP" -> Compare(s, u, 0)
          [] verb = "AND" -> Logic(s, Ones(a) \cap Ones(u), TRUE)
          [] verb = "OR" -> Logic(s, Ones(a) \cup Ones(u), FALSE)
          [] verb = "XOR" -> Logic(s, (Ones(a) \cup Ones(u)) \ (Ones(a) \cap Ones(u)), FALSE)
          [] verb \in {"INC", "DEC"} /\ x \in Wide16 ->
                Set16(s, x, (Get16(s, x) + IF verb = "INC" THEN 1 ELSE -1) % 65536)
          [] verb = "INC" /\ x \notin Wide16 -> Step8(s, x, 1)
          [] verb = "DEC" /\ x \notin Wide16 -> Step8(s, x, -1)
          [] verb = "RLC" -> Turn(s, x, ((2 * v) % 256) + v \div 128, v > 127)
          [] verb = "RL" -> Turn(s, x, (2 * v + Carry(s)) % 256, v > 127)
          [] verb = "RRC" -> Turn(s, x, v \div 2 + 128 * (v % 2), v % 2 = 1)
          [] verb = "RR" -> Turn(s, x, (256 * Carry(s) + v) \div 2, v % 2 = 1)
          [] verb = "RLCA" -> TurnA(s, ((2 * a) % 256) + a \div 128, a > 127)
          [] verb = "RLA" -> TurnA(s, (2 * a + Carry(s)) % 256, a > 127)
          [] verb = "RRCA" -> TurnA(s, a \div 2 + 128 * (a % 2), a % 2 = 1)
          [] verb = "RRA" -> TurnA(s, (256 * Carry(s) + a) \div 2, a % 2 = 1)
          [] verb = "SLA" -> Turn(s, x, (2 * v) % 256, v > 127)
          [] verb = "SRL" -> Turn(s, x, v \div 2, v % 2 = 1)
          [] verb = "SRA" -> Turn(s, x, v \div 2 + (IF v > 127 THEN 128 ELSE 0), v % 2 = 1)
          [] verb = "SWAP" -> Turn(s, x, 16 * (v % 16) + v \div 16, FALSE)
          [] verb = "BIT" -> Flags(s, ~Has(u, i), FALSE, TRUE, Up(s, "C"))
          [] verb = "SET" -> Keep8(s, y, ByteOfBits(Ones(u) \cup {i}))
          [] verb = "RES" -> Keep8(s, y, ByteOfBits(Ones(u) \ {i}))
          [] verb = "CPL" -> [Flags(s, Up(s, "Z"), TRUE, TRUE, Up(s, "C")) EXCEPT !.reg["A"] = 255 - a]
          [] verb = "DAA" -> Decimal(s)
          [] verb = "SCF" -> Flags(s, Up(s, "Z"), FALSE, FALSE, TRUE)
          [] verb = "CCF" -> Flags(s, Up(s, "Z"), FALSE, FALSE, ~Up(s, "C"))
          [] verb \in {"DI", "EI"} -> [s EXCEPT !.IME = IF verb = "EI" THEN 1 ELSE 0]
          [] verb = "RETI" -> [s EXCEPT !.IME = 1]
          [] verb = "HALT" -> [s EXCEPT !.HALT = 1]
          [] OTHER -> s

Jumps == {"JP", "JR", "CALL", "RET", "RETI", "RST"}
\* The condition, if there is one, stands first.
Taken(s, name) == name[1] \in Jumps /\ Holds(s, name[2])

\* Where a jump that is taken goes.  A CALL whose return address comes to lie over
\* its operand goes where that address says: the operand is read when done.
Target(s, done, name, next) ==
    CASE name[1] \in {"RET", "RETI"} -> cpu_read16_at_idx(s, s.SP)
      [] name[1] = "RST" -> 8 * Digit(name[2])
      [] name[1] = "JR" -> (next + IF Following(s) > 127 THEN Following(s) - 256 ELSE Following(s)) % 65536
      [] name[1] = "JP" /\ name[2] = "HL" -> Get16(s, "HL")
      [] OTHER -> FollowingWord(done)
\* CALL stops where its return address cannot be pushed, RST goes on.
Stacked(s, name, next) ==
    CASE name[1] = "CALL" -> Push(s, next)
      [] name[1] = "RST" -> Unchecked(Push(s, next))
      [] name[1] \in {"RET", "RETI"} -> [s EXCEPT !.SP = (@ + 2) % 65536]
      [] OTHER -> s

Meaning(s, row) ==
    LET next == (s.PC + Length(row)) % 65536
        taken == Taken(s, row.name)
        done == IF taken THEN Stacked(Does(s, row.name), row.name, next) ELSE Does(s, row.name)
    IN  IF ~Fine(done) THEN Fail(s, done.err)
        ELSE [done EXCEPT !.PC = IF taken THEN Target(s, done, row.name, next) ELSE next,
                          !.idle_time = (@ + row.cycles + IF taken THEN row.xtra_cycles ELSE 0) % 256]

\* The row of opcode.h for the bytes at PC, if there is one.
Named(s) ==
    LET op == cpu_read_at_idx(s, s.PC)
    IN  {row \in Rows \ {OP_UNKOWN} :
            IF op = 203 THEN row.kind = "PREFIXED" /\ row.opcode = Following(s)
            ELSE row.kind = "DIRECT" /\ row.opcode = op}
=============================================================================
