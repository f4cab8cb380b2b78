----------------------------- MODULE Arithmetic -----------------------------
(***************************************************************************)
(* What the arithmetic instructions of the Game Boy promise, in whole      *)
(* numbers: each result is the exact sum, difference, double or half taken *)
(* modulo the register's size, and each flag says something about the      *)
(* numbers rather than about nibbles.  There is no ALU here.               *)
(***************************************************************************)
EXTENDS Integers

CONSTANTS Nibble, Byte, Places, Power(_),   \* the width of the machine
          Bytes, Words                        \* operands that come from elsewhere

VARIABLES
    A, H, L,    \* registers, numbers below Byte
    up          \* the flags that are up
vars == <<A, H, L, up>>

U8 == 0 .. Byte - 1
HL == H * Byte + L
Carry == IF "C" \in up THEN 1 ELSE 0

Register(r) == CASE r = "A" -> A [] r = "H" -> H [] r = "L" -> L
Registers == {"A", "H", "L"}

\* Register r takes value v, the others stay.
Becomes(r, v) ==
    /\ A' = (IF r = "A" THEN v ELSE A)
    /\ H' = (IF r = "H" THEN v ELSE H)
    /\ L' = (IF r = "L" THEN v ELSE L)
HLBecomes(v) == A' = A /\ H' = v \div Byte /\ L' = v % Byte

\* Exactly these of the four flags are up afterwards.
Flags(z, n, h, c) ==
    up' = {f \in {"Z", "N", "H", "C"} :
             \/ f = "Z" /\ z
             \/ f = "N" /\ n
             \/ f = "H" /\ h
             \/ f = "C" /\ c}

Init == A = 0 /\ H = 0 /\ L = 0 /\ up = {}

\* Addition with or without the carry of the one before.
Add(y, c) ==
    /\ Becomes("A", (A + y + c) % Byte)
    /\ Flags((A + y + c) % Byte = 0, FALSE,
             (A % Nibble) + (y % Nibble) + c >= Nibble, A + y + c >= Byte)

\* A comparison is a subtraction whose result is dropped.
Compare(y) ==
    /\ UNCHANGED <<A, H, L>>
    /\ Flags(A = y, TRUE, A % Nibble < y % Nibble, A < y)

\* Counting up and down leaves the carry to the additions around it.
CountUp(r) ==
    LET v == (Register(r) + 1) % Byte
    IN  Becomes(r, v) /\ Flags(v = 0, FALSE, v % Nibble = 0, "C" \in up)
CountDown(r) ==
    LET v == (Register(r) - 1) % Byte
    IN  Becomes(r, v)
        /\ Flags(v = 0, TRUE, Register(r) % Nibble = 0, "C" \in up)

AddPair(w) ==
    /\ HLBecomes((HL + w) % (Byte * Byte))
    /\ Flags("Z" \in up, FALSE,
             (HL % (Byte * Nibble)) + (w % (Byte * Nibble)) >= Byte * Nibble,
             HL + w >= Byte * Byte)
CountPairUp == HLBecomes((HL + 1) % (Byte * Byte)) /\ UNCHANGED up

Double(r) ==
    LET v == (2 * Register(r)) % Byte
    IN  Becomes(r, v) /\ Flags(v = 0, FALSE, FALSE, 2 * Register(r) >= Byte)
\* The carry takes part as one more digit, below or above the register.
RotateUp(r) ==
    LET v == (2 * Register(r) + Carry) % Byte
    IN  Becomes(r, v) /\ Flags(v = 0, FALSE, FALSE, 2 * Register(r) >= Byte)
RotateDown(r) ==
    LET v == (Carry * Byte + Register(r)) \div 2
    IN  Becomes(r, v) /\ Flags(v = 0, FALSE, FALSE, Register(r) % 2 = 1)

Digit(v, i) == (v \div Power(i)) % 2
Test(r, i) ==
    /\ UNCHANGED <<A, H, L>>
    /\ Flags(Digit(Register(r), i) = 0, FALSE, TRUE, "C" \in up)
Change(r, i, b) ==
    /\ Becomes(r, Register(r) + (b - Digit(Register(r), i)) * Power(i))
    /\ UNCHANGED up

Load(r, v) == Becomes(r, v) /\ UNCHANGED up
LoadPair(w) == HLBecomes(w) /\ UNCHANGED up
LoadAndStep(v, step) ==
    LET w == (HL + step) % (Byte * Byte)
    IN  A' = v /\ H' = w \div Byte /\ L' = w % Byte /\ UNCHANGED up
Restore(v) == Becomes("A", v) /\ up' \in SUBSET {"Z", "N", "H", "C"}

Operands == {A, H, L} \cup Bytes

Next ==
    \/ \E y \in Operands : Add(y, 0) \/ Add(y, Carry) \/ Compare(y)
    \/ \E r \in Registers : CountUp(r) \/ CountDown(r)
    \/ \E w \in {HL} \cup Words : AddPair(w)
    \/ CountPairUp
    \/ \E r \in Registers : Double(r) \/ RotateUp(r) \/ RotateDown(r)
    \/ \E r \in Registers, i \in Places : Test(r, i) \/ Change(r, i, 0) \/ Change(r, i, 1)
    \/ \E r \in Registers, v \in Operands : Load(r, v)
    \/ \E w \in Words : LoadPair(w)
    \/ \E v \in {A} \cup Bytes, step \in {-1, 1} : LoadAndStep(v, step)
    \/ \E v \in Bytes : Restore(v)

Spec == Init /\ [][Next]_vars
=============================================================================
