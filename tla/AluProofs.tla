----------------------------- MODULE AluProofs -----------------------------
(***************************************************************************)
(* The arithmetic of the emulator is exact for every width of its nibble,  *)
(* for all operands: lemmas on the operators of Alu, then the invariants   *)
(* and the refinement of CpuAlu.                                           *)
(***************************************************************************)
EXTENDS CpuAlu, TLAPS

(* The four widths, in numbers. *)
LEMMA Widths ==
    \/ NibbleBits = 1 /\ ByteBits = 2 /\ Nibble = 2 /\ Byte = 4 /\ Word = 16
    \/ NibbleBits = 2 /\ ByteBits = 4 /\ Nibble = 4 /\ Byte = 16 /\ Word = 256
    \/ NibbleBits = 3 /\ ByteBits = 6 /\ Nibble = 8 /\ Byte = 64 /\ Word = 4096
    \/ NibbleBits = 4 /\ ByteBits = 8 /\ Nibble = 16 /\ Byte = 256 /\ Word = 65536
<1>1. NibbleBits \in {1, 2, 3, 4}
  BY NibbleAssumption
<1> QED
  BY <1>1 DEF ByteBits, Power, Nibble, Byte, Word

(* A sum of two bytes and a carry is the exact sum, cut to a byte; H and C
   say that the low nibbles and the bytes overflow. *)
LEMMA AddIsExact ==
    ASSUME NEW x \in U8, NEW y \in U8, NEW c \in 0 .. 1
    PROVE  LET alu == alu_add8(x, y, c) IN
           /\ alu.value = (x + y + c) % Byte
           /\ alu.flags.low = 0
           /\ "Z" \in alu.flags.up <=> (x + y + c) % Byte = 0
           /\ "N" \notin alu.flags.up
           /\ "H" \in alu.flags.up <=> (x % Nibble) + (y % Nibble) + c >= Nibble
           /\ "C" \in alu.flags.up <=> x + y + c >= Byte
<1> DEFINE low  == lsb4(x) + lsb4(y) + c
           high == msb4(x) + msb4(y) + msb4(low)
           sum  == merge4(low, high)
<1>1. /\ sum = (x + y + c) % Byte
      /\ msb4(low) # 0 <=> (x % Nibble) + (y % Nibble) + c >= Nibble
      /\ msb4(high) # 0 <=> x + y + c >= Byte
  <2>1. CASE NibbleBits = 1
    BY <2>1, Widths DEF U8, lsb4, msb4, merge4
  <2>2. CASE NibbleBits = 2
    BY <2>2, Widths DEF U8, lsb4, msb4, merge4
  <2>3. CASE NibbleBits = 3
    BY <2>3, Widths DEF U8, lsb4, msb4, merge4
  <2>4. CASE NibbleBits = 4
    BY <2>4, Widths DEF U8, lsb4, msb4, merge4
  <2> QED
    BY <2>1, <2>2, <2>3, <2>4, Widths
<1>2. alu_add8(x, y, c) = set_output(sum, sum = 0, FALSE, msb4(low), msb4(high))
  BY DEF alu_add8
<1> QED
  BY <1>1, <1>2 DEF set_output, FlagNames

(* A difference of two bytes, borrow included, wraps to a byte; H and C say
   that the low nibbles and the bytes borrow. *)
LEMMA SubIsExact ==
    ASSUME NEW x \in U8, NEW y \in U8
    PROVE  LET alu == alu_sub8(x, y, 0) IN
           /\ alu.value = (x - y) % Byte
           /\ alu.flags.low = 0
           /\ "Z" \in alu.flags.up <=> x = y
           /\ "N" \in alu.flags.up
           /\ "H" \in alu.flags.up <=> x % Nibble < y % Nibble
           /\ "C" \in alu.flags.up <=> x < y
<1> DEFINE low    == (lsb4(x) - lsb4(y) - 0) % Byte
           borrow == IF msb4(low) # 0 THEN 1 ELSE 0
           high   == (msb4(x) - msb4(y) - borrow) % Byte
           sum    == merge4(low, high)
<1>1. /\ sum = (x - y) % Byte
      /\ sum = 0 <=> x = y
      /\ msb4(low) # 0 <=> x % Nibble < y % Nibble
      /\ msb4(high) # 0 <=> x < y
  <2>1. CASE NibbleBits = 1
    BY <2>1, Widths DEF U8, lsb4, msb4, merge4
  <2>2. CASE NibbleBits = 2
    BY <2>2, Widths DEF U8, lsb4, msb4, merge4
  <2>3. CASE NibbleBits = 3
    BY <2>3, Widths DEF U8, lsb4, msb4, merge4
  <2>4. CASE NibbleBits = 4
    BY <2>4, Widths DEF U8, lsb4, msb4, merge4
  <2> QED
    BY <2>1, <2>2, <2>3, <2>4, Widths
<1>2. alu_sub8(x, y, 0) = set_output(sum, sum = 0, TRUE, msb4(low), msb4(high))
  BY DEF alu_sub8
<1> QED
  BY <1>1, <1>2 DEF set_output, FlagNames

(* Words split into two bytes and back. *)
LEMMA SplitWord ==
    ASSUME NEW w \in U16
    PROVE  lsb8(w) \in U8 /\ msb8(w) \in U8 /\ merge8(lsb8(w), msb8(w)) = w
<1>1. CASE NibbleBits = 1
  BY <1>1, Widths DEF U8, U16, lsb8, msb8, merge8
<1>2. CASE NibbleBits = 2
  BY <1>2, Widths DEF U8, U16, lsb8, msb8, merge8
<1>3. CASE NibbleBits = 3
  BY <1>3, Widths DEF U8, U16, lsb8, msb8, merge8
<1>4. CASE NibbleBits = 4
  BY <1>4, Widths DEF U8, U16, lsb8, msb8, merge8
<1> QED
  BY <1>1, <1>2, <1>3, <1>4, Widths

LEMMA JoinBytes ==
    ASSUME NEW l \in U8, NEW h \in U8
    PROVE  /\ merge8(l, h) = h * Byte + l
           /\ merge8(l, h) \in U16
           /\ lsb8(merge8(l, h)) = l
           /\ msb8(merge8(l, h)) = h
<1>1. CASE NibbleBits = 1
  BY <1>1, Widths DEF U8, U16, lsb8, msb8, merge8
<1>2. CASE NibbleBits = 2
  BY <1>2, Widths DEF U8, U16, lsb8, msb8, merge8
<1>3. CASE NibbleBits = 3
  BY <1>3, Widths DEF U8, U16, lsb8, msb8, merge8
<1>4. CASE NibbleBits = 4
  BY <1>4, Widths DEF U8, U16, lsb8, msb8, merge8
<1> QED
  BY <1>1, <1>2, <1>3, <1>4, Widths

(* The byte-wise sum of two words is the exact sum, cut to a word; H is the
   carry into the highest nibble, C the carry out of the word. *)
LEMMA Add16IsExact ==
    ASSUME NEW x \in U16, NEW y \in U16
    PROVE  LET alu == alu_add16_high(x, y) IN
           /\ alu.value = (x + y) % Word
           /\ alu.flags.low = 0
           /\ "H" \in alu.flags.up <=>
                 (x % (Byte * Nibble)) + (y % (Byte * Nibble)) >= Byte * Nibble
           /\ "C" \in alu.flags.up <=> x + y >= Word
<1> DEFINE low   == alu_add8(lsb8(x), lsb8(y), 0)
           carry == get_flag(low.flags, "C")
           high  == alu_add8(msb8(x), msb8(y), carry)
           sum   == merge8(low.value, high.value)
<1>1. /\ lsb8(x) \in U8 /\ msb8(x) \in U8 /\ lsb8(y) \in U8 /\ msb8(y) \in U8
  BY SplitWord
<1>2. /\ low.value = (lsb8(x) + lsb8(y) + 0) % Byte
      /\ carry = IF lsb8(x) + lsb8(y) + 0 >= Byte THEN 1 ELSE 0
  BY <1>1, AddIsExact, 0 \in 0 .. 1 DEF get_flag
<1>3. carry \in 0 .. 1
  BY <1>2
<1>4. /\ high.value = (msb8(x) + msb8(y) + carry) % Byte
      /\ get_flag(high.flags, "H") # 0 <=>
            (msb8(x) % Nibble) + (msb8(y) % Nibble) + carry >= Nibble
      /\ get_flag(high.flags, "C") # 0 <=> msb8(x) + msb8(y) + carry >= Byte
  <2> HIDE DEF carry
  <2> QED
    BY <1>1, <1>3, AddIsExact DEF get_flag
<1>5. /\ sum = (x + y) % Word
      /\ get_flag(high.flags, "H") # 0 <=>
            (x % (Byte * Nibble)) + (y % (Byte * Nibble)) >= Byte * Nibble
      /\ get_flag(high.flags, "C") # 0 <=> x + y >= Word
  <2> HIDE DEF low, high, carry
  <2>1. CASE NibbleBits = 1
    BY <1>1, <1>2, <1>4, <2>1, Widths DEF U8, U16, lsb8, msb8, merge8, sum
  <2>2. CASE NibbleBits = 2
    BY <1>1, <1>2, <1>4, <2>2, Widths DEF U8, U16, lsb8, msb8, merge8, sum
  <2>3. CASE NibbleBits = 3
    BY <1>1, <1>2, <1>4, <2>3, Widths DEF U8, U16, lsb8, msb8, merge8, sum
  <2>4. CASE NibbleBits = 4
    BY <1>1, <1>2, <1>4, <2>4, Widths DEF U8, U16, lsb8, msb8, merge8, sum
  <2> QED
    BY <2>1, <2>2, <2>3, <2>4, Widths
<1>6. alu_add16_high(x, y) =
         set_output(sum, sum = 0, FALSE,
                    get_flag(high.flags, "H"), get_flag(high.flags, "C"))
  BY DEF alu_add16_high
<1> QED
  BY <1>5, <1>6 DEF set_output, FlagNames

(* Powers of two in numbers. *)
LEMMA Powers ==
    /\ Power(0) = 1 /\ Power(1) = 2 /\ Power(2) = 4 /\ Power(3) = 8
    /\ Power(4) = 16 /\ Power(5) = 32 /\ Power(6) = 64 /\ Power(7) = 128
    /\ Power(8) = 256
BY DEF Power

(* A shift to the left doubles the byte; the carry is what it loses. *)
LEMMA ShiftIsExact ==
    ASSUME NEW x \in U8
    PROVE  LET alu == alu_shift(x, "LEFT") IN
           /\ alu.value = (2 * x) % Byte
           /\ alu.flags.low = 0
           /\ "Z" \in alu.flags.up <=> (2 * x) % Byte = 0
           /\ "C" \in alu.flags.up <=> 2 * x >= Byte
<1>1. bit_get(x, ByteBits - 1) # 0 <=> 2 * x >= Byte
  <2>1. CASE NibbleBits = 1
    BY Powers, <2>1, Widths DEF U8, bit_get
  <2>2. CASE NibbleBits = 2
    BY Powers, <2>2, Widths DEF U8, bit_get
  <2>3. CASE NibbleBits = 3
    BY Powers, <2>3, Widths DEF U8, bit_get
  <2>4. CASE NibbleBits = 4
    BY Powers, <2>4, Widths DEF U8, bit_get
  <2> QED
    BY <2>1, <2>2, <2>3, <2>4, Widths
<1>2. alu_shift(x, "LEFT") =
         set_output((x * 2) % Byte, (x * 2) % Byte = 0, FALSE, 0, bit_get(x, ByteBits - 1))
  BY DEF alu_shift, Leaving
<1>3. (x * 2) % Byte = (2 * x) % Byte
  BY Widths DEF U8
<1> QED
  BY <1>1, <1>2, <1>3 DEF set_output, FlagNames

(* A rotation through the carry to the left: the carry enters below. *)
LEMMA RotateUpIsExact ==
    ASSUME NEW x \in U8, NEW flags \in FlagBytes
    PROVE  LET alu == alu_carry_rotate(x, "LEFT", flags)
               v   == (2 * x + get_flag(flags, "C")) % Byte IN
           /\ alu.value = v
           /\ alu.flags.low = 0
           /\ "Z" \in alu.flags.up <=> v = 0
           /\ "C" \in alu.flags.up <=> 2 * x >= Byte
<1> DEFINE c == get_flag(flags, "C")
           moved == bit_edit(bit_rotate(x, "LEFT"), 0, c)
<1>1. c \in {0, 1}
  BY DEF get_flag
<1>2. moved = (2 * x + c) % Byte
  <2> HIDE DEF c
  <2> DEFINE r == ((x * 2) % Byte) + x \div Power(ByteBits - 1)
  <2>1. bit_rotate(x, "LEFT") = r
    BY Powers DEF bit_rotate
  <2>2. bit_edit(r, 0, c) = (2 * x + c) % Byte
    <3> DEFINE t == x \div Power(ByteBits - 1)
               d == (x * 2) % Byte
    <3>1. /\ t \in 0 .. 1 /\ d \in Nat /\ d % 2 = 0
          /\ (2 * x + c) % Byte = d + c
      <4>1. CASE NibbleBits = 1
        BY <1>1, Powers, <4>1, Widths DEF U8
      <4>2. CASE NibbleBits = 2
        BY <1>1, Powers, <4>2, Widths DEF U8
      <4>3. CASE NibbleBits = 3
        BY <1>1, Powers, <4>3, Widths DEF U8
      <4>4. CASE NibbleBits = 4
        BY <1>1, Powers, <4>4, Widths DEF U8
      <4> QED
        BY <4>1, <4>2, <4>3, <4>4, Widths
    <3>2. r = d + t
      OBVIOUS
    <3> HIDE DEF t, d, r
    <3>3. bit_get(r, 0) = t
      BY <3>1, <3>2, Powers DEF bit_get
    <3> QED
      BY <1>1, <3>1, <3>2, <3>3, Powers DEF bit_edit, bit_set, bit_unset
  <2> QED
    BY <2>1, <2>2
<1>3. bit_get(x, ByteBits - 1) # 0 <=> 2 * x >= Byte
  <2>1. CASE NibbleBits = 1
    BY Powers, <2>1, Widths DEF U8, bit_get
  <2>2. CASE NibbleBits = 2
    BY Powers, <2>2, Widths DEF U8, bit_get
  <2>3. CASE NibbleBits = 3
    BY Powers, <2>3, Widths DEF U8, bit_get
  <2>4. CASE NibbleBits = 4
    BY Powers, <2>4, Widths DEF U8, bit_get
  <2> QED
    BY <2>1, <2>2, <2>3, <2>4, Widths
<1>4. alu_carry_rotate(x, "LEFT", flags) =
         set_output(moved, moved = 0, FALSE, 0, bit_get(x, ByteBits - 1))
  BY DEF alu_carry_rotate, Leaving
<1> QED
  <2> HIDE DEF moved
  <2> QED
    BY <1>2, <1>3, <1>4 DEF set_output, FlagNames

(* A rotation through the carry to the right: the carry enters above. *)
LEMMA RotateDownIsExact ==
    ASSUME NEW x \in U8, NEW flags \in FlagBytes
    PROVE  LET alu == alu_carry_rotate(x, "RIGHT", flags)
               v   == (get_flag(flags, "C") * Byte + x) \div 2 IN
           /\ alu.value = v
           /\ alu.flags.low = 0
           /\ "Z" \in alu.flags.up <=> v = 0
           /\ "C" \in alu.flags.up <=> x % 2 = 1
<1> DEFINE c == get_flag(flags, "C")
           moved == bit_edit(bit_rotate(x, "RIGHT"), ByteBits - 1, c)
<1>1. c \in {0, 1}
  BY DEF get_flag
<1>2. moved = (c * Byte + x) \div 2
  <2> HIDE DEF c
  <2> DEFINE r == ((x * Power(ByteBits - 1)) % Byte) + x \div 2
  <2>1. bit_rotate(x, "RIGHT") = r
    <3>1. ByteBits - (ByteBits - 1) = 1
      BY Widths
    <3> QED
      BY <3>1, Powers DEF bit_rotate
  <2>2. bit_edit(r, ByteBits - 1, c) = (c * Byte + x) \div 2
    <3> DEFINE p == Power(ByteBits - 1)
               t == x % 2
               d == x \div 2
    <3>1. /\ p \in Nat \ {0} /\ Byte = 2 * p
          /\ t \in 0 .. 1 /\ d \in Nat /\ d < p
          /\ (x * p) % Byte = t * p
          /\ (c * Byte + x) \div 2 = c * p + d
      <4>1. CASE NibbleBits = 1
        BY <1>1, Powers, <4>1, Widths DEF U8
      <4>2. CASE NibbleBits = 2
        BY <1>1, Powers, <4>2, Widths DEF U8
      <4>3. CASE NibbleBits = 3
        BY <1>1, Powers, <4>3, Widths DEF U8
      <4>4. CASE NibbleBits = 4
        BY <1>1, Powers, <4>4, Widths DEF U8
      <4> QED
        BY <4>1, <4>2, <4>3, <4>4, Widths
    <3>2. r = t * p + d
      <4> HIDE DEF t, d
      <4> QED
        BY <3>1 DEF r, d
    <3>3. bit_get(r, ByteBits - 1) = t
      <4>1. p \in {2, 8, 32, 128}
        BY Widths, Powers
      <4>2. bit_get(r, ByteBits - 1) = (r \div p) % 2
        BY DEF bit_get, p
      <4> HIDE DEF t, d, p, r
      <4>3. CASE t = 0
        BY <3>1, <3>2, <4>1, <4>2, <4>3
      <4>4. CASE t = 1
        BY <3>1, <3>2, <4>1, <4>2, <4>4
      <4> QED
        BY <3>1, <4>3, <4>4
    <3>4. bit_edit(r, ByteBits - 1, c) =
            IF c # 0 THEN IF t = 1 THEN r ELSE r + p
                     ELSE IF t = 1 THEN r - p ELSE r
      BY <3>3 DEF bit_edit, bit_set, bit_unset
    <3> HIDE DEF t, d, p, r
    <3>5. CASE t = 0
      BY <1>1, <3>1, <3>2, <3>4, <3>5
    <3>6. CASE t = 1
      BY <1>1, <3>1, <3>2, <3>4, <3>6
    <3> QED
      BY <3>1, <3>5, <3>6
  <2> QED
    BY <2>1, <2>2
<1>3. bit_get(x, 0) # 0 <=> x % 2 = 1
  BY Widths, Powers DEF U8, bit_get
<1>4. alu_carry_rotate(x, "RIGHT", flags) =
         set_output(moved, moved = 0, FALSE, 0, bit_get(x, 0))
  BY DEF alu_carry_rotate, Leaving
<1> QED
  <2> HIDE DEF moved
  <2> QED
    BY <1>2, <1>3, <1>4 DEF set_output, FlagNames

(* Setting and resetting a bit moves the byte by that power of two or not at
   all, and it stays a byte. *)
LEMMA ChangeIsExact ==
    ASSUME NEW v \in U8, NEW i \in Digits
    PROVE  /\ bit_get(v, i) \in 0 .. 1
           /\ bit_set(v, i) = v + (1 - bit_get(v, i)) * Power(i)
           /\ bit_unset(v, i) = v + (0 - bit_get(v, i)) * Power(i)
           /\ bit_set(v, i) \in U8
           /\ bit_unset(v, i) \in U8
<1> DEFINE p == Power(i)
           b == bit_get(v, i)
<1>1. i \in {0, 1, 2, 3, 4, 5, 6, 7}
  BY Widths DEF Digits
<1>2. p \in {1, 2, 4, 8, 16, 32, 64, 128}
  BY <1>1, Powers
<1>3. b = (v \div p) % 2
  BY DEF bit_get
<1>4. v \in Nat /\ v < Byte /\ Byte \in Nat
  BY Widths DEF U8
<1>5. b \in 0 .. 1
  <2> HIDE DEF p, b
  <2> QED
    BY <1>2, <1>3, <1>4
<1>6. b = 0 => v + p < Byte
  <2>1. CASE i = 0
    <3>1. b = (v \div 1) % 2 /\ p = 1
      BY <2>1, <1>3, Powers
    <3> HIDE DEF p, b
    <3> QED
      BY <2>1, <3>1, <1>4, Widths DEF Digits
  <2>2. CASE i = 1
    <3>1. b = (v \div 2) % 2 /\ p = 2
      BY <2>2, <1>3, Powers
    <3> HIDE DEF p, b
    <3> QED
      BY <2>2, <3>1, <1>4, Widths DEF Digits
  <2>3. CASE i = 2
    <3>1. b = (v \div 4) % 2 /\ p = 4
      BY <2>3, <1>3, Powers
    <3> HIDE DEF p, b
    <3> QED
      BY <2>3, <3>1, <1>4, Widths DEF Digits
  <2>4. CASE i = 3
    <3>1. b = (v \div 8) % 2 /\ p = 8
      BY <2>4, <1>3, Powers
    <3> HIDE DEF p, b
    <3> QED
      BY <2>4, <3>1, <1>4, Widths DEF Digits
  <2>5. CASE i = 4
    <3>1. b = (v \div 16) % 2 /\ p = 16
      BY <2>5, <1>3, Powers
    <3> HIDE DEF p, b
    <3> QED
      BY <2>5, <3>1, <1>4, Widths DEF Digits
  <2>6. CASE i = 5
    <3>1. b = (v \div 32) % 2 /\ p = 32
      BY <2>6, <1>3, Powers
    <3> HIDE DEF p, b
    <3> QED
      BY <2>6, <3>1, <1>4, Widths DEF Digits
  <2>7. CASE i = 6
    <3>1. b = (v \div 64) % 2 /\ p = 64
      BY <2>7, <1>3, Powers
    <3> HIDE DEF p, b
    <3> QED
      BY <2>7, <3>1, <1>4, Widths DEF Digits
  <2>8. CASE i = 7
    <3>1. b = (v \div 128) % 2 /\ p = 128
      BY <2>8, <1>3, Powers
    <3> HIDE DEF p, b
    <3> QED
      BY <2>8, <3>1, <1>4, Widths DEF Digits
  <2> QED
    BY <1>1, <2>1, <2>2, <2>3, <2>4, <2>5, <2>6, <2>7, <2>8
<1>7. b = 1 => v - p >= 0
  <2> HIDE DEF p, b
  <2> QED
    BY <1>2, <1>3, <1>4
<1>8. bit_set(v, i) = (IF b = 1 THEN v ELSE v + p)
      /\ bit_unset(v, i) = (IF b = 1 THEN v - p ELSE v)
  BY DEF bit_set, bit_unset
<1> HIDE DEF p, b
<1>9. CASE b = 0
  BY <1>2, <1>4, <1>6, <1>8, <1>9 DEF U8, p, b
<1>10. CASE b = 1
  BY <1>2, <1>4, <1>7, <1>8, <1>10 DEF U8, p, b
<1> QED
  BY <1>5, <1>9, <1>10

-----------------------------------------------------------------------------
(* Flags *)

(* cpu_combine_alu_flags gives each flag the value of its source. *)
LEMMA Combined ==
    ASSUME TypeOK, NEW alu, alu.low = 0, NEW z, NEW n, NEW h, NEW c,
           cpu_combine_alu_flags(<<z, n, h, c>>, alu)
    PROVE  /\ F' \in FlagBytes
           /\ F'.low = 0
           /\ "Z" \in F'.up <=> flags_src_value(z, get_flag(F, "Z"), get_flag(alu, "Z"))
           /\ "N" \in F'.up <=> flags_src_value(n, get_flag(F, "N"), get_flag(alu, "N"))
           /\ "H" \in F'.up <=> flags_src_value(h, get_flag(F, "H"), get_flag(alu, "H"))
           /\ "C" \in F'.up <=> flags_src_value(c, get_flag(F, "C"), get_flag(alu, "C"))
BY DEF cpu_combine_alu_flags, CombinedFlags, Raise, set_flag, NoFlags, FlagBytes, FlagNames

(* With a low nibble of zero a flag reads as up exactly when it is up. *)
LEMMA Reading ==
    ASSUME NEW flags, flags.low = 0, NEW f
    PROVE  get_flag(flags, f) = (IF f \in flags.up THEN 1 ELSE 0)
BY DEF get_flag

(* Sources of flags, one by one. *)
LEMMA Sources ==
    ASSUME NEW cpu_f, NEW alu_f
    PROVE  /\ flags_src_value("SET", cpu_f, alu_f)
           /\ ~flags_src_value("CLEAR", cpu_f, alu_f)
           /\ flags_src_value("ALU", cpu_f, alu_f) <=> alu_f = 1
           /\ flags_src_value("CPU", cpu_f, alu_f) <=> cpu_f = 1
BY DEF flags_src_value

(* What is seen of the flags after a step. *)
LEMMA Seen ==
    ASSUME TypeOK
    PROVE  {f \in FlagNames : get_flag(F, f) = 1} = F.up
BY Reading DEF TypeOK, FlagBytes
LEMMA SeenNext ==
    ASSUME F' \in FlagBytes, F'.low = 0, NEW z, NEW n, NEW h, NEW c,
           "Z" \in F'.up <=> z, "N" \in F'.up <=> n,
           "H" \in F'.up <=> h, "C" \in F'.up <=> c
    PROVE  Exact!Flags(z, n, h, c)
<1>1. {f \in FlagNames : get_flag(F', f) = 1} = F'.up
  BY DEF get_flag, FlagBytes
<1> QED
  BY <1>1 DEF Exact!Flags, FlagBytes, FlagNames

(* A write to one register, seen through the whole numbers. *)
LEMMA OneRegister ==
    ASSUME TypeOK, NEW r \in Registers, NEW v \in U8, cpu_reg_set(r, v)
    PROVE  Exact!Becomes(r, v) /\ reg' \in [Registers -> U8]
BY DEF cpu_reg_set, Exact!Becomes, TypeOK, Registers

(* A write to the pair. *)
LEMMA OnePair ==
    ASSUME TypeOK, NEW w \in U16, cpu_HL_set(w)
    PROVE  Exact!HLBecomes(w) /\ reg' \in [Registers -> U8]
BY SplitWord DEF cpu_HL_set, Exact!HLBecomes, TypeOK, Registers, msb8, lsb8

(* A cut number is a byte or a word. *)
LEMMA Cut ==
    ASSUME NEW n \in Int
    PROVE  n % Byte \in U8 /\ n % Word \in U16
BY Widths DEF U8, U16

-----------------------------------------------------------------------------
(* Every instruction does what Arithmetic says of it *)

LEMMA Adds ==
    ASSUME TypeOK, NEW y \in U8, NEW withCarry \in BOOLEAN, ADD_A(y, withCarry)
    PROVE  TypeOK' /\ (Exact!Add(y, 0) \/ Exact!Add(y, Exact!Carry))
<1> DEFINE c   == extract_carry(withCarry)
           alu == alu_add8(reg["A"], y, c)
<1>1. c \in 0 .. 1 /\ (c = 0 \/ c = Exact!Carry)
  BY Seen DEF extract_carry, get_flag, Exact!Carry, TypeOK
<1>2. reg["A"] \in U8
  BY DEF TypeOK, Registers
<1> HIDE DEF c
<1>3. /\ alu.value = (reg["A"] + y + c) % Byte
      /\ alu.flags.low = 0
      /\ "Z" \in alu.flags.up <=> (reg["A"] + y + c) % Byte = 0
      /\ "N" \notin alu.flags.up
      /\ "H" \in alu.flags.up <=> (reg["A"] % Nibble) + (y % Nibble) + c >= Nibble
      /\ "C" \in alu.flags.up <=> reg["A"] + y + c >= Byte
  BY <1>1, <1>2, AddIsExact
<1>4. cpu_combine_alu_flags(ADD_FLAGS_SRC, alu.flags) /\ cpu_reg_set("A", alu.value)
  BY DEF ADD_A, c
<1> HIDE DEF alu
<1>5. /\ F' \in FlagBytes /\ F'.low = 0
      /\ "Z" \in F'.up <=> "Z" \in alu.flags.up
      /\ "N" \notin F'.up
      /\ "H" \in F'.up <=> "H" \in alu.flags.up
      /\ "C" \in F'.up <=> "C" \in alu.flags.up
  BY <1>3, <1>4, Combined, Sources, Reading DEF ADD_FLAGS_SRC
<1>6. (reg["A"] + y + c) % Byte \in U8
  BY <1>1, <1>2, Widths DEF U8
<1>7. Exact!Becomes("A", (reg["A"] + y + c) % Byte) /\ reg' \in [Registers -> U8]
  BY <1>3, <1>4, <1>6, OneRegister DEF Registers
<1>8. Exact!Flags((reg["A"] + y + c) % Byte = 0, FALSE,
                  (reg["A"] % Nibble) + (y % Nibble) + c >= Nibble,
                  reg["A"] + y + c >= Byte)
  BY <1>3, <1>5, SeenNext
<1>9. Exact!Add(y, c)
  BY <1>7, <1>8 DEF Exact!Add
<1> QED
  BY <1>1, <1>5, <1>7, <1>9 DEF TypeOK

LEMMA Compares ==
    ASSUME TypeOK, NEW y \in U8, CP_A(y)
    PROVE  TypeOK' /\ Exact!Compare(y)
<1> DEFINE alu == alu_sub8(reg["A"], y, 0)
<1>1. reg["A"] \in U8
  BY DEF TypeOK, Registers
<1>2. /\ alu.flags.low = 0
      /\ "Z" \in alu.flags.up <=> reg["A"] = y
      /\ "H" \in alu.flags.up <=> reg["A"] % Nibble < y % Nibble
      /\ "C" \in alu.flags.up <=> reg["A"] < y
  BY <1>1, SubIsExact
<1>3. cpu_combine_alu_flags(SUB_FLAGS_SRC, alu.flags) /\ reg' = reg
  BY DEF CP_A
<1> HIDE DEF alu
<1>4. /\ F' \in FlagBytes /\ F'.low = 0
      /\ "Z" \in F'.up <=> "Z" \in alu.flags.up
      /\ "N" \in F'.up
      /\ "H" \in F'.up <=> "H" \in alu.flags.up
      /\ "C" \in F'.up <=> "C" \in alu.flags.up
  BY <1>2, <1>3, Combined, Sources, Reading DEF SUB_FLAGS_SRC
<1>5. Exact!Flags(reg["A"] = y, TRUE, reg["A"] % Nibble < y % Nibble, reg["A"] < y)
  BY <1>2, <1>4, SeenNext
<1> QED
  BY <1>3, <1>4, <1>5 DEF Exact!Compare, TypeOK

(* Registers and the pair are seen as they are. *)
LEMMA SeenRegisters ==
    ASSUME TypeOK
    PROVE  /\ \A r \in Registers : reg[r] \in U8 /\ Exact!Register(r) = reg[r]
           /\ HL \in U16
           /\ HL = Exact!HL
           /\ Exact!Carry = get_flag(F, "C")
<1>1. \A r \in Registers : reg[r] \in U8 /\ Exact!Register(r) = reg[r]
  BY DEF TypeOK, Registers, Exact!Register
<1>2. HL \in U16 /\ HL = Exact!HL
  BY <1>1, JoinBytes DEF HL, Exact!HL, Registers
<1>3. Exact!Carry = get_flag(F, "C")
  BY DEF Exact!Carry, get_flag, FlagNames
<1> QED
  BY <1>1, <1>2, <1>3

LEMMA CountsUp ==
    ASSUME TypeOK, NEW r \in Registers, INC_R8(r)
    PROVE  TypeOK' /\ Exact!CountUp(r)
<1> DEFINE x   == reg[r]
           alu == alu_add8(x, 1, 0)
           v   == (x + 1) % Byte
<1>1. x \in U8 /\ Exact!Register(r) = x /\ 1 \in U8
  BY SeenRegisters, Widths DEF U8
<1> HIDE DEF x
<1>2. /\ alu.value = (x + 1 + 0) % Byte
      /\ alu.flags.low = 0
      /\ "Z" \in alu.flags.up <=> (x + 1 + 0) % Byte = 0
      /\ "H" \in alu.flags.up <=> (x % Nibble) + (1 % Nibble) + 0 >= Nibble
  BY <1>1, AddIsExact, 0 \in 0 .. 1
<1>3. /\ x + 1 + 0 = x + 1
      /\ v \in U8
      /\ (x % Nibble) + (1 % Nibble) + 0 >= Nibble <=> v % Nibble = 0
  BY <1>1, Widths DEF U8
<1>4. cpu_combine_alu_flags(INC_FLAGS_SRC, alu.flags) /\ cpu_reg_set(r, alu.value)
  BY DEF INC_R8, x
<1> HIDE DEF alu, v
<1>5. /\ F' \in FlagBytes /\ F'.low = 0
      /\ "Z" \in F'.up <=> "Z" \in alu.flags.up
      /\ "N" \notin F'.up
      /\ "H" \in F'.up <=> "H" \in alu.flags.up
      /\ "C" \in F'.up <=> "C" \in F.up
  BY <1>2, <1>4, Combined, Sources, Reading DEF INC_FLAGS_SRC, TypeOK
<1>6. alu.value = v /\ ("Z" \in alu.flags.up <=> v = 0)
      /\ ("H" \in alu.flags.up <=> v % Nibble = 0)
  BY <1>2, <1>3 DEF v
<1>7. Exact!Becomes(r, v) /\ reg' \in [Registers -> U8]
  BY <1>3, <1>4, <1>6, OneRegister
<1>8. Exact!Flags(v = 0, FALSE, v % Nibble = 0, "C" \in F.up)
  BY <1>5, <1>6, SeenNext
<1>9. Exact!CountUp(r)
  BY <1>1, <1>7, <1>8, Seen DEF Exact!CountUp, v
<1> QED
  BY <1>5, <1>7, <1>9 DEF TypeOK

LEMMA CountsDown ==
    ASSUME TypeOK, NEW r \in Registers, DEC_R8(r)
    PROVE  TypeOK' /\ Exact!CountDown(r)
<1> DEFINE x   == reg[r]
           alu == alu_sub8(x, 1, 0)
           v   == (x - 1) % Byte
<1>1. x \in U8 /\ Exact!Register(r) = x /\ 1 \in U8
  BY SeenRegisters, Widths DEF U8
<1> HIDE DEF x
<1>2. /\ alu.value = v
      /\ alu.flags.low = 0
      /\ "Z" \in alu.flags.up <=> x = 1
      /\ "H" \in alu.flags.up <=> x % Nibble < 1 % Nibble
  BY <1>1, SubIsExact
<1>3. /\ v \in U8
      /\ x = 1 <=> v = 0
      /\ x % Nibble < 1 % Nibble <=> x % Nibble = 0
  BY <1>1, Widths DEF U8
<1>4. cpu_combine_alu_flags(DEC_FLAGS_SRC, alu.flags) /\ cpu_reg_set(r, alu.value)
  BY DEF DEC_R8, x
<1> HIDE DEF alu, v
<1>5. /\ F' \in FlagBytes /\ F'.low = 0
      /\ "Z" \in F'.up <=> v = 0
      /\ "N" \in F'.up
      /\ "H" \in F'.up <=> x % Nibble = 0
      /\ "C" \in F'.up <=> "C" \in F.up
  BY <1>2, <1>3, <1>4, Combined, Sources, Reading DEF DEC_FLAGS_SRC, TypeOK
<1>6. Exact!Becomes(r, v) /\ reg' \in [Registers -> U8]
  BY <1>2, <1>3, <1>4, OneRegister
<1>7. Exact!Flags(v = 0, TRUE, x % Nibble = 0, "C" \in F.up)
  BY <1>5, SeenNext
<1>8. Exact!CountDown(r)
  BY <1>1, <1>6, <1>7, Seen DEF Exact!CountDown, v
<1> QED
  BY <1>5, <1>6, <1>8 DEF TypeOK

LEMMA AddsPair ==
    ASSUME TypeOK, NEW w \in U16, ADD_HL_R16SP(w)
    PROVE  TypeOK' /\ Exact!AddPair(w)
<1> DEFINE alu == alu_add16_high(HL, w)
           v   == (HL + w) % Word
           h   == (HL % (Byte * Nibble)) + (w % (Byte * Nibble)) >= Byte * Nibble
<1>1. /\ alu.value = v
      /\ alu.flags.low = 0
      /\ "H" \in alu.flags.up <=> h
      /\ "C" \in alu.flags.up <=> HL + w >= Word
  BY SeenRegisters, Add16IsExact
<1>2. v \in U16
  BY SeenRegisters, Widths DEF U16
<1>3. cpu_combine_alu_flags(ADD_16_FLAGS_SRC, alu.flags) /\ cpu_HL_set(alu.value)
  BY DEF ADD_HL_R16SP
<1> HIDE DEF alu, v, h
<1>4. /\ F' \in FlagBytes /\ F'.low = 0
      /\ "Z" \in F'.up <=> "Z" \in F.up
      /\ "N" \notin F'.up
      /\ "H" \in F'.up <=> h
      /\ "C" \in F'.up <=> HL + w >= Word
  BY <1>1, <1>3, Combined, Sources, Reading DEF ADD_16_FLAGS_SRC, TypeOK
<1>5. Exact!HLBecomes(v) /\ reg' \in [Registers -> U8]
  BY <1>1, <1>2, <1>3, OnePair
<1>6. Exact!Flags("Z" \in F.up, FALSE, h, HL + w >= Word)
  BY <1>4, SeenNext
<1>7. Exact!AddPair(w)
  BY <1>5, <1>6, Seen, SeenRegisters DEF Exact!AddPair, v, h, Word
<1> QED
  BY <1>4, <1>5, <1>7 DEF TypeOK

LEMMA CountsPairUp ==
    ASSUME TypeOK, INC_R16SP
    PROVE  TypeOK' /\ Exact!CountPairUp
<1>1. 1 \in U16 /\ (HL + 1) % Word \in U16
  BY SeenRegisters, Widths DEF U16
<1>2. cpu_HL_set((HL + 1) % Word) /\ F' = F
  BY <1>1, SeenRegisters, Add16IsExact DEF INC_R16SP
<1>3. Exact!HLBecomes((HL + 1) % Word) /\ reg' \in [Registers -> U8]
  BY <1>1, <1>2, OnePair
<1> QED
  BY <1>2, <1>3, SeenRegisters DEF Exact!CountPairUp, Word, TypeOK

LEMMA Doubles ==
    ASSUME TypeOK, NEW r \in Registers, SLA_R8(r)
    PROVE  TypeOK' /\ Exact!Double(r)
<1> DEFINE x   == reg[r]
           alu == alu_shift(x, "LEFT")
           v   == (2 * x) % Byte
<1>1. x \in U8 /\ Exact!Register(r) = x /\ F \in FlagBytes
  BY SeenRegisters DEF TypeOK
<1> HIDE DEF x
<1>2. /\ alu.value = v
      /\ alu.flags.low = 0
      /\ "Z" \in alu.flags.up <=> v = 0
      /\ "C" \in alu.flags.up <=> 2 * x >= Byte
  BY <1>1, ShiftIsExact
<1>3. v \in U8
  BY <1>1, Widths DEF U8, get_flag
<1>4. cpu_combine_alu_flags(SHIFT_FLAGS_SRC, alu.flags) /\ cpu_reg_set(r, alu.value)
  BY DEF SLA_R8, x
<1> HIDE DEF alu, v
<1>5. /\ F' \in FlagBytes /\ F'.low = 0
      /\ "Z" \in F'.up <=> v = 0
      /\ "N" \notin F'.up
      /\ "H" \notin F'.up
      /\ "C" \in F'.up <=> 2 * x >= Byte
  BY <1>2, <1>4, Combined, Sources, Reading DEF SHIFT_FLAGS_SRC
<1>6. Exact!Becomes(r, v) /\ reg' \in [Registers -> U8]
  BY <1>2, <1>3, <1>4, OneRegister
<1>7. Exact!Flags(v = 0, FALSE, FALSE, 2 * x >= Byte)
  BY <1>5, SeenNext
<1>8. Exact!Double(r)
  BY <1>1, <1>6, <1>7, SeenRegisters DEF Exact!Double, v
<1> QED
  BY <1>5, <1>6, <1>8 DEF TypeOK

LEMMA RotatesUp ==
    ASSUME TypeOK, NEW r \in Registers, ROT_R8(r, "LEFT")
    PROVE  TypeOK' /\ Exact!RotateUp(r)
<1> DEFINE x   == reg[r]
           alu == alu_carry_rotate(x, "LEFT", F)
           v   == (2 * x + get_flag(F, "C")) % Byte
<1>1. x \in U8 /\ Exact!Register(r) = x /\ F \in FlagBytes
  BY SeenRegisters DEF TypeOK
<1> HIDE DEF x
<1>2. /\ alu.value = v
      /\ alu.flags.low = 0
      /\ "Z" \in alu.flags.up <=> v = 0
      /\ "C" \in alu.flags.up <=> 2 * x >= Byte
  BY <1>1, RotateUpIsExact
<1>3. v \in U8
  BY <1>1, Widths DEF U8, get_flag
<1>4. cpu_combine_alu_flags(SHIFT_FLAGS_SRC, alu.flags) /\ cpu_reg_set(r, alu.value)
  BY DEF ROT_R8, x
<1> HIDE DEF alu, v
<1>5. /\ F' \in FlagBytes /\ F'.low = 0
      /\ "Z" \in F'.up <=> v = 0
      /\ "N" \notin F'.up
      /\ "H" \notin F'.up
      /\ "C" \in F'.up <=> 2 * x >= Byte
  BY <1>2, <1>4, Combined, Sources, Reading DEF SHIFT_FLAGS_SRC
<1>6. Exact!Becomes(r, v) /\ reg' \in [Registers -> U8]
  BY <1>2, <1>3, <1>4, OneRegister
<1>7. Exact!Flags(v = 0, FALSE, FALSE, 2 * x >= Byte)
  BY <1>5, SeenNext
<1>8. Exact!RotateUp(r)
  BY <1>1, <1>6, <1>7, SeenRegisters DEF Exact!RotateUp, v
<1> QED
  BY <1>5, <1>6, <1>8 DEF TypeOK

LEMMA RotatesDown ==
    ASSUME TypeOK, NEW r \in Registers, ROT_R8(r, "RIGHT")
    PROVE  TypeOK' /\ Exact!RotateDown(r)
<1> DEFINE x   == reg[r]
           alu == alu_carry_rotate(x, "RIGHT", F)
           v   == (get_flag(F, "C") * Byte + x) \div 2
<1>1. x \in U8 /\ Exact!Register(r) = x /\ F \in FlagBytes
  BY SeenRegisters DEF TypeOK
<1> HIDE DEF x
<1>2. /\ alu.value = v
      /\ alu.flags.low = 0
      /\ "Z" \in alu.flags.up <=> v = 0
      /\ "C" \in alu.flags.up <=> x % 2 = 1
  BY <1>1, RotateDownIsExact
<1>3. v \in U8
  BY <1>1, Widths DEF U8, get_flag
<1>4. cpu_combine_alu_flags(SHIFT_FLAGS_SRC, alu.flags) /\ cpu_reg_set(r, alu.value)
  BY DEF ROT_R8, x
<1> HIDE DEF alu, v
<1>5. /\ F' \in FlagBytes /\ F'.low = 0
      /\ "Z" \in F'.up <=> v = 0
      /\ "N" \notin F'.up
      /\ "H" \notin F'.up
      /\ "C" \in F'.up <=> x % 2 = 1
  BY <1>2, <1>4, Combined, Sources, Reading DEF SHIFT_FLAGS_SRC
<1>6. Exact!Becomes(r, v) /\ reg' \in [Registers -> U8]
  BY <1>2, <1>3, <1>4, OneRegister
<1>7. Exact!Flags(v = 0, FALSE, FALSE, x % 2 = 1)
  BY <1>5, SeenNext
<1>8. Exact!RotateDown(r)
  BY <1>1, <1>6, <1>7, SeenRegisters DEF Exact!RotateDown, v
<1> QED
  BY <1>5, <1>6, <1>8 DEF TypeOK

LEMMA Tests ==
    ASSUME TypeOK, NEW r \in Registers, NEW i \in Places, BIT_U3_R8(r, i)
    PROVE  TypeOK' /\ Exact!Test(r, i)
<1> DEFINE b == bit_get(reg[r], i)
           z == IF b = 0 THEN "SET" ELSE "CLEAR"
<1>1. Exact!Register(r) = reg[r] /\ Exact!Digit(reg[r], i) = b
  BY SeenRegisters DEF Exact!Digit, bit_get
<1> HIDE DEF b
<1>2. cpu_combine_alu_flags(<<z, "CLEAR", "SET", "CPU">>, NoFlags) /\ reg' = reg
  BY DEF BIT_U3_R8, b
<1>3. NoFlags.low = 0
  BY DEF NoFlags
<1>4. flags_src_value(z, get_flag(F, "Z"), get_flag(NoFlags, "Z")) <=> b = 0
  BY Sources
<1> HIDE DEF z
<1>5. /\ F' \in FlagBytes /\ F'.low = 0
      /\ "Z" \in F'.up <=> b = 0
      /\ "N" \notin F'.up
      /\ "H" \in F'.up
      /\ "C" \in F'.up <=> "C" \in F.up
  BY <1>2, <1>3, <1>4, Combined, Sources, Reading DEF TypeOK
<1>6. Exact!Flags(b = 0, FALSE, TRUE, "C" \in F.up)
  BY <1>5, SeenNext
<1>7. Exact!Test(r, i)
  BY <1>1, <1>2, <1>6, Seen DEF Exact!Test
<1> QED
  BY <1>2, <1>5, <1>7 DEF TypeOK

LEMMA Changes ==
    ASSUME TypeOK, NEW r \in Registers, NEW i \in Places, NEW sr \in BOOLEAN,
           CHG_U3_R8(r, i, sr)
    PROVE  TypeOK' /\ (Exact!Change(r, i, 0) \/ Exact!Change(r, i, 1))
<1> DEFINE x == reg[r]
           b == IF sr THEN 1 ELSE 0
           v == do_set_or_res(x, i, sr)
<1>1. x \in U8 /\ i \in Digits /\ Exact!Register(r) = x
  BY SeenRegisters, OperandAssumption
<1> HIDE DEF x
<1>2. v \in U8 /\ v = x + (b - Exact!Digit(x, i)) * Power(i)
  BY <1>1, ChangeIsExact DEF do_set_or_res, Exact!Digit, bit_get
<1>3. cpu_reg_set(r, v) /\ F' = F
  BY DEF CHG_U3_R8, x
<1> HIDE DEF v, b
<1>4. Exact!Becomes(r, v) /\ reg' \in [Registers -> U8]
  BY <1>2, <1>3, OneRegister
<1>5. Exact!Change(r, i, b)
  BY <1>1, <1>2, <1>3, <1>4 DEF Exact!Change
<1>6. b = 0 \/ b = 1
  BY DEF b
<1> QED
  BY <1>3, <1>4, <1>5, <1>6 DEF TypeOK

LEMMA Loads ==
    ASSUME TypeOK, NEW r \in Registers, NEW v \in U8, LD_R8(r, v)
    PROVE  TypeOK' /\ Exact!Load(r, v)
BY OneRegister DEF LD_R8, Exact!Load, TypeOK

LEMMA LoadsPair ==
    ASSUME TypeOK, NEW w \in U16, LD_HL(w)
    PROVE  TypeOK' /\ Exact!LoadPair(w)
BY OnePair DEF LD_HL, Exact!LoadPair, TypeOK

LEMMA LoadsAndSteps ==
    ASSUME TypeOK, NEW v \in U8, NEW step \in {-1, 1}, LD_HLRU(v, step)
    PROVE  TypeOK' /\ Exact!LoadAndStep(v, step)
<1> DEFINE w == (HL + step) % Word
<1>1. w \in U16
  BY SeenRegisters, Widths DEF U16
<1>2. /\ reg' = [reg EXCEPT !["A"] = v, !["H"] = msb8(w), !["L"] = lsb8(w)]
      /\ F' = F
  BY DEF LD_HLRU
<1>3. w = (Exact!HL + step) % (Byte * Byte)
  BY SeenRegisters DEF Word
<1> HIDE DEF w
<1>4. /\ reg' \in [Registers -> U8]
      /\ reg'["A"] = v /\ reg'["H"] = w \div Byte /\ reg'["L"] = w % Byte
  BY <1>1, <1>2, SplitWord DEF TypeOK, Registers, msb8, lsb8
<1>5. Exact!LoadAndStep(v, step)
  BY <1>2, <1>3, <1>4 DEF Exact!LoadAndStep, w
<1> QED
  BY <1>2, <1>4, <1>5 DEF TypeOK

LEMMA Restores ==
    ASSUME TypeOK, NEW a \in U8, NEW f \in PoppedFlags, POP_AF(a, f)
    PROVE  TypeOK' /\ Exact!Restore(a)
<1>1. cpu_reg_set("A", a) /\ F' = [f EXCEPT !.low = 0]
  BY DEF POP_AF, cpu_AF_set, cpu_reg_set
<1>2. F' \in FlagBytes /\ F'.low = 0
  BY <1>1, OperandAssumption DEF FlagBytes
<1>3. Exact!Becomes("A", a) /\ reg' \in [Registers -> U8]
  BY <1>1, OneRegister DEF Registers
<1>4. {g \in FlagNames : get_flag(F', g) = 1} \in SUBSET {"Z", "N", "H", "C"}
  BY DEF FlagNames
<1> QED
  BY <1>2, <1>3, <1>4 DEF Exact!Restore, TypeOK

-----------------------------------------------------------------------------
(* Operands are bytes wherever they come from. *)
LEMMA OperandsAreBytes ==
    ASSUME TypeOK
    PROVE  /\ Operands \subseteq U8
           /\ Operands = Exact!Operands
BY OperandAssumption DEF TypeOK, Operands, Registers, Exact!Operands

(* Every step keeps the type invariant and is a step of Arithmetic. *)
LEMMA StepIsExact ==
    ASSUME TypeOK, [Next]_vars
    PROVE  TypeOK' /\ [Exact!Next]_(Exact!vars)
<1>1. ASSUME NEW y \in Operands, NEW withCarry \in BOOLEAN, ADD_A(y, withCarry)
      PROVE  TypeOK' /\ Exact!Next
  BY <1>1, OperandsAreBytes, Adds DEF Exact!Next
<1>2. ASSUME NEW y \in Operands, CP_A(y)
      PROVE  TypeOK' /\ Exact!Next
  BY <1>2, OperandsAreBytes, Compares DEF Exact!Next
<1>3. ASSUME NEW r \in Registers, INC_R8(r)
      PROVE  TypeOK' /\ Exact!Next
  BY <1>3, CountsUp DEF Exact!Next, Exact!Registers, Registers
<1>4. ASSUME NEW r \in Registers, DEC_R8(r)
      PROVE  TypeOK' /\ Exact!Next
  BY <1>4, CountsDown DEF Exact!Next, Exact!Registers, Registers
<1>5. ASSUME NEW w \in {HL} \cup Words, ADD_HL_R16SP(w)
      PROVE  TypeOK' /\ Exact!Next
  <2>1. w \in U16 /\ w \in {Exact!HL} \cup Words
    BY SeenRegisters, OperandAssumption
  <2> QED
    BY <1>5, <2>1, AddsPair DEF Exact!Next
<1>6. ASSUME INC_R16SP
      PROVE  TypeOK' /\ Exact!Next
  BY <1>6, CountsPairUp DEF Exact!Next
<1>7. ASSUME NEW r \in Registers, SLA_R8(r)
      PROVE  TypeOK' /\ Exact!Next
  BY <1>7, Doubles DEF Exact!Next, Exact!Registers, Registers
<1>8. ASSUME NEW r \in Registers, NEW dir \in Directions, ROT_R8(r, dir)
      PROVE  TypeOK' /\ Exact!Next
  <2>1. dir = "LEFT" \/ dir = "RIGHT"
    BY DEF Directions
  <2> QED
    BY <1>8, <2>1, RotatesUp, RotatesDown DEF Exact!Next, Exact!Registers, Registers
<1>9. ASSUME NEW r \in Registers, NEW n3 \in Places, BIT_U3_R8(r, n3)
      PROVE  TypeOK' /\ Exact!Next
  BY <1>9, Tests DEF Exact!Next, Exact!Registers, Registers
<1>10. ASSUME NEW r \in Registers, NEW n3 \in Places, NEW sr \in BOOLEAN,
              CHG_U3_R8(r, n3, sr)
       PROVE  TypeOK' /\ Exact!Next
  BY <1>10, Changes DEF Exact!Next, Exact!Registers, Registers
<1>11. ASSUME NEW r \in Registers, NEW v \in Operands, LD_R8(r, v)
       PROVE  TypeOK' /\ Exact!Next
  BY <1>11, OperandsAreBytes, Loads DEF Exact!Next, Exact!Registers, Registers
<1>12. ASSUME NEW w \in Words, LD_HL(w)
       PROVE  TypeOK' /\ Exact!Next
  BY <1>12, OperandAssumption, LoadsPair DEF Exact!Next
<1>13. ASSUME NEW v \in {reg["A"]} \cup Bytes, NEW step \in {-1, 1}, LD_HLRU(v, step)
       PROVE  TypeOK' /\ Exact!Next
  <2>1. v \in U8
    BY SeenRegisters, OperandAssumption DEF Registers
  <2> QED
    BY <1>13, <2>1, LoadsAndSteps DEF Exact!Next
<1>14. ASSUME NEW a \in Bytes, NEW f \in PoppedFlags, POP_AF(a, f)
       PROVE  TypeOK' /\ Exact!Next
  BY <1>14, OperandAssumption, Restores DEF Exact!Next
<1>15. CASE UNCHANGED vars
  BY <1>15 DEF vars, TypeOK, Exact!vars, get_flag
<1> QED
  BY <1>1, <1>2, <1>3, <1>4, <1>5, <1>6, <1>7, <1>8, <1>9, <1>10, <1>11, <1>12,
     <1>13, <1>14, <1>15 DEF Next

LEMMA StartIsExact ==
    ASSUME Init
    PROVE  TypeOK /\ Exact!Init
<1>1. 0 \in U8
  BY Widths DEF U8
<1> QED
  BY <1>1 DEF Init, TypeOK, NoFlags, FlagBytes, Registers, Exact!Init, get_flag

(* Registers and flags stay bytes, and the low nibble of F stays zero: no
   sequence of arithmetic, loads and POPs of AF (cpu-alu.c, cpu-registers.c)
   makes the flags unreadable, for any width and any operands. *)
THEOREM BytesStayBytes == Spec => []TypeOK
<1>1. Init => TypeOK
  BY StartIsExact
<1>2. TypeOK /\ [Next]_vars => TypeOK'
  BY StepIsExact
<1> QED
  BY <1>1, <1>2, PTL DEF Spec

(* The nibble-wise ALU of alu.c under the dispatch and the flag sources of
   cpu-alu.c implements arithmetic in whole numbers, instruction by
   instruction, for every nibble of one to four bits and any operands. *)
THEOREM ArithmeticIsExact == Spec => ImplementsArithmetic
<1>1. Init => Exact!Init
  BY StartIsExact
<1>2. TypeOK /\ [Next]_vars => [Exact!Next]_(Exact!vars)
  BY StepIsExact
<1> QED
  BY <1>1, <1>2, BytesStayBytes, PTL DEF Spec, ImplementsArithmetic, Exact!Spec
=============================================================================
