----------------------------- MODULE MachineProofs -----------------------------
(***************************************************************************)
(* Proofs about module Machine.                                            *)
(***************************************************************************)
EXTENDS Machine, TLAPS

-------------------------------------------------------------------------------
(* Bytes and words *)

FullWidth == NibbleBits = 4
LEMMA Range0 == ASSUME NEW n \in Int, NEW v PROVE v \in 0 .. n - 1 <=> v \in Int /\ 0 <= v /\ v < n
OBVIOUS
\* The real widths.
LEMMA Sizes ==
  ASSUME FullWidth
  PROVE  ByteBits = 8 /\ Nibble = 16 /\ Byte = 256 /\ Word = 65536
BY DEF FullWidth, ByteBits, Nibble, Byte, Word, Power
LEMMA InByte ==
  ASSUME FullWidth, NEW v
  PROVE  v \in U8 <=> v \in Int /\ 0 <= v /\ v < 256
<1>1. 256 \in Int /\ Byte = 256
  BY Sizes
<1>2. v \in 0 .. Byte - 1 <=> v \in Int /\ 0 <= v /\ v < Byte
  BY <1>1, Range0
<1>3. QED
  BY <1>1, <1>2 DEF U8
LEMMA InWord ==
  ASSUME FullWidth, NEW v
  PROVE  v \in U16 <=> v \in Int /\ 0 <= v /\ v < 65536
<1>1. 65536 \in Int /\ Word = 65536
  BY Sizes
<1>2. v \in 0 .. Word - 1 <=> v \in Int /\ 0 <= v /\ v < Word
  <2>1. Word \in Int
    BY <1>1
  <2>2. QED BY <2>1, Range0
<1>3. (v \in U16) = (v \in 0 .. Word - 1)
  BY DEF U16
<1>4. (v \in U16) <=> (v \in Int /\ 0 <= v /\ v < Word)
  BY <1>2, <1>3
<1> HIDE DEF Word
<1>5. QED
  BY <1>1, <1>4

LEMMA WordIsInt == ASSUME FullWidth, NEW v \in U16 PROVE v \in Int
BY InWord

LEMMA Bit ==
  ASSUME FullWidth, NEW v \in U8, NEW i \in 0 .. 7
  PROVE  bit_get(v, i) \in 0 .. 1
BY InByte DEF bit_get, Power

\* A bit that is set fits, a bit that is taken away was there.
LEMMA EditedBits ==
  ASSUME FullWidth, NEW v \in U8, NEW i \in 0 .. 7
  PROVE  bit_set(v, i) \in U8 /\ bit_unset(v, i) \in U8
<1>1. CASE i = 0 BY <1>1, InByte DEF bit_set, bit_unset, bit_get, Power
<1>2. CASE i = 1 BY <1>2, InByte DEF bit_set, bit_unset, bit_get, Power
<1>3. CASE i = 2 BY <1>3, InByte DEF bit_set, bit_unset, bit_get, Power
<1>4. CASE i = 3 BY <1>4, InByte DEF bit_set, bit_unset, bit_get, Power
<1>5. CASE i = 4 BY <1>5, InByte DEF bit_set, bit_unset, bit_get, Power
<1>6. CASE i = 5 BY <1>6, InByte DEF bit_set, bit_unset, bit_get, Power
<1>7. CASE i = 6 BY <1>7, InByte DEF bit_set, bit_unset, bit_get, Power
<1>8. CASE i = 7 BY <1>8, InByte DEF bit_set, bit_unset, bit_get, Power
<1>9. QED
  BY <1>1, <1>2, <1>3, <1>4, <1>5, <1>6, <1>7, <1>8

\* Bytes and words, merged and split (bit.c).
LEMMA MergedBytes ==
  ASSUME FullWidth, NEW l \in U8, NEW h \in U8
  PROVE  merge8(l, h) \in U16
BY Sizes, InByte, InWord DEF merge8

LEMMA SplitBytes ==
  ASSUME FullWidth, NEW w \in U16
  PROVE  lsb8(w) \in U8 /\ msb8(w) \in U8
BY Sizes, InByte, InWord DEF lsb8, msb8

-------------------------------------------------------------------------------
(* The arithmetic unit *)

Results == [value : U8, flags : FlagBytes]

LEMMA Flag ==
  ASSUME NEW flags, NEW f
  PROVE  get_flag(flags, f) \in 0 .. 1
BY DEF get_flag

LEMMA OutputIsResult ==
  ASSUME NEW v \in U8, NEW z, NEW n, NEW h \in Int, NEW c \in Int
  PROVE  set_output(v, z, n, h, c) \in Results
BY DEF set_output, Results, FlagBytes, FlagNames

LEMMA MovedIsResult ==
  ASSUME NEW v \in U8, NEW c \in Int
  PROVE  Moved(v, c) \in Results
<1>1. \A z, n : set_output(v, z, n, 0, c) \in Results
  BY OutputIsResult
<1>2. QED
  BY <1>1 DEF Moved

\* The arithmetic of alu.c gives a byte and flags, nibble by nibble.
LEMMA Nibbles ==
  ASSUME FullWidth, NEW v1 \in Int, NEW v2 \in Int
  PROVE  merge4(v1, v2) \in U8 /\ msb4(v1) \in Int /\ lsb4(v1) \in Int
<1>1. Nibble = 16 /\ Byte = 256
  BY Sizes
<1>2. QED
  BY <1>1, InByte DEF merge4, lsb4, msb4

LEMMA SumsAreResults ==
  ASSUME FullWidth, NEW x \in U8, NEW y \in U8, NEW c \in 0 .. 1
  PROVE  alu_add8(x, y, c) \in Results /\ alu_sub8(x, y, c) \in Results
<1>0. x \in Int /\ y \in Int /\ Byte = 256
  BY InByte, Sizes
<1>1. lsb4(x) \in Int /\ msb4(x) \in Int /\ lsb4(y) \in Int /\ msb4(y) \in Int
  BY <1>0, Nibbles
<1>2. alu_add8(x, y, c) \in Results
  <2> DEFINE low  == lsb4(x) + lsb4(y) + c
             high == msb4(x) + msb4(y) + msb4(low)
             sum == merge4(low, high)
  <2>1. low \in Int
    BY <1>1
  <2>2. msb4(low) \in Int
    BY <2>1, Nibbles
  <2>3. high \in Int
    BY <1>1, <2>2
  <2> HIDE DEF low, high
  <2>4. sum \in U8 /\ msb4(high) \in Int
    BY <2>1, <2>3, Nibbles
  <2> HIDE DEF sum
  <2>6. \A z, n : set_output(sum, z, n, msb4(low), msb4(high)) \in Results
    BY <2>2, <2>4, OutputIsResult
  <2>7. QED
    BY <2>6 DEF alu_add8, sum, low, high
<1>3. alu_sub8(x, y, c) \in Results
  <2> DEFINE low    == (lsb4(x) - lsb4(y) - c) % Byte
             borrow == IF msb4(low) # 0 THEN 1 ELSE 0
             high   == (msb4(x) - msb4(y) - borrow) % Byte
             sum    == merge4(low, high)
  <2>1. low \in Int
    BY <1>0, <1>1
  <2>2. msb4(low) \in Int
    BY <2>1, Nibbles
  <2>3. high \in Int
    BY <1>0, <1>1
  <2> HIDE DEF low, high
  <2>4. sum \in U8 /\ msb4(high) \in Int
    BY <2>1, <2>3, Nibbles
  <2> HIDE DEF sum
  <2>6. \A z, n : set_output(sum, z, n, msb4(low), msb4(high)) \in Results
    BY <2>2, <2>4, OutputIsResult
  <2>7. QED
    BY <2>6 DEF alu_sub8, sum, low, borrow, high
<1>4. QED
  BY <1>2, <1>3

LEMMA WordSumIsWord ==
  ASSUME FullWidth, NEW x \in U16, NEW y \in U16
  PROVE  alu_add16_high(x, y).value \in U16
<1> DEFINE low  == alu_add8(lsb8(x), lsb8(y), 0)
           high == alu_add8(msb8(x), msb8(y), get_flag(low.flags, "C"))
<1>1. low \in Results /\ high \in Results
  <2>1. /\ lsb8(x) \in U8 /\ lsb8(y) \in U8
        /\ msb8(x) \in U8 /\ msb8(y) \in U8
        /\ get_flag(low.flags, "C") \in 0 .. 1 /\ 0 \in 0 .. 1
    BY SplitBytes, Flag
  <2>2. QED
    BY <2>1, SumsAreResults
<1> HIDE DEF low, high
<1>2. low.value \in U8 /\ high.value \in U8
  BY <1>1 DEF Results
<1>3. merge8(low.value, high.value) \in U16
  BY <1>2, MergedBytes
<1>4. QED
  BY <1>3 DEF alu_add16_high, set_output, low, high

\* A byte is the sum of its bits.
LEMMA BitsOfByte ==
  ASSUME FullWidth, NEW v \in U8
  PROVE  /\ \A i \in 0 .. 7 : bit_get(v, i) \in 0 .. 1
         /\ v = bit_get(v, 0) + 2 * bit_get(v, 1) + 4 * bit_get(v, 2) + 8 * bit_get(v, 3)
                + 16 * bit_get(v, 4) + 32 * bit_get(v, 5) + 64 * bit_get(v, 6) + 128 * bit_get(v, 7)
<1>1. \A i \in 0 .. 7 : bit_get(v, i) \in 0 .. 1
  BY Bit
<1>2. v \in Int /\ 0 <= v /\ v < 256
  BY InByte
<1>3. v = (v % 2) + 2 * ((v \div 2) % 2) + 4 * ((v \div 4) % 2) + 8 * ((v \div 8) % 2)
          + 16 * ((v \div 16) % 2) + 32 * ((v \div 32) % 2) + 64 * ((v \div 64) % 2)
          + 128 * ((v \div 128) % 2)
  BY <1>2
<1>4. /\ bit_get(v, 0) = v % 2 /\ bit_get(v, 1) = (v \div 2) % 2 /\ bit_get(v, 2) = (v \div 4) % 2
      /\ bit_get(v, 3) = (v \div 8) % 2 /\ bit_get(v, 4) = (v \div 16) % 2
      /\ bit_get(v, 5) = (v \div 32) % 2 /\ bit_get(v, 6) = (v \div 64) % 2
      /\ bit_get(v, 7) = (v \div 128) % 2
  BY <1>2 DEF bit_get, Power
<1>5. QED
  BY <1>1, <1>3, <1>4

\* A number in binary.
Binary(f) == f[0] + 2 * f[1] + 4 * f[2] + 8 * f[3] + 16 * f[4] + 32 * f[5] + 64 * f[6] + 128 * f[7]

\* Digit by digit less, in all less; and all ones at most.
LEMMA BinaryGrows ==
  ASSUME NEW f \in [0 .. 7 -> Int], NEW g \in [0 .. 7 -> Int], \A i \in 0 .. 7 : f[i] <= g[i]
  PROVE  Binary(f) \in Int /\ Binary(f) <= Binary(g)
<1>1. /\ f[0] <= g[0] /\ f[1] <= g[1] /\ f[2] <= g[2] /\ f[3] <= g[3]
      /\ f[4] <= g[4] /\ f[5] <= g[5] /\ f[6] <= g[6] /\ f[7] <= g[7]
  OBVIOUS
<1>2. \A i \in 0 .. 7 : f[i] \in Int /\ g[i] \in Int
  OBVIOUS
<1>3. QED
  BY <1>1, <1>2 DEF Binary

\* And so for two numbers together.
LEMMA BinaryAdds ==
  ASSUME NEW f \in [0 .. 7 -> Int], NEW g \in [0 .. 7 -> Int], NEW h \in [0 .. 7 -> Int], NEW k \in [0 .. 7 -> Int],
         \A i \in 0 .. 7 : f[i] + g[i] <= h[i] + k[i]
  PROVE  Binary(f) + Binary(g) <= Binary(h) + Binary(k)
<1>1. /\ f[0] + g[0] <= h[0] + k[0] /\ f[1] + g[1] <= h[1] + k[1] /\ f[2] + g[2] <= h[2] + k[2]
      /\ f[3] + g[3] <= h[3] + k[3] /\ f[4] + g[4] <= h[4] + k[4] /\ f[5] + g[5] <= h[5] + k[5]
      /\ f[6] + g[6] <= h[6] + k[6] /\ f[7] + g[7] <= h[7] + k[7]
  OBVIOUS
<1>2. \A i \in 0 .. 7 : f[i] \in Int /\ g[i] \in Int /\ h[i] \in Int /\ k[i] \in Int
  OBVIOUS
<1>3. QED
  BY <1>1, <1>2, SMTT(30) DEF Binary

\* The bits two bytes share are a byte, and so are those of either and of one alone.
LEMMA CommonIsByte ==
  ASSUME FullWidth, NEW a \in U8, NEW b \in U8
  PROVE  Common(a, b) \in U8 /\ a + b - Common(a, b) \in U8 /\ a + b - 2 * Common(a, b) \in U8
<1> DEFINE d == [i \in 0 .. 7 |-> bit_get(a, i)]
           e == [i \in 0 .. 7 |-> bit_get(b, i)]
           c == [i \in 0 .. 7 |-> d[i] * e[i]]
           r == Common(a, b)
<1>1. /\ d \in [0 .. 7 -> 0 .. 1] /\ e \in [0 .. 7 -> 0 .. 1]
      /\ a = Binary(d) /\ b = Binary(e)
  BY BitsOfByte DEF Binary
<1>2. r = Binary(c)
  BY <1>1 DEF Common, Power, Binary
<1>3. \A x, y \in 0 .. 1 : /\ x * y \in 0 .. 1 /\ x * y <= x /\ x * y <= y
                           /\ x + y <= 1 + x * y
  OBVIOUS
<1>4. /\ c \in [0 .. 7 -> 0 .. 1]
      /\ \A i \in 0 .. 7 : c[i] <= d[i] /\ c[i] <= e[i] /\ d[i] + e[i] <= 1 + c[i]
  <2> HIDE DEF d, e
  <2>1. \A i \in 0 .. 7 : d[i] \in 0 .. 1 /\ e[i] \in 0 .. 1
    BY <1>1
  <2>2. QED
    BY <2>1, <1>3
<1> HIDE DEF d, e, c, r
<1> DEFINE zeros == [i \in 0 .. 7 |-> 0]
           ones == [i \in 0 .. 7 |-> 1]
<1>7. /\ zeros \in [0 .. 7 -> 0 .. 1] /\ ones \in [0 .. 7 -> 0 .. 1]
      /\ Binary(zeros) = 0 /\ Binary(ones) = 255
      /\ \A i \in 0 .. 7 : zeros[i] = 0 /\ ones[i] = 1
  BY DEF Binary
<1> HIDE DEF zeros, ones
<1>8. /\ zeros \in [0 .. 7 -> Int] /\ ones \in [0 .. 7 -> Int] /\ c \in [0 .. 7 -> Int]
      /\ d \in [0 .. 7 -> Int] /\ e \in [0 .. 7 -> Int]
  BY <1>1, <1>4, <1>7
<1>9. \A i \in 0 .. 7 : zeros[i] <= c[i] /\ d[i] + e[i] <= ones[i] + c[i]
  BY <1>4, <1>7
<1>10. /\ Binary(zeros) <= Binary(c) /\ Binary(c) <= Binary(d) /\ Binary(c) <= Binary(e)
       /\ Binary(c) \in Int
  BY <1>4, <1>8, <1>9, BinaryGrows
<1>11. Binary(d) + Binary(e) <= Binary(ones) + Binary(c)
  BY <1>8, <1>9, BinaryAdds
<1>12. a \in Int /\ b \in Int /\ a < 256 /\ b < 256
  BY InByte
<1>13. r \in U8 /\ a + b - r \in U8 /\ a + b - 2 * r \in U8
  BY <1>1, <1>2, <1>7, <1>10, <1>11, <1>12, InByte
<1>14. QED
  BY <1>13 DEF r

\* The operators taken from the unit tests give bytes and flags too.
LEMMA LogicIsResult ==
  ASSUME FullWidth, NEW a \in U8, NEW b \in U8
  PROVE  alu_and(a, b) \in Results /\ alu_or(a, b) \in Results /\ alu_xor(a, b) \in Results
BY CommonIsByte, MovedIsResult DEF alu_and, alu_or, alu_xor

\* What a shift or a rotation loses is a bit.
LEMMA LeavingIsBit ==
  ASSUME FullWidth, NEW v \in U8, NEW dir
  PROVE  Leaving(v, dir) \in Int
<1>1. bit_get(v, 0) \in 0 .. 1 /\ bit_get(v, 7) \in 0 .. 1
  BY Bit
<1>2. QED
  BY <1>1, Sizes DEF Leaving

LEMMA RotatedIsByte ==
  ASSUME FullWidth, NEW v \in U8, NEW dir
  PROVE  bit_rotate(v, dir) \in U8
<1>1. v \in Int /\ 0 <= v /\ v < 256
  BY InByte
<1>2. /\ ((v * 128) % 256) + v \div 2 \in Int /\ 0 <= ((v * 128) % 256) + v \div 2
      /\ ((v * 128) % 256) + v \div 2 < 256
      /\ ((v * 2) % 256) + v \div 128 \in Int /\ 0 <= ((v * 2) % 256) + v \div 128
      /\ ((v * 2) % 256) + v \div 128 < 256
  BY <1>1
<1>3. /\ Power(7) = 128 /\ Power(8 - 7) = 2 /\ Power(1) = 2 /\ Power(8 - 1) = 128
      /\ ByteBits = 8 /\ Byte = 256
  BY Sizes DEF Power
<1>4. bit_rotate(v, dir) \in {((v * 128) % 256) + v \div 2, ((v * 2) % 256) + v \div 128}
  BY <1>3 DEF bit_rotate
<1>5. QED
  BY <1>2, <1>4, InByte

LEMMA MovesAreResults ==
  ASSUME FullWidth, NEW v \in U8, NEW dir, NEW flags
  PROVE  /\ alu_shift(v, dir) \in Results
         /\ alu_carry_rotate(v, dir, flags) \in Results
         /\ alu_rotate(v, dir) \in Results
         /\ alu_swap(v) \in Results
         /\ alu_shiftR_A(v) \in Results
<1>1. v \in Int /\ 0 <= v /\ v < 256 /\ ByteBits = 8 /\ Byte = 256 /\ Nibble = 16
  BY InByte, Sizes
<1>2. (v * 2) % 256 \in U8 /\ v \div 2 \in U8
  BY <1>1, InByte
<1>3. Leaving(v, dir) \in Int /\ 0 \in Int
  BY LeavingIsBit
<1>4. alu_shift(v, dir) \in Results
  <2> DEFINE moved == IF dir = "LEFT" THEN (v * 2) % Byte ELSE v \div 2
  <2>1. moved \in U8
    BY <1>1, <1>2
  <2> HIDE DEF moved
  <2>2. \A z, n : set_output(moved, z, n, 0, Leaving(v, dir)) \in Results
    BY <2>1, <1>3, OutputIsResult
  <2>3. QED
    BY <2>2 DEF alu_shift, moved
<1>5. \A w \in U8, i \in 0 .. 7 : \A b : bit_edit(w, i, b) \in U8
  BY EditedBits DEF bit_edit
<1>6. alu_carry_rotate(v, dir, flags) \in Results
  <2> DEFINE moved == bit_edit(bit_rotate(v, dir), IF dir = "LEFT" THEN 0 ELSE ByteBits - 1,
                               get_flag(flags, "C"))
  <2>1. bit_rotate(v, dir) \in U8 /\ (IF dir = "LEFT" THEN 0 ELSE ByteBits - 1) \in 0 .. 7
    BY <1>1, RotatedIsByte
  <2>2. moved \in U8
    BY <2>1, <1>5
  <2> HIDE DEF moved
  <2>3. \A z, n : set_output(moved, z, n, 0, Leaving(v, dir)) \in Results
    BY <2>2, <1>3, OutputIsResult
  <2>4. QED
    BY <2>3 DEF alu_carry_rotate, moved
<1>7. alu_rotate(v, dir) \in Results
  BY <1>3, RotatedIsByte, MovedIsResult DEF alu_rotate
<1>8. alu_swap(v) \in Results
  <2>1. msb4(v) \in Int /\ lsb4(v) \in Int
    BY <1>1, Nibbles
  <2>2. merge4(msb4(v), lsb4(v)) \in U8
    BY <2>1, Nibbles
  <2>3. QED
    BY <2>2, <1>3, MovedIsResult DEF alu_swap
<1>9. alu_shiftR_A(v) \in Results
  <2>1. bit_edit(v \div 2, 7, bit_get(v, 7)) \in U8 /\ bit_get(v, 0) \in 0 .. 1 /\ ByteBits - 1 = 7
    BY <1>1, <1>2, <1>5, Bit
  <2>2. bit_get(v, 0) \in Int
    BY <2>1
  <2>3. QED
    BY <2>1, <2>2, MovedIsResult DEF alu_shiftR_A
<1>10. QED
  BY <1>4, <1>6, <1>7, <1>8, <1>9

LEMMA AdjustIsResult ==
  ASSUME FullWidth, NEW s, s.reg["A"] \in U8
  PROVE  DecimalAdjust(s) \in Results
<1> DEFINE a == s.reg["A"]
           down == get_flag(s.F, "N") = 1
           units == get_flag(s.F, "H") = 1 \/ (~down /\ a % 16 > 9)
           tens == get_flag(s.F, "C") = 1 \/ (~down /\ a > 153)
           by == (IF units THEN 6 ELSE 0) + (IF tens THEN 96 ELSE 0)
           v == (IF down THEN a - by ELSE a + by) % 256
<1>1. a \in Int
  BY InByte
<1> HIDE DEF down, units, tens
<1>2. by \in Int
  OBVIOUS
<1> HIDE DEF a, by
<1>3. v \in Int /\ 0 <= v /\ v < 256
  BY <1>1, <1>2
<1>4. (IF tens THEN 1 ELSE 0) \in Int
  OBVIOUS
<1> HIDE DEF v
<1>5. Moved(v, IF tens THEN 1 ELSE 0) \in Results
  BY <1>3, <1>4, InByte, MovedIsResult
<1>6. QED
  BY <1>5 DEF DecimalAdjust, a, down, units, tens, by, v

-------------------------------------------------------------------------------
(* The byte of flags *)

LEMMA CombinedAreFlags ==
  ASSUME NEW F, NEW src, NEW alu
  PROVE  CombinedFlags(F, src, alu) \in FlagBytes
<1>1. NoFlags \in FlagBytes
  BY DEF NoFlags, FlagBytes
<1>2. \A x \in FlagBytes, f \in FlagNames : \A taken : Raise(x, f, taken) \in FlagBytes
  BY DEF Raise, set_flag, FlagBytes
<1>3. QED
  BY <1>1, <1>2 DEF CombinedFlags, FlagNames

LEMMA FlagsOfByte ==
  ASSUME FullWidth, NEW b \in U8
  PROVE  [FlagsOf(b) EXCEPT !.low = 0] \in FlagBytes
<1>1. b % 16 \in 0 .. 15 /\ 0 \in 0 .. 15
  BY InByte
<1>2. FlagsOf(b) \in FlagBytes
  BY <1>1 DEF FlagsOf, FlagBytes
<1>3. QED
  BY <1>1, <1>2 DEF FlagBytes

LEMMA ByteOfFlags ==
  ASSUME FullWidth, NEW F \in FlagBytes
  PROVE  ByteOf(F) \in U8
<1> DEFINE weight(f) == IF f \in F.up THEN Weight[f] ELSE 0
<1>1. /\ weight("Z") \in {0, 128} /\ weight("N") \in {0, 64} /\ weight("H") \in {0, 32}
      /\ weight("C") \in {0, 16}
  BY DEF Weight
<1>2. F.low \in 0 .. 15
  BY DEF FlagBytes
<1>3. ByteOf(F) = weight("Z") + weight("N") + weight("H") + weight("C") + F.low
  BY DEF ByteOf
<1> HIDE DEF weight
<1>4. QED
  BY <1>1, <1>2, <1>3, InByte

-------------------------------------------------------------------------------
(* Machines *)

Files == [R8s -> U8]
Memories == UNION {[D -> U8] : D \in SUBSET (0 .. Word)}
Gaps == SUBSET U16
Switches == 0 .. 1
Machines ==
  [reg : Files, F : FlagBytes, SP : U16, PC : U16, IME : Switches, HALT : Switches,
   idle_time : U8, write_listener : U16, mem : Memories, gap : Gaps, err : Codes]
\* Machines on which an instruction may be executed.
Running == {s \in Machines : Fine(s)}

\* The set of machines that the type invariant describes.
LEMMA MachinesAre ==
  ASSUME NEW s
  PROVE  IsMachine(s) <=> s \in Machines
<1>1. ASSUME IsMachine(s) PROVE s \in Machines
  <2>1. [DOMAIN s.mem -> U8] \subseteq Memories
    BY <1>1 DEF Memories, IsMachine
  <2>2. QED
    BY <1>1, <2>1 DEF IsMachine, Machines, Files, Gaps, Switches
<1>2. ASSUME s \in Machines PROVE IsMachine(s)
  <2>1. s.mem \in [DOMAIN s.mem -> U8] /\ DOMAIN s.mem \subseteq 0 .. Word
    <3>1. s.mem \in Memories
      BY <1>2 DEF Machines
    <3>2. PICK D \in SUBSET (0 .. Word) : s.mem \in [D -> U8]
      BY <3>1 DEF Memories
    <3>3. QED
      BY <3>2
  <2>2. QED
    BY <1>2, <2>1 DEF IsMachine, Machines, Files, Gaps, Switches
<1>3. QED
  BY <1>1, <1>2

\* A field that gets another value of its kind.
LEMMA OneField ==
  ASSUME NEW s \in Running
  PROVE  /\ \A f \in Files : [s EXCEPT !.reg = f] \in Running
         /\ \A f \in FlagBytes : [s EXCEPT !.F = f] \in Running
         /\ \A w \in U16 : [s EXCEPT !.SP = w] \in Running /\ [s EXCEPT !.PC = w] \in Running
         /\ \A i \in Switches : [s EXCEPT !.IME = i] \in Running /\ [s EXCEPT !.HALT = i] \in Running
         /\ \A x \in Memories, a \in U16 : [s EXCEPT !.mem = x, !.write_listener = a] \in Running
         /\ \A w \in U16, i \in U8 : [s EXCEPT !.PC = w, !.idle_time = i] \in Running
BY DEF Running, Machines, Fine

\* What a machine is made of.
LEMMA Fields ==
  ASSUME NEW s \in Machines
  PROVE  /\ s.reg \in Files /\ s.F \in FlagBytes /\ s.SP \in U16 /\ s.PC \in U16
         /\ s.idle_time \in U8 /\ s.mem \in Memories
BY DEF Machines

LEMMA Failing ==
  ASSUME NEW s \in Running, NEW code \in {"ERR_BAD_PARAMETER", "ERR_INSTR"}
  PROVE  /\ Fail(s, code) \in Machines /\ ~Fine(Fail(s, code))
         /\ Fail(s, code).err = code
         /\ Unchecked(Fail(s, code)) = s
<1>1. s \in Machines /\ s.err = "ERR_NONE" /\ code \in Codes
  BY DEF Running, Fine, Codes
<1>2. Fail(s, code) \in Machines /\ Fail(s, code).err = code
  BY <1>1 DEF Fail, Machines
<1>3. Unchecked(Fail(s, code)) = s
  BY <1>1 DEF Unchecked, Fail, Machines
<1>4. QED
  BY <1>2, <1>3 DEF Fine

LEMMA NothingUnchecked ==
  ASSUME NEW s \in Running
  PROVE  Unchecked(s) = s
BY DEF Unchecked, Fail, Running, Machines, Fine

\* Setting a register or a pair of a running machine leaves one (cpu-registers.c).
LEMMA RegistersSet ==
  ASSUME NEW s \in Running, NEW r, NEW v \in U8
  PROVE  cpu_reg_set(s, r, v) \in Running
<1>1. [s.reg EXCEPT ![r] = v] \in Files
  BY Fields DEF Running, Files
<1>2. [s EXCEPT !.reg = [s.reg EXCEPT ![r] = v]] \in Running
  BY <1>1, OneField
<1>3. QED
  BY <1>2 DEF cpu_reg_set

LEMMA PairsGet ==
  ASSUME FullWidth, NEW s \in Running, NEW p \in {"AF", "BC", "DE", "HL"}
  PROVE  cpu_reg_pair_get(s, p) \in U16
<1>1. /\ \A r \in R8s : s.reg[r] \in U8
      /\ ByteOf(s.F) \in U8
  BY Fields, ByteOfFlags DEF Running, Files
<1>2. \A l, h \in U8 : merge8(l, h) \in U16
  BY MergedBytes
<1>3. p # "AF" => Halves[p][1] \in R8s /\ Halves[p][2] \in R8s
  BY DEF Halves, R8s
<1>4. "A" \in R8s
  BY DEF R8s
<1>5. QED
  BY <1>1, <1>2, <1>3, <1>4 DEF cpu_reg_pair_get

LEMMA PairsSet ==
  ASSUME FullWidth, NEW s \in Running, NEW p \in {"AF", "BC", "DE", "HL"}, NEW w \in U16
  PROVE  cpu_reg_pair_set(s, p, w) \in Running
<1> DEFINE h == msb8(w)
           l == lsb8(w)
           f == [FlagsOf(l) EXCEPT !.low = 0]
<1>1. h \in U8 /\ l \in U8
  BY SplitBytes
<1>2. f \in FlagBytes
  BY <1>1, FlagsOfByte
<1>3. s.reg \in Files
  BY Fields DEF Running
<1>4. CASE p = "AF"
  <2> DEFINE a == [s.reg EXCEPT !["A"] = h]
             t == [s EXCEPT !.reg = a]
  <2>1. a \in Files
    BY <1>1, <1>3 DEF Files
  <2> HIDE DEF a, f
  <2>2. t \in Running
    BY <2>1, OneField
  <2> HIDE DEF t
  <2>3. [t EXCEPT !.F = f] \in Running
    BY <2>2, <1>2, OneField
  <2>4. cpu_reg_pair_set(s, p, w) = [t EXCEPT !.F = f]
    BY <1>4 DEF cpu_reg_pair_set, t, a, f
  <2>5. QED
    BY <2>3, <2>4
<1>5. CASE p # "AF"
  <2> DEFINE a == [s.reg EXCEPT ![Halves[p][1]] = h]
             t == [s EXCEPT !.reg = a]
             b == [t.reg EXCEPT ![Halves[p][2]] = l]
  <2>1. a \in Files
    BY <1>1, <1>3 DEF Files
  <2> HIDE DEF a
  <2>2. t \in Running
    BY <2>1, OneField
  <2> HIDE DEF t
  <2>3. t.reg \in Files
    BY <2>2, Fields DEF Running
  <2>4. b \in Files
    BY <2>3, <1>1 DEF Files
  <2> HIDE DEF b
  <2>5. [t EXCEPT !.reg = b] \in Running
    BY <2>2, <2>4, OneField
  <2>6. cpu_reg_pair_set(s, p, w) = [t EXCEPT !.reg = b]
    BY <1>5 DEF cpu_reg_pair_set, t, a, b
  <2>7. QED
    BY <2>5, <2>6
<1>6. QED
  BY <1>4, <1>5

\* The registers, pairs and SP by their codes.
LEMMA WideRegisters ==
  ASSUME FullWidth, NEW s \in Running, NEW code \in 0 .. 3
  PROVE  /\ cpu_reg_pair_SP_get(s, code) \in U16
         /\ \A w \in U16 : cpu_reg_pair_SP_set(s, code, w) \in Running
<1>1. R16SPAt[code + 1] \in {"BC", "DE", "HL", "SP"}
  BY DEF R16SPAt
<1>2. s.SP \in U16
  BY Fields DEF Running
<1>3. QED
  BY <1>1, <1>2, OneField, PairsGet, PairsSet DEF cpu_reg_pair_SP_get, cpu_reg_pair_SP_set

-------------------------------------------------------------------------------
(* The bus and the stack *)

\* What an instruction may make of a machine: a running one, or the same and an error.
Outcomes(s) == Running \cup {Fail(s, "ERR_BAD_PARAMETER"), Fail(s, "ERR_INSTR")}

\* What is read is a byte or a word, in a gap as well.
LEMMA Reads ==
  ASSUME FullWidth, NEW s \in Running, NEW a
  PROVE  cpu_read_at_idx(s, a) \in U8 /\ cpu_read16_at_idx(s, a) \in U16
<1>1. s.mem \in Memories
  BY Fields DEF Running
<1>2. PICK D \in SUBSET (0 .. Word) : s.mem \in [D -> U8]
  BY <1>1 DEF Memories
<1>3. 0 \in U8 /\ NULL_DATA \in U8 /\ NULL_DATA \in U16
  BY InByte, InWord DEF NULL_DATA
<1>4. \A i : ByteAt(s, i) \in U8
  BY <1>2, <1>3 DEF ByteAt
<1>5. merge8(ByteAt(s, a), ByteAt(s, a + 1)) \in U16
  BY <1>4, MergedBytes
<1>6. QED
  BY <1>3, <1>4, <1>5 DEF cpu_read_at_idx, cpu_read16_at_idx

LEMMA Follows ==
  ASSUME FullWidth, NEW s \in Running
  PROVE  cpu_read_data_after_opcode(s) \in U8 /\ cpu_read_addr_after_opcode(s) \in U16
BY Reads DEF cpu_read_data_after_opcode, cpu_read_addr_after_opcode

LEMMA MemoryWritten ==
  ASSUME NEW f \in Memories, NEW a \in 0 .. Word, NEW v \in U8
  PROVE  Written(f, a, v) \in Memories
<1>1. PICK D \in SUBSET (0 .. Word) : f \in [D -> U8]
  BY DEF Memories
<1>2. D \cup {a} \in SUBSET (0 .. Word)
  OBVIOUS
<1>3. Written(f, a, v) \in [D \cup {a} -> U8]
  BY <1>1 DEF Written
<1>4. QED
  BY <1>2, <1>3 DEF Memories

\* One past the last address is still in the range of a memory.
LEMMA Addresses ==
  ASSUME FullWidth, NEW a \in U16
  PROVE  a \in 0 .. Word /\ a + 1 \in 0 .. Word
<1>1. a \in Int /\ 0 <= a /\ a < Word /\ Word \in Int
  BY InWord, Sizes
<1>2. \A n \in Int : a < n => a \in 0 .. n /\ a + 1 \in 0 .. n
  BY <1>1
<1> HIDE DEF Word
<1>3. QED
  BY <1>1, <1>2

\* A write is made, or fails and changes nothing but the error.
LEMMA WritesByte ==
  ASSUME FullWidth, NEW s \in Running, NEW a \in U16, NEW v \in U8
  PROVE  cpu_write_at_idx(s, a, v) \in Running \cup {Fail(s, "ERR_BAD_PARAMETER")}
<1>1. Written(s.mem, a, v) \in Memories
  BY Addresses, Fields, MemoryWritten DEF Running
<1>2. [s EXCEPT !.mem = Written(s.mem, a, v), !.write_listener = a] \in Running
  BY <1>1, OneField
<1>3. QED
  BY <1>2 DEF cpu_write_at_idx

LEMMA WritesWord ==
  ASSUME FullWidth, NEW s \in Running, NEW a \in U16, NEW w \in U16
  PROVE  cpu_write16_at_idx(s, a, w) \in Running \cup {Fail(s, "ERR_BAD_PARAMETER")}
<1> DEFINE upper == Written(s.mem, a + 1, msb8(w))
           both == Written(upper, a, lsb8(w))
<1>1. a \in 0 .. Word /\ a + 1 \in 0 .. Word /\ msb8(w) \in U8 /\ lsb8(w) \in U8
  BY Addresses, SplitBytes
<1>2. upper \in Memories
  BY <1>1, Fields, MemoryWritten DEF Running
<1> HIDE DEF upper
<1>3. both \in Memories
  BY <1>1, <1>2, MemoryWritten
<1> HIDE DEF both
<1>4. [s EXCEPT !.mem = both, !.write_listener = a] \in Running
  BY <1>3, OneField
<1>5. QED
  BY <1>4 DEF cpu_write16_at_idx, both, upper

LEMMA InWords ==
  ASSUME FullWidth, NEW n \in Int
  PROVE  n % Word \in U16
<1>1. n % 65536 \in Int /\ 0 <= n % 65536 /\ n % 65536 < 65536
  OBVIOUS
<1>2. QED
  BY <1>1, InWord, Sizes

\* A push that fails leaves SP as it was.
LEMMA Pushes ==
  ASSUME FullWidth, NEW s \in Running, NEW w \in U16
  PROVE  cpu_SP_push(s, w) \in Running \cup {Fail(s, "ERR_BAD_PARAMETER")}
<1> DEFINE n == (s.SP - 2) % Word
           down == [s EXCEPT !.SP = n]
           done == cpu_write16_at_idx(down, down.SP, w)
<1>1. s.SP \in U16 /\ s \in Machines
  BY Fields DEF Running
<1>2. n \in U16
  BY <1>1, InWord, InWords
<1> HIDE DEF n
<1>3. down \in Running
  BY <1>2, OneField
<1>4. down.SP \in U16
  BY <1>3, Fields DEF Running
<1>5. cpu_SP_push(s, w) = IF Fine(done) THEN done ELSE [done EXCEPT !.SP = s.SP]
  BY DEF cpu_SP_push, n
<1>6. [Fail(down, "ERR_BAD_PARAMETER") EXCEPT !.SP = s.SP] = Fail(s, "ERR_BAD_PARAMETER")
  <2> DEFINE code == "ERR_BAD_PARAMETER"
  <2>1. code \in Codes
    BY DEF Codes
  <2> HIDE DEF code
  <2>2. [Fail(down, code) EXCEPT !.SP = s.SP] = Fail(s, code)
    BY <2>1, <1>1, <1>2 DEF Fail, Machines
  <2>3. QED
    BY <2>2 DEF code
<1> HIDE DEF down
<1>7. done \in Running \cup {Fail(down, "ERR_BAD_PARAMETER")}
  BY <1>3, <1>4, WritesWord
<1> HIDE DEF done
<1>8. CASE done \in Running
  <2>1. Fine(done)
    BY <1>8 DEF Running
  <2>2. QED
    BY <2>1, <1>5, <1>8
<1>9. CASE done = Fail(down, "ERR_BAD_PARAMETER")
  <2>1. ~Fine(done)
    BY <1>3, <1>9, Failing
  <2>2. QED
    BY <2>1, <1>5, <1>6, <1>9
<1>10. QED
  BY <1>7, <1>8, <1>9

LEMMA Pops ==
  ASSUME FullWidth, NEW s \in Running
  PROVE  AfterPop(s) \in Running /\ Popped(s) \in U16
<1>1. s.SP \in U16
  BY Fields DEF Running
<1>2. (s.SP + 2) % Word \in U16
  BY <1>1, InWord, InWords
<1>3. [s EXCEPT !.SP = (s.SP + 2) % Word] \in Running
  BY <1>2, OneField
<1>4. QED
  BY <1>3, Reads DEF AfterPop, Popped

-------------------------------------------------------------------------------
(* The loads and the stores *)

\* What the executing functions rely on in a row: the operands cut out of the opcode.
PlaceOf(lu) == IF lu.family[1] \in {"INC", "DEC"} THEN 3 ELSE 0
Handled(lu) ==
  /\ lu.opcode \in U8 /\ lu.bytes \in Nat /\ lu.cycles \in Nat /\ lu.xtra_cycles \in Nat
  /\ lu.family[2] = "R8" => extract_reg(lu.opcode, PlaceOf(lu)) \in R8s
  /\ lu.family[1] \in {"LD_R8_R8", "LD_HLR_R8"} => extract_reg(lu.opcode, 0) \in R8s
  /\ lu.family[1] \in {"ADD_A", "SUB_A", "AND_A", "OR_A", "XOR_A", "CP_A"} =>
         lu.family[2] \in {"R8", "HLR", "N8"}
  /\ lu.family[1] \in {"INC", "DEC"} => lu.family[2] \in {"R8", "HLR", "R16SP"}
  /\ lu.family[1] \in {"SLA", "SRA", "SRL", "ROT", "ROTC", "SWAP", "BIT_U3", "CHG_U3"} =>
         lu.family[2] \in {"R8", "HLR"}

\* What is cut out of an opcode lies in the tables it is looked up in.
LEMMA Operands ==
  ASSUME FullWidth, NEW op \in U8
  PROVE  /\ extract_reg_pair(op) \in 0 .. 3
         /\ extract_n3(op) \in 0 .. 7
         /\ extract_cc(op) \in 0 .. 3
         /\ \A i \in {3, 4, 6} : bit(op, i) \in 0 .. 1
         /\ R16At[extract_reg_pair(op) + 1] \in {"AF", "BC", "DE", "HL"}
         /\ extract_HL_increment(op) \in Int
<1>1. op \in Int /\ 0 <= op /\ op < 256
  BY InByte
<1>2. (op \div 16) % 4 \in 0 .. 3 /\ (op \div 8) % 8 \in 0 .. 7 /\ (op \div 8) % 4 \in 0 .. 3
  BY <1>1
<1>3. \A i \in {3, 4, 6} : bit(op, i) \in 0 .. 1
  BY <1>1 DEF bit
<1>4. \A p \in 0 .. 3 : R16At[p + 1] \in {"AF", "BC", "DE", "HL"}
  BY DEF R16At
<1>5. extract_HL_increment(op) \in Int
  BY DEF extract_HL_increment
<1>6. QED
  BY <1>2, <1>3, <1>4, <1>5 DEF extract_reg_pair, extract_n3, extract_cc

LEMMA HLIsWord ==
  ASSUME FullWidth, NEW s \in Running
  PROVE  HLOf(s) \in U16
BY PairsGet DEF HLOf

LEMMA RegisterIsByte ==
  ASSUME NEW s \in Running, NEW r \in R8s
  PROVE  s.reg[r] \in U8
BY Fields DEF Running, Files

LEMMA Loads ==
  ASSUME FullWidth, NEW s \in Running, NEW r, NEW a
  PROVE  Load(s, r, a) \in Outcomes(s)
BY Reads, RegistersSet DEF Load, Outcomes

LEMMA Stores ==
  ASSUME FullWidth, NEW s \in Running, NEW r \in R8s, NEW a \in U16
  PROVE  Store(s, r, a) \in Outcomes(s)
BY RegisterIsByte, WritesByte DEF Store, Outcomes

LEMMA MovesOfHL ==
  ASSUME FullWidth, NEW s \in Running, NEW lu, NEW t \in Outcomes(s)
  PROVE  MoveHL(t, lu) \in Outcomes(s)
<1>1. CASE t \in Running
  <2> DEFINE n == (HLOf(t) + extract_HL_increment(lu.opcode)) % Word
  <2>1. HLOf(t) \in Int /\ extract_HL_increment(lu.opcode) \in Int
    BY <1>1, HLIsWord, InWord DEF extract_HL_increment
  <2>2. n \in U16
    BY <2>1, InWords
  <2> HIDE DEF n
  <2>3. cpu_reg_pair_set(t, "HL", n) \in Running
    BY <1>1, <2>2, PairsSet
  <2>4. Fine(t)
    BY <1>1 DEF Running
  <2>5. QED
    BY <2>3, <2>4 DEF MoveHL, Outcomes, n
<1>2. CASE t \in {Fail(s, "ERR_BAD_PARAMETER"), Fail(s, "ERR_INSTR")}
  <2>1. ~Fine(t)
    BY <1>2, Failing
  <2>2. QED
    BY <2>1 DEF MoveHL
<1>3. QED
  BY <1>1, <1>2 DEF Outcomes
\* cpu_dispatch_storage, all families.
LEMMA StorageOutcome ==
  ASSUME FullWidth, NEW s \in Running, NEW lu, Handled(lu), lu.family[1] \in StorageFamilies
  PROVE  cpu_dispatch_storage(s, lu) \in Outcomes(s)
<1> DEFINE family == lu.family[1]
           n8 == cpu_read_data_after_opcode(s)
           n16 == cpu_read_addr_after_opcode(s)
           CR == REGISTERS_START + s.reg["C"]
           pair == extract_reg_pair(lu.opcode)
           done == cpu_dispatch_storage(s, lu)
<1>1. n8 \in U8 /\ n16 \in U16
  BY Follows
<1>2. CR \in U16 /\ REGISTERS_START + n8 \in U16
  <2>1. s.reg["C"] \in U8
    BY RegisterIsByte DEF R8s
  <2>2. QED
    BY <1>1, <2>1, InByte, InWord DEF REGISTERS_START
<1>3. "A" \in R8s
  BY DEF R8s
<1>4. pair \in 0 .. 3 /\ R16At[pair + 1] \in {"AF", "BC", "DE", "HL"}
  BY Operands DEF Handled
<1>5. HLOf(s) \in U16 /\ cpu_reg_pair_get(s, "BC") \in U16 /\ cpu_reg_pair_get(s, "DE") \in U16
  BY HLIsWord, PairsGet
<1>6. s.SP \in U16
  BY Fields DEF Running
<1>7. Running \subseteq Outcomes(s)
  BY DEF Outcomes
<1> HIDE DEF n8, n16, CR, pair, done
<1>8. CASE family \in {"LD_A_BCR", "LD_A_DER", "LD_A_CR", "LD_A_N16R", "LD_A_N8R", "LD_R8_HLR"}
  <2>1. \E r, a : done = Load(s, r, a)
    BY <1>8 DEF cpu_dispatch_storage, done, n8, n16, CR
  <2>2. QED
    BY <2>1, Loads DEF done
<1>9. CASE family \in {"LD_A_HLRU", "LD_HLRU_A"}
  <2>1. done \in {MoveHL(Load(s, "A", HLOf(s)), lu), MoveHL(Store(s, "A", HLOf(s)), lu)}
    BY <1>9 DEF cpu_dispatch_storage, done
  <2>2. Load(s, "A", HLOf(s)) \in Outcomes(s) /\ Store(s, "A", HLOf(s)) \in Outcomes(s)
    BY <1>3, <1>5, Loads, Stores
  <2>3. QED
    BY <2>1, <2>2, MovesOfHL DEF done
<1>10. CASE family \in {"LD_BCR_A", "LD_DER_A", "LD_CR_A", "LD_N16R_A", "LD_N8R_A"}
  <2>1. \E a \in U16 : done = Store(s, "A", a)
    BY <1>1, <1>2, <1>5, <1>10 DEF cpu_dispatch_storage, done, n8, n16, CR
  <2>2. QED
    BY <1>3, <2>1, Stores DEF done
<1>11. CASE family = "LD_HLR_R8"
  <2>1. done = Store(s, extract_reg(lu.opcode, 0), HLOf(s)) /\ extract_reg(lu.opcode, 0) \in R8s
    BY <1>11 DEF cpu_dispatch_storage, done, Handled
  <2>2. QED
    BY <1>5, <2>1, Stores DEF done
<1>12. CASE family \in {"LD_HLR_N8", "LD_N16R_SP"}
  <2>1. done \in {cpu_write_at_idx(s, HLOf(s), n8), cpu_write16_at_idx(s, n16, s.SP)}
    BY <1>12 DEF cpu_dispatch_storage, done, n8, n16
  <2>2. QED
    BY <1>1, <1>5, <1>6, <2>1, WritesByte, WritesWord DEF done, Outcomes
<1>13. CASE family \in {"LD_R16SP_N16", "POP_R16"}
  <2>1. done \in {cpu_reg_pair_SP_set(s, pair, n16),
                  cpu_reg_pair_set(AfterPop(s), R16At[pair + 1], Popped(s))}
    BY <1>13 DEF cpu_dispatch_storage, done, n16, pair
  <2>2. cpu_reg_pair_SP_set(s, pair, n16) \in Running
    BY <1>1, <1>4, WideRegisters
  <2>3. AfterPop(s) \in Running /\ Popped(s) \in U16
    BY Pops
  <2>4. cpu_reg_pair_set(AfterPop(s), R16At[pair + 1], Popped(s)) \in Running
    BY <1>4, <2>3, PairsSet
  <2>5. QED
    BY <1>7, <2>1, <2>2, <2>4 DEF done
<1>14. CASE family \in {"LD_R8_N8", "LD_R8_R8"}
  <2> DEFINE r == extract_reg(lu.opcode, 3)
             from == extract_reg(lu.opcode, 0)
  <2>1. family = "LD_R8_R8" => from \in R8s
    BY DEF Handled
  <2> HIDE DEF r, from
  <2>2. family = "LD_R8_R8" => s.reg[from] \in U8
    BY <2>1, RegisterIsByte
  <2>3. \/ done = Fail(s, "ERR_INSTR")
        \/ \E v \in U8 : done = cpu_reg_set(s, r, v)
    BY <1>1, <1>14, <2>2 DEF cpu_dispatch_storage, done, n8, r, from
  <2>4. QED
    BY <1>7, <2>3, RegistersSet DEF done, Outcomes
<1>15. CASE family \in {"LD_SP_HL", "PUSH_R16"}
  <2>1. done \in {[s EXCEPT !.SP = HLOf(s)], cpu_SP_push(s, cpu_reg_pair_get(s, R16At[pair + 1]))}
    BY <1>15 DEF cpu_dispatch_storage, done, pair
  <2>2. [s EXCEPT !.SP = HLOf(s)] \in Running
    BY <1>5, OneField
  <2>3. cpu_reg_pair_get(s, R16At[pair + 1]) \in U16
    BY <1>4, PairsGet
  <2>4. QED
    BY <1>7, <2>1, <2>2, <2>3, Pushes DEF done, Outcomes
<1>16. QED
  BY <1>8, <1>9, <1>10, <1>11, <1>12, <1>13, <1>14, <1>15 DEF StorageFamilies, done
-------------------------------------------------------------------------------
(* The arithmetic *)

LEMMA FlagsCombined ==
  ASSUME NEW s \in Running, NEW src, NEW alu
  PROVE  cpu_combine_alu_flags(s, src, alu) \in Running
BY CombinedAreFlags, OneField DEF cpu_combine_alu_flags

LEMMA ResultSet ==
  ASSUME NEW s \in Running, NEW r, NEW alu \in Results, NEW src
  PROVE  combine_flags_set(s, r, alu, src) \in Running
BY FlagsCombined, RegistersSet DEF combine_flags_set, Results

LEMMA OperandIsByte ==
  ASSUME FullWidth, NEW s \in Running, NEW lu, Handled(lu), lu.family[2] \in {"R8", "HLR", "N8"}
  PROVE  Operand(s, lu) \in U8
<1>1. cpu_read_at_HL(s) \in U8 /\ cpu_read_data_after_opcode(s) \in U8
  BY Reads, Follows DEF cpu_read_at_HL
<1>2. lu.family[2] = "R8" => s.reg[extract_reg(lu.opcode, PlaceOf(lu))] \in U8
  BY RegisterIsByte DEF Handled
<1>3. QED
  BY <1>1, <1>2 DEF Operand, PlaceOf

\* A write at HL that fails is not noticed.
LEMMA BackInPlace ==
  ASSUME FullWidth, NEW s \in Running, NEW lu, NEW v \in U8
  PROVE  Back(s, lu, v) \in Running
<1> DEFINE done == cpu_write_at_idx(s, HLOf(s), v)
<1>1. done \in Running \cup {Fail(s, "ERR_BAD_PARAMETER")}
  BY HLIsWord, WritesByte
<1>2. Unchecked(done) \in Running
  BY <1>1, Failing, NothingUnchecked
<1>3. QED
  BY <1>2, RegistersSet DEF Back

LEMMA ResultInPlace ==
  ASSUME FullWidth, NEW s \in Running, NEW lu, NEW alu \in Results, NEW src
  PROVE  InPlace(s, lu, alu, src) \in Running
<1>1. alu.value \in U8
  BY DEF Results
<1>2. QED
  BY <1>1, FlagsCombined, BackInPlace DEF InPlace

LEMMA OneBit ==
  ASSUME FullWidth, NEW s \in Running, NEW v, NEW op \in U8, NEW sr
  PROVE  /\ BitTest(s, v, extract_n3(op)) \in Running
         /\ v \in U8 => do_set_or_res(v, extract_n3(op), sr) \in U8
<1>1. extract_n3(op) \in 0 .. 7
  BY Operands
<1>2. v \in U8 => do_set_or_res(v, extract_n3(op), sr) \in U8
  BY <1>1, EditedBits DEF do_set_or_res
<1>3. BitTest(s, v, extract_n3(op)) \in Running
  BY FlagsCombined DEF BitTest
<1>4. QED
  BY <1>2, <1>3

LEMMA AluExtRuns ==
  ASSUME FullWidth, NEW s \in Running, NEW lu, Handled(lu),
         lu.family[1] \in AluFamilies \ {"ADD_A", "INC", "ADD_HL_R16SP"},
         lu.family[1] = "DEC" => lu.family[2] # "R8"
  PROVE  cpu_dispatch_alu_ext(s, lu) \in Running
<1> DEFINE family == lu.family[1]
           a == s.reg["A"]
           x == Operand(s, lu)
           dir == extract_rot_dir(lu.opcode)
           pair == extract_reg_pair(lu.opcode)
           n8 == cpu_read_data_after_opcode(s)
           sum == (s.SP + Signed8(n8)) % Word
           carry == extract_carry(s, lu.opcode)
           done == cpu_dispatch_alu_ext(s, lu)
<1>1. a \in U8 /\ n8 \in U8 /\ pair \in 0 .. 3 /\ s.SP \in U16 /\ lu.opcode \in U8
  BY RegisterIsByte, Follows, Operands, Fields DEF R8s, Handled, Running
<1>2. carry \in 0 .. 1
  BY Flag DEF extract_carry
<1>3. 0 \in U8 /\ 1 \in U8 /\ 0 \in 0 .. 1
  BY InByte
<1> HIDE DEF a, x, dir, pair, n8, sum, carry, done
<1>4. CASE family \in {"SUB_A", "AND_A", "OR_A", "XOR_A"}
  <2>1. x \in U8
    BY <1>4, OperandIsByte DEF x, Handled
  <2>2. \A r \in {alu_sub8(a, x, carry), alu_and(a, x), alu_or(a, x), alu_xor(a, x)} : r \in Results
    BY <1>1, <1>2, <2>1, SumsAreResults, LogicIsResult
  <2>3. \E r \in {alu_sub8(a, x, carry), alu_and(a, x), alu_or(a, x), alu_xor(a, x)} :
          \E src : done = combine_flags_set(s, "A", r, src)
    BY <1>4 DEF cpu_dispatch_alu_ext, done, a, x, carry
  <2>4. QED
    BY <2>2, <2>3, ResultSet DEF done
<1>5. CASE family \in {"CP_A", "SCCF"}
  <2>1. \E src, alu : done = cpu_combine_alu_flags(s, src, alu)
    BY <1>5 DEF cpu_dispatch_alu_ext, done
  <2>2. QED
    BY <2>1, FlagsCombined DEF done
<1>6. CASE family = "DEC" /\ lu.family[2] = "R16SP"
  <2> DEFINE w == cpu_reg_pair_SP_get(s, pair)
             n == (w - 1) % Word
  <2>1. w \in Int
    BY <1>1, WideRegisters, WordIsInt
  <2>2. n \in U16
    BY <2>1, InWords
  <2> HIDE DEF n
  <2>3. cpu_reg_pair_SP_set(s, pair, n) \in Running
    BY <1>1, <2>2, WideRegisters
  <2>4. done = cpu_reg_pair_SP_set(s, pair, n)
    BY <1>6 DEF cpu_dispatch_alu_ext, done, n, pair
  <2>5. QED
    BY <2>3, <2>4 DEF done
<1>7. CASE \/ family \in {"SLA", "SRL", "SRA", "ROT", "ROTC", "SWAP"}
           \/ family = "DEC" /\ lu.family[2] = "HLR"
  <2> DEFINE moved == {alu_sub8(x, 1, 0), alu_shift(x, "LEFT"), alu_shift(x, "RIGHT"), alu_shiftR_A(x),
                       alu_carry_rotate(x, dir, s.F), alu_rotate(x, dir), alu_swap(x)}
  <2>1. x \in U8
    BY <1>7, OperandIsByte DEF x, Handled
  <2>2. \A r \in moved : r \in Results
    BY <1>3, <2>1, SumsAreResults, MovesAreResults
  <2>3. \E r \in moved : \E src : done = InPlace(s, lu, r, src)
    BY <1>7 DEF cpu_dispatch_alu_ext, done, x, dir
  <2>4. QED
    BY <2>2, <2>3, ResultInPlace DEF done
<1>8. CASE family \in {"ROTA", "ROTCA", "DAA"}
  <2> DEFINE moved == {alu_carry_rotate(a, dir, s.F), alu_rotate(a, dir), DecimalAdjust(s)}
  <2>1. DecimalAdjust(s) \in Results
    BY <1>1, AdjustIsResult DEF a
  <2>2. \A r \in moved : r \in Results
    BY <1>1, <2>1, MovesAreResults
  <2>3. \E r \in moved : \E src : done = combine_flags_set(s, "A", r, src)
    BY <1>8 DEF cpu_dispatch_alu_ext, done, a, dir
  <2>4. QED
    BY <2>2, <2>3, ResultSet DEF done
<1>9. CASE family = "BIT_U3"
  <2>1. done = BitTest(s, x, extract_n3(lu.opcode))
    BY <1>9 DEF cpu_dispatch_alu_ext, done, x
  <2>2. QED
    BY <1>1, <2>1, OneBit DEF done
<1>10. CASE family = "CHG_U3"
  <2> DEFINE v == do_set_or_res(x, extract_n3(lu.opcode), extract_sr_bit(lu.opcode))
  <2>1. x \in U8
    BY <1>10, OperandIsByte DEF x, Handled
  <2>2. v \in U8
    BY <1>1, <2>1, OneBit
  <2>3. done = Back(s, lu, v)
    BY <1>10 DEF cpu_dispatch_alu_ext, done, x
  <2>4. QED
    BY <2>2, <2>3, BackInPlace DEF done
<1>11. CASE family = "CPL"
  <2> DEFINE flagged == cpu_combine_alu_flags(s, <<"CPU", "SET", "SET", "CPU">>, NoFlags)
             not == Byte - 1 - a
  <2>1. flagged \in Running
    BY FlagsCombined
  <2>2. not \in U8
    BY <1>1, Sizes, InByte
  <2>3. done = [flagged EXCEPT !.reg["A"] = not]
    BY <1>11 DEF cpu_dispatch_alu_ext, done, a
  <2> HIDE DEF flagged, not
  <2>4. done = cpu_reg_set(flagged, "A", not)
    BY <2>3 DEF cpu_reg_set
  <2>5. QED
    BY <2>1, <2>2, <2>4, RegistersSet DEF done
<1>12. CASE family = "LD_HLSP_S8"
  <2>1. sum \in U16
    <3>1. s.SP + Signed8(n8) \in Int
      BY <1>1, InByte, InWord DEF Signed8
    <3>2. QED
      BY <3>1, InWords DEF sum
  <2>2. \E src, alu : LET flagged == cpu_combine_alu_flags(s, src, alu)
                      IN  done \in {cpu_reg_pair_set(flagged, "HL", sum), [flagged EXCEPT !.SP = sum]}
    BY <1>12 DEF cpu_dispatch_alu_ext, done, sum, n8
  <2>3. PICK src, alu : LET flagged == cpu_combine_alu_flags(s, src, alu)
                        IN  done \in {cpu_reg_pair_set(flagged, "HL", sum), [flagged EXCEPT !.SP = sum]}
    BY <2>2
  <2> DEFINE flagged == cpu_combine_alu_flags(s, src, alu)
  <2>4. flagged \in Running
    BY FlagsCombined
  <2> HIDE DEF flagged
  <2>5. cpu_reg_pair_set(flagged, "HL", sum) \in Running /\ [flagged EXCEPT !.SP = sum] \in Running
    BY <2>1, <2>4, PairsSet, OneField
  <2>6. QED
    BY <2>3, <2>5 DEF done, flagged
<1>13. QED
  BY <1>4, <1>5, <1>6, <1>7, <1>8, <1>9, <1>10, <1>11, <1>12 DEF AluFamilies, Handled, done
\* cpu_dispatch_alu, all families: it never fails.
LEMMA AluRuns ==
  ASSUME FullWidth, NEW s \in Running, NEW lu, Handled(lu), lu.family[1] \in AluFamilies
  PROVE  cpu_dispatch_alu(s, lu) \in Running
<1> DEFINE family == lu.family[1]
           form == lu.family[2]
           a == s.reg["A"]
           x == Operand(s, lu)
           pair == extract_reg_pair(lu.opcode)
           n3 == extract_n3(lu.opcode)
           carry == extract_carry(s, lu.opcode)
           wide == cpu_reg_pair_SP_get(s, pair)
           done == cpu_dispatch_alu(s, lu)
<1>1. a \in U8 /\ pair \in 0 .. 3 /\ lu.opcode \in U8
  BY RegisterIsByte, Operands DEF R8s, Handled
<1>2. carry \in 0 .. 1 /\ 0 \in 0 .. 1 /\ 1 \in U8
  BY Flag, InByte DEF extract_carry
<1>3. wide \in U16 /\ HLOf(s) \in U16
  BY <1>1, WideRegisters, HLIsWord
<1> HIDE DEF a, x, pair, n3, carry, wide, done
<1>4. CASE family = "ADD_A"
  <2>1. x \in U8
    BY <1>4, OperandIsByte DEF x, Handled
  <2>2. alu_add8(a, x, carry) \in Results
    BY <1>1, <1>2, <2>1, SumsAreResults
  <2>3. done = combine_flags_set(s, "A", alu_add8(a, x, carry), ADD_FLAGS_SRC)
    BY <1>4 DEF cpu_dispatch_alu, done, a, x, carry
  <2>4. QED
    BY <2>2, <2>3, ResultSet DEF done
<1>5. CASE \/ family = "INC" /\ form \in {"R8", "HLR"}
           \/ family \in {"DEC", "SLA", "ROT"} /\ form = "R8"
  <2> DEFINE moved == {alu_add8(x, 1, 0), alu_sub8(x, 1, 0), alu_shift(x, "LEFT"),
                       alu_carry_rotate(x, extract_rot_dir(lu.opcode), s.F)}
  <2>1. x \in U8
    BY <1>5, OperandIsByte DEF x
  <2>2. \A r \in moved : r \in Results
    BY <1>2, <2>1, SumsAreResults, MovesAreResults
  <2>3. \E r \in moved : \E src : done = InPlace(s, lu, r, src)
    BY <1>5 DEF cpu_dispatch_alu, done, x
  <2>4. QED
    BY <2>2, <2>3, ResultInPlace DEF done
<1>6. CASE family = "ADD_HL_R16SP"
  <2> DEFINE alu == alu_add16_high(HLOf(s), wide)
             flagged == cpu_combine_alu_flags(s, ADD_16_FLAGS_SRC, alu.flags)
  <2>1. alu.value \in U16
    BY <1>3, WordSumIsWord
  <2>2. flagged \in Running
    BY FlagsCombined
  <2> HIDE DEF alu, flagged
  <2>3. cpu_reg_pair_set(flagged, "HL", alu.value) \in Running
    BY <2>1, <2>2, PairsSet
  <2>4. done = cpu_reg_pair_set(flagged, "HL", alu.value)
    BY <1>6 DEF cpu_dispatch_alu, done, flagged, alu, wide, pair
  <2>5. QED
    BY <2>3, <2>4 DEF done
<1>7. CASE family = "INC" /\ form = "R16SP"
  <2> DEFINE w == alu_add16_high(wide, 1).value
  <2>1. 1 \in U16
    BY InWord
  <2>2. w \in U16
    BY <1>3, <2>1, WordSumIsWord
  <2>3. done = cpu_reg_pair_SP_set(s, pair, w)
    BY <1>7 DEF cpu_dispatch_alu, done, wide, pair
  <2> HIDE DEF w
  <2>4. QED
    BY <1>1, <2>2, <2>3, WideRegisters DEF done
<1>8. CASE family = "CP_A" /\ form # "HLR"
  <2>1. done = cpu_combine_alu_flags(s, SUB_FLAGS_SRC, alu_sub8(a, x, 0).flags)
    BY <1>8 DEF cpu_dispatch_alu, done, a, x
  <2>2. QED
    BY <2>1, FlagsCombined DEF done
<1>9. CASE family \in {"BIT_U3", "CHG_U3"} /\ form = "R8"
  <2> DEFINE v == do_set_or_res(x, n3, extract_sr_bit(lu.opcode))
  <2>1. x \in U8
    BY <1>9, OperandIsByte DEF x
  <2>2. v \in U8 /\ BitTest(s, x, n3) \in Running
    BY <1>1, <2>1, OneBit DEF n3
  <2>3. done \in {BitTest(s, x, n3), Back(s, lu, v)}
    BY <1>9 DEF cpu_dispatch_alu, done, x, n3
  <2> HIDE DEF v
  <2>4. QED
    BY <2>2, <2>3, BackInPlace DEF done
<1>10. CASE ~(\/ family \in {"ADD_A", "INC", "ADD_HL_R16SP"}
              \/ family = "CP_A" /\ form # "HLR"
              \/ family \in {"DEC", "SLA", "ROT", "BIT_U3", "CHG_U3"} /\ form = "R8")
  <2>1. done = cpu_dispatch_alu_ext(s, lu)
    BY <1>10 DEF cpu_dispatch_alu, done
  <2>2. cpu_dispatch_alu_ext(s, lu) \in Running
    BY <1>10, AluExtRuns
  <2>3. QED
    BY <2>1, <2>2 DEF done
<1>11. QED
  BY <1>4, <1>5, <1>6, <1>7, <1>8, <1>9, <1>10 DEF Handled, done

-------------------------------------------------------------------------------
(* The control *)

LEMMA GoesTo ==
  ASSUME FullWidth, NEW s \in Running, NEW n \in Int
  PROVE  Goto(s, n) \in Running
BY InWords, OneField DEF Goto

LEMMA NextIsWord ==
  ASSUME FullWidth, NEW s \in Running, NEW n \in Int
  PROVE  (s.PC + n) % Word \in U16
<1>1. s.PC + n \in Int
  BY Fields, WordIsInt DEF Running
<1>2. QED
  BY <1>1, InWords

LEMMA Calls ==
  ASSUME FullWidth, NEW s \in Running, NEW lu, lu.bytes \in Nat
  PROVE  Call(s, lu) \in Outcomes(s)
<1> DEFINE next == (s.PC + lu.bytes) % Word
           pushed == cpu_SP_push(s, next)
<1>1. next \in U16
  BY NextIsWord
<1> HIDE DEF next
<1>2. pushed \in Running \cup {Fail(s, "ERR_BAD_PARAMETER")}
  BY <1>1, Pushes
<1> HIDE DEF pushed
<1>3. CASE pushed \in Running
  <2>1. cpu_read_addr_after_opcode(pushed) \in Int
    BY <1>3, Follows, WordIsInt
  <2>2. QED
    BY <1>3, <2>1, GoesTo DEF Call, pushed, next, Outcomes, Running
<1>4. CASE pushed = Fail(s, "ERR_BAD_PARAMETER")
  <2>1. ~Fine(pushed)
    BY <1>4, Failing
  <2>2. QED
    BY <1>4, <2>1 DEF Call, pushed, next, Outcomes
<1>5. QED
  BY <1>2, <1>3, <1>4

LEMMA Returns ==
  ASSUME FullWidth, NEW s \in Running
  PROVE  Return(s) \in Running
<1>1. AfterPop(s) \in Running /\ Popped(s) \in Int
  BY Pops, WordIsInt
<1>2. QED
  BY <1>1, GoesTo DEF Return

LEMMA Restarts ==
  ASSUME FullWidth, NEW s \in Running, NEW lu, lu.opcode \in U8
  PROVE  Restart(s, lu) \in Running
<1> DEFINE next == (s.PC + 1) % Word
           pushed == cpu_SP_push(s, next)
           a == 8 * extract_n3(lu.opcode)
<1>1. next \in U16
  BY NextIsWord
<1> HIDE DEF next
<1>2. pushed \in Running \cup {Fail(s, "ERR_BAD_PARAMETER")}
  BY <1>1, Pushes
<1>3. Unchecked(pushed) \in Running
  BY <1>2, Failing, NothingUnchecked
<1>4. a \in Int
  <2>1. extract_n3(lu.opcode) \in 0 .. 7
    BY Operands
  <2>2. QED
    BY <2>1
<1> HIDE DEF pushed, a
<1>5. QED
  BY <1>3, <1>4, GoesTo DEF Restart, pushed, next, a

\* The switch of cpu_dispatch, all families.
LEMMA ExecutionOutcome ==
  ASSUME FullWidth, NEW s \in Running, NEW lu, Handled(lu)
  PROVE  Executed(s, lu) \in Outcomes(s)
<1> DEFINE family == lu.family[1]
           done == Executed(s, lu)
<1>1. Running \subseteq Outcomes(s)
  BY DEF Outcomes
<1>2. lu.opcode \in U8 /\ lu.bytes \in Nat
  BY DEF Handled
<1> HIDE DEF done
<1>3. CASE family \in AluFamilies
  <2>1. done = cpu_dispatch_alu(s, lu)
    BY <1>3 DEF Executed, done, AluFamilies, StorageFamilies
  <2>2. QED
    BY <1>1, <1>3, <2>1, AluRuns DEF done
<1>4. CASE family \in StorageFamilies
  <2>1. family \notin AluFamilies
    BY <1>4 DEF AluFamilies, StorageFamilies
  <2>2. done = cpu_dispatch_storage(s, lu)
    BY <1>4, <2>1 DEF Executed, done, StorageFamilies
  <2>3. QED
    BY <1>4, <2>2, StorageOutcome DEF done
<1>5. CASE family \in {"JP_N16", "JP_CC_N16", "JP_HL", "JR_E8", "JR_CC_E8"}
  <2> DEFINE e == Signed8(cpu_read_data_after_opcode(s))
  <2>1. cpu_read_addr_after_opcode(s) \in Int /\ HLOf(s) \in Int /\ s.PC \in Int
    BY Follows, HLIsWord, Fields, WordIsInt DEF Running
  <2>2. e \in Int
    BY Follows, InByte DEF Signed8
  <2> HIDE DEF e
  <2>3. s.PC + e \in Int
    BY <2>1, <2>2
  <2>4. \E n \in {cpu_read_addr_after_opcode(s), HLOf(s), s.PC + e} : done = Goto(s, n)
    BY <1>5 DEF Executed, done, e, AluFamilies, StorageFamilies
  <2>5. QED
    BY <1>1, <2>1, <2>3, <2>4, GoesTo DEF done
<1>6. CASE family \in {"CALL_N16", "CALL_CC_N16", "RST_U3"}
  <2>1. done \in {Call(s, lu), Restart(s, lu)}
    BY <1>6 DEF Executed, done, AluFamilies, StorageFamilies
  <2>2. QED
    BY <1>1, <1>2, <2>1, Calls, Restarts DEF done
<1>7. CASE family \in {"RET", "RET_CC", "RETI"}
  <2>1. [s EXCEPT !.IME = 1] \in Running
    <3>1. 1 \in Switches
      BY DEF Switches
    <3>2. QED
      BY <3>1, OneField
  <2>2. done \in {Return(s), Return([s EXCEPT !.IME = 1])}
    BY <1>7 DEF Executed, done, AluFamilies, StorageFamilies
  <2>3. QED
    BY <1>1, <2>1, <2>2, Returns DEF done
<1>8. CASE family \in {"EDI", "HALT", "STOP", "NOP"}
  <2>1. extract_ime(lu.opcode) \in Switches /\ 1 \in Switches
    BY <1>2, Operands DEF extract_ime, Switches
  <2>2. [s EXCEPT !.IME = extract_ime(lu.opcode)] \in Running /\ [s EXCEPT !.HALT = 1] \in Running
    BY <2>1, OneField
  <2>3. done \in {[s EXCEPT !.IME = extract_ime(lu.opcode)], [s EXCEPT !.HALT = 1], s}
    BY <1>8 DEF Executed, done, AluFamilies, StorageFamilies
  <2>4. QED
    BY <1>1, <2>2, <2>3 DEF done
<1>9. CASE /\ family \notin AluFamilies \cup StorageFamilies
           /\ family \notin {"JP_N16", "JP_CC_N16", "JP_HL", "JR_E8", "JR_CC_E8", "CALL_N16",
                             "CALL_CC_N16", "RST_U3", "RET", "RET_CC", "RETI", "EDI", "HALT",
                             "STOP", "NOP"}
  <2>1. done = Fail(s, "ERR_INSTR")
    BY <1>9 DEF Executed, done
  <2>2. QED
    BY <2>1 DEF done, Outcomes
<1>10. QED
  BY <1>3, <1>4, <1>5, <1>6, <1>7, <1>8, <1>9 DEF done

\* After an error PC and idle_time stay.
LEMMA DispatchOutcome ==
  ASSUME FullWidth, NEW s \in Running, NEW lu, Handled(lu)
  PROVE  cpu_dispatch(s, lu) \in Outcomes(s)
<1> DEFINE conditional == lu.family[1] \in ConditionalFamilies
           taken == conditional => check_cc(s, lu)
           done == IF taken THEN Executed(s, lu) ELSE s
           stays == taken /\ lu.family[1] \in JumpFamilies
           PC == IF stays THEN done.PC ELSE (done.PC + lu.bytes) % Word
           idle == (done.idle_time + lu.cycles + IF taken THEN lu.xtra_cycles ELSE 0) % 256
<1>1. done \in Outcomes(s)
  BY ExecutionOutcome DEF Outcomes
<1> HIDE DEF taken, done, stays
<1>2. CASE done \in Running
  <2>1. PC \in U16
    BY <1>2, Fields, NextIsWord DEF Running, Handled
  <2>2. idle \in U8
    <3>1. done.idle_time \in Int
      BY <1>2, Fields, InByte DEF Running
    <3>2. QED
      BY <3>1, InByte DEF Handled
  <2> HIDE DEF PC, idle
  <2>3. [done EXCEPT !.PC = PC, !.idle_time = idle] \in Running
    BY <1>2, <2>1, <2>2, OneField
  <2>4. cpu_dispatch(s, lu) = [done EXCEPT !.PC = PC, !.idle_time = idle]
    BY <1>2 DEF cpu_dispatch, Running, taken, done, stays, PC, idle
  <2>5. QED
    BY <2>3, <2>4 DEF Outcomes
<1>3. CASE done \in {Fail(s, "ERR_BAD_PARAMETER"), Fail(s, "ERR_INSTR")}
  <2>1. ~Fine(done)
    BY <1>3, Failing
  <2>2. cpu_dispatch(s, lu) = done
    BY <2>1 DEF cpu_dispatch, taken, done
  <2>3. QED
    BY <1>1, <2>2
<1>4. QED
  BY <1>1, <1>2, <1>3 DEF Outcomes
-------------------------------------------------------------------------------
(* The rows of opcode.h *)

LEMMA Registers ==
  ASSUME NEW r \in R8s
  PROVE  REG(r) \in 0 .. 7 /\ R8At[REG(r) + 1] = r
BY DEF R8s, REG, CodeOf, R8At

\* The register in the low three bits, and in the three above them.
LEMMA RegisterCoded ==
  ASSUME NEW r \in R8s, NEW q \in 0 .. 31
  PROVE  extract_reg(8 * q + REG(r), 0) = r
<1>1. REG(r) \in 0 .. 7 /\ R8At[REG(r) + 1] = r
  BY Registers
<1>2. ((8 * q + REG(r)) \div 2 ^ 0) % 8 = REG(r)
  BY <1>1
<1>3. QED
  BY <1>1, <1>2 DEF extract_reg

LEMMA HighRegisterCoded ==
  ASSUME NEW r \in R8s, NEW q \in 0 .. 3, NEW x \in 0 .. 7
  PROVE  extract_reg(64 * q + 8 * REG(r) + x, 3) = r
<1>1. REG(r) \in 0 .. 7 /\ R8At[REG(r) + 1] = r
  BY Registers
<1>2. ((64 * q + 8 * REG(r) + x) \div 2 ^ 3) % 8 = REG(r)
  BY <1>1
<1>3. QED
  BY <1>1, <1>2 DEF extract_reg

LEMMA Codes4 ==
  ASSUME NEW p
  PROVE  /\ p \in Coded(R16SPAt) \cup Coded(R16At) \cup Coded(Conditions) => p.code \in 0 .. 3
         /\ p \in Coded(U3At) => p.code \in 0 .. 7
BY DEF Coded, R16SPAt, R16At, Conditions, U3At

\* The groups that the rows of opcode.h come in, each decoded.
LEMMA AccumulatorHandled ==
  ASSUME FullWidth, NEW verb, NEW base \in {128, 136, 144, 152, 160, 168, 176, 184},
         NEW family \in {"ADD_A", "SUB_A", "AND_A", "OR_A", "XOR_A", "CP_A"},
         NEW row \in Accumulator(verb, family, base)
  PROVE  Handled(row)
<1>0. PICK q \in 16 .. 23 : base = 8 * q
  <2>1. base \div 8 \in 16 .. 23 /\ base = 8 * (base \div 8)
    OBVIOUS
  <2>2. QED
    BY <2>1
<1>1. CASE \E r \in R8s : row = INSTR_FORM(<<verb, "A", r>>, family, "R8", 8 * q + REG(r), 1, 1)
  <2>1. PICK r \in R8s : row = INSTR_FORM(<<verb, "A", r>>, family, "R8", 8 * q + REG(r), 1, 1)
    BY <1>1
  <2>2. REG(r) \in 0 .. 7 /\ extract_reg(8 * q + REG(r), 0) = r
    BY Registers, RegisterCoded
  <2>3. 8 * q + REG(r) \in U8
    BY <2>2, InByte
  <2>4. QED
    BY <2>1, <2>2, <2>3 DEF Handled, PlaceOf, INSTR_FORM, INSTR_DFX
<1>2. CASE row \in {INSTR_FORM(<<verb, "A", "HLR">>, family, "HLR", 8 * q + 6, 1, 2),
                    INSTR_FORM(<<verb, "A", "N8">>, family, "N8", 8 * q + 70, 2, 2)}
  <2>1. 8 * q + 6 \in U8 /\ 8 * q + 70 \in U8
    BY InByte
  <2>2. QED
    BY <1>2, <2>1 DEF Handled, INSTR_FORM, INSTR_DFX
<1>3. QED
  BY <1>0, <1>1, <1>2 DEF Accumulator

LEMMA CountedHandled ==
  ASSUME FullWidth, NEW verb, NEW x \in {4, 5}, NEW family \in {"INC", "DEC"},
         NEW row \in Counted(verb, family, x)
  PROVE  Handled(row)
<1>1. CASE \E r \in R8s : row = INSTR_FORM(<<verb, r, "-">>, family, "R8", x + 8 * REG(r), 1, 1)
  <2>1. PICK r \in R8s : row = INSTR_FORM(<<verb, r, "-">>, family, "R8", x + 8 * REG(r), 1, 1)
    BY <1>1
  <2>2. REG(r) \in 0 .. 7 /\ extract_reg(64 * 0 + 8 * REG(r) + x, 3) = r
    BY Registers, HighRegisterCoded
  <2>3. x + 8 * REG(r) \in U8 /\ 64 * 0 + 8 * REG(r) + x = x + 8 * REG(r)
    BY <2>2, InByte
  <2>4. QED
    BY <2>1, <2>2, <2>3 DEF Handled, PlaceOf, INSTR_FORM, INSTR_DFX
<1>2. CASE row = INSTR_FORM(<<verb, "HLR", "-">>, family, "HLR", x + 48, 1, 3)
  <2>1. x + 48 \in U8
    BY InByte
  <2>2. QED
    BY <1>2, <2>1 DEF Handled, INSTR_FORM, INSTR_DFX
<1>3. QED
  BY <1>1, <1>2 DEF Counted

LEMMA WideHandled ==
  ASSUME FullWidth, NEW verb, NEW x \in {3, 11}, NEW family \in {"INC", "DEC"},
         NEW row \in Wide(verb, family, x)
  PROVE  Handled(row)
<1>1. PICK p \in Coded(R16SPAt) :
         row = INSTR_FORM(<<verb, p.x, "-">>, family, "R16SP", x + 16 * p.code, 1, 2)
  BY DEF Wide
<1>2. x + 16 * p.code \in U8
  BY Codes4, InByte
<1>3. QED
  BY <1>1, <1>2 DEF Handled, INSTR_FORM, INSTR_DFX

\* The families of one row for each condition, and those without an operand to cut out.
Plain(family) ==
  family \notin {"ADD_A", "SUB_A", "AND_A", "OR_A", "XOR_A", "CP_A", "INC", "DEC", "SLA", "SRA", "SRL",
                 "ROT", "ROTC", "SWAP", "BIT_U3", "CHG_U3", "LD_R8_R8", "LD_HLR_R8"}

LEMMA PlainHandled ==
  ASSUME FullWidth, NEW name, NEW family, Plain(family), NEW opcode \in U8,
         NEW bytes \in Nat, NEW cycles \in Nat, NEW xtra \in Nat
  PROVE  Handled(INSTR_DFX("DIRECT", name, <<family, "-">>, opcode, bytes, cycles, xtra))
BY DEF Handled, Plain, INSTR_DFX

LEMMA DefinedHandled ==
  ASSUME FullWidth, NEW name, NEW family, Plain(family), NEW opcode \in U8,
         NEW bytes \in Nat, NEW cycles \in Nat
  PROVE  Handled(INSTR_DEF(name, family, opcode, bytes, cycles))
BY PlainHandled DEF INSTR_DEF

LEMMA ConditionalHandled ==
  ASSUME FullWidth, NEW verb, NEW to, NEW family, Plain(family), NEW base \in Int, 0 <= base, base <= 200,
         NEW bytes \in Nat, NEW cycles \in Nat, NEW xtra \in Nat,
         NEW row \in Conditional(verb, to, family, base, bytes, cycles, xtra)
  PROVE  Handled(row)
<1>1. PICK c \in Coded(Conditions) :
        row = INSTR_DFX("DIRECT", <<verb, c.x, to>>, <<family, "-">>, base + 8 * c.code, bytes, cycles, xtra)
  BY DEF Conditional
<1>2. base + 8 * c.code \in U8
  BY Codes4, InByte
<1>3. QED
  BY <1>1, <1>2, PlainHandled

LEMMA ShiftedHandled ==
  ASSUME FullWidth, NEW verb, NEW base \in {0, 8, 16, 24, 32, 40, 48, 56},
         NEW family \in {"SLA", "SRA", "SRL", "ROT", "ROTC", "SWAP"},
         NEW row \in Shifted(verb, family, base)
  PROVE  Handled(row)
<1>0. PICK q \in 0 .. 7 : base = 8 * q
  <2>1. base \div 8 \in 0 .. 7 /\ base = 8 * (base \div 8)
    OBVIOUS
  <2>2. QED
    BY <2>1
<1>1. CASE \E r \in R8s : row = INSTR_PRE(<<verb, r, "-">>, family, "R8", 8 * q + REG(r), 2)
  <2>1. PICK r \in R8s : row = INSTR_PRE(<<verb, r, "-">>, family, "R8", 8 * q + REG(r), 2)
    BY <1>1
  <2>2. REG(r) \in 0 .. 7 /\ extract_reg(8 * q + REG(r), 0) = r
    BY Registers, RegisterCoded
  <2>3. 8 * q + REG(r) \in U8
    BY <2>2, InByte
  <2>4. QED
    BY <2>1, <2>2, <2>3 DEF Handled, PlaceOf, INSTR_PRE, INSTR_DFX
<1>2. CASE row = INSTR_PRE(<<verb, "HLR", "-">>, family, "HLR", 8 * q + 6, 4)
  <2>1. 8 * q + 6 \in U8
    BY InByte
  <2>2. QED
    BY <1>2, <2>1 DEF Handled, INSTR_PRE, INSTR_DFX
<1>3. QED
  BY <1>0, <1>1, <1>2 DEF Shifted

LEMMA PlacedHandled ==
  ASSUME FullWidth, NEW verb, NEW base \in {64, 128, 192}, NEW family \in {"BIT_U3", "CHG_U3"},
         NEW cycles \in Nat, NEW row \in Placed(verb, family, base, cycles)
  PROVE  Handled(row)
<1>0. PICK q \in {8, 16, 24} : base = 8 * q
  OBVIOUS
<1>1. CASE \E u \in Coded(U3At), r \in R8s :
             row = INSTR_PRE(<<verb, u.x, r>>, family, "R8", 8 * q + 8 * u.code + REG(r), 2)
  <2>1. PICK u \in Coded(U3At), r \in R8s :
          row = INSTR_PRE(<<verb, u.x, r>>, family, "R8", 8 * q + 8 * u.code + REG(r), 2)
    BY <1>1
  <2>2. u.code \in 0 .. 7
    BY Codes4
  <2>3. q + u.code \in 0 .. 31
    BY <2>2
  <2>4. REG(r) \in 0 .. 7 /\ extract_reg(8 * (q + u.code) + REG(r), 0) = r
    BY <2>3, Registers, RegisterCoded
  <2>5. /\ 8 * q + 8 * u.code + REG(r) \in U8
        /\ 8 * (q + u.code) + REG(r) = 8 * q + 8 * u.code + REG(r)
    BY <2>2, <2>4, InByte
  <2>6. QED
    BY <2>1, <2>4, <2>5 DEF Handled, PlaceOf, INSTR_PRE, INSTR_DFX
<1>2. CASE \E u \in Coded(U3At) :
             row = INSTR_PRE(<<verb, u.x, "HLR">>, family, "HLR", 8 * q + 8 * u.code + 6, cycles)
  <2>1. PICK u \in Coded(U3At) :
          row = INSTR_PRE(<<verb, u.x, "HLR">>, family, "HLR", 8 * q + 8 * u.code + 6, cycles)
    BY <1>2
  <2>2. 8 * q + 8 * u.code + 6 \in U8
    BY Codes4, InByte
  <2>3. QED
    BY <2>1, <2>2 DEF Handled, INSTR_PRE, INSTR_DFX
<1>3. QED
  BY <1>0, <1>1, <1>2 DEF Placed
LEMMA ADCtoCPLHandled == ASSUME FullWidth, NEW row \in RowsADCtoCPL PROVE Handled(row)
<1>1. CASE row \in Accumulator("ADC", "ADD_A", 136) \cup Accumulator("ADD", "ADD_A", 128)
                   \cup Accumulator("AND", "AND_A", 160)
  BY <1>1, AccumulatorHandled
<1>2. CASE row \in {INSTR_FORM(<<"ADD", "HL", p.x>>, "ADD_HL_R16SP", "-", 9 + 16 * p.code, 1, 2) :
                      p \in Coded(R16SPAt)}
  <2>1. PICK p \in Coded(R16SPAt) :
          row = INSTR_FORM(<<"ADD", "HL", p.x>>, "ADD_HL_R16SP", "-", 9 + 16 * p.code, 1, 2)
    BY <1>2
  <2>2. 9 + 16 * p.code \in U8
    BY Codes4, InByte
  <2>3. Plain("ADD_HL_R16SP")
    BY DEF Plain
  <2>4. QED
    BY <2>1, <2>2, <2>3, PlainHandled DEF INSTR_FORM
<1>3. CASE row \in Conditional("CALL", "N16", "CALL_CC_N16", 196, 3, 3, 3)
  <2>1. Plain("CALL_CC_N16")
    BY DEF Plain
  <2>2. QED
    BY <1>3, <2>1, ConditionalHandled
<1>4. /\ Handled(INSTR_DEF(<<"ADD", "SP", "N">>, "LD_HLSP_S8", 232, 2, 4))
      /\ Handled(INSTR_DEF(<<"CALL", "N16", "-">>, "CALL_N16", 205, 3, 6))
      /\ Handled(INSTR_DEF(<<"CCF", "-", "-">>, "SCCF", 63, 1, 1))
      /\ Handled(INSTR_DEF(<<"CPL", "-", "-">>, "CPL", 47, 1, 1))
  BY InByte DEF Handled, INSTR_DEF, INSTR_DFX
<1>5. QED
  <2>1. \/ row \in Accumulator("ADC", "ADD_A", 136) \cup Accumulator("ADD", "ADD_A", 128)
                       \cup Accumulator("AND", "AND_A", 160)
        \/ row \in {INSTR_FORM(<<"ADD", "HL", p.x>>, "ADD_HL_R16SP", "-", 9 + 16 * p.code, 1, 2) :
                          p \in Coded(R16SPAt)}
        \/ row \in Conditional("CALL", "N16", "CALL_CC_N16", 196, 3, 3, 3)
        \/ row = INSTR_DEF(<<"ADD", "SP", "N">>, "LD_HLSP_S8", 232, 2, 4)
        \/ row = INSTR_DEF(<<"CALL", "N16", "-">>, "CALL_N16", 205, 3, 6)
        \/ row = INSTR_DEF(<<"CCF", "-", "-">>, "SCCF", 63, 1, 1)
        \/ row = INSTR_DEF(<<"CPL", "-", "-">>, "CPL", 47, 1, 1)
    BY DEF RowsADCtoCPL
  <2>2. QED
    BY <2>1, <1>1, <1>2, <1>3, <1>4

LEMMA CPtoJRHandled == ASSUME FullWidth, NEW row \in RowsCPtoJR PROVE Handled(row)
<1>1. CASE row \in Accumulator("CP", "CP_A", 184)
  BY <1>1, AccumulatorHandled
<1>2. CASE row \in Counted("DEC", "DEC", 5) \cup Counted("INC", "INC", 4)
  BY <1>2, CountedHandled
<1>3. CASE row \in Wide("DEC", "DEC", 11) \cup Wide("INC", "INC", 3)
  BY <1>3, WideHandled
<1>4. CASE row \in Conditional("JP", "N16", "JP_CC_N16", 194, 3, 3, 1)
                   \cup Conditional("JR", "E8", "JR_CC_E8", 32, 2, 2, 1)
  <2>1. Plain("JP_CC_N16") /\ Plain("JR_CC_E8")
    BY DEF Plain
  <2>2. QED
    BY <1>4, <2>1, ConditionalHandled
<1>5. /\ Handled(INSTR_DEF(<<"DAA", "-", "-">>, "DAA", 39, 1, 1))
      /\ Handled(INSTR_DEF(<<"DI", "-", "-">>, "EDI", 243, 1, 1))
      /\ Handled(INSTR_DEF(<<"EI", "-", "-">>, "EDI", 251, 1, 1))
      /\ Handled(INSTR_DEF(<<"HALT", "-", "-">>, "HALT", 118, 1, 1))
      /\ Handled(INSTR_DEF(<<"JP", "HL", "-">>, "JP_HL", 233, 1, 1))
      /\ Handled(INSTR_DEF(<<"JP", "N16", "-">>, "JP_N16", 195, 3, 4))
      /\ Handled(INSTR_DEF(<<"JR", "E8", "-">>, "JR_E8", 24, 2, 3))
  BY InByte DEF Handled, INSTR_DEF, INSTR_DFX
<1>6. QED
  <2>1. \/ row \in Accumulator("CP", "CP_A", 184)
        \/ row \in Counted("DEC", "DEC", 5) \cup Counted("INC", "INC", 4)
        \/ row \in Wide("DEC", "DEC", 11) \cup Wide("INC", "INC", 3)
        \/ row \in Conditional("JP", "N16", "JP_CC_N16", 194, 3, 3, 1)
                       \cup Conditional("JR", "E8", "JR_CC_E8", 32, 2, 2, 1)
        \/ row = INSTR_DEF(<<"DAA", "-", "-">>, "DAA", 39, 1, 1)
        \/ row = INSTR_DEF(<<"DI", "-", "-">>, "EDI", 243, 1, 1)
        \/ row = INSTR_DEF(<<"EI", "-", "-">>, "EDI", 251, 1, 1)
        \/ row = INSTR_DEF(<<"HALT", "-", "-">>, "HALT", 118, 1, 1)
        \/ row = INSTR_DEF(<<"JP", "HL", "-">>, "JP_HL", 233, 1, 1)
        \/ row = INSTR_DEF(<<"JP", "N16", "-">>, "JP_N16", 195, 3, 4)
        \/ row = INSTR_DEF(<<"JR", "E8", "-">>, "JR_E8", 24, 2, 3)
    BY DEF RowsCPtoJR
  <2>2. QED
    BY <2>1, <1>1, <1>2, <1>3, <1>4, <1>5

LEMMA LDPlacesHandled == ASSUME FullWidth, NEW row \in RowsLDPlaces PROVE Handled(row)
<1>1. /\ Handled(INSTR_DEF(<<"LD", "HLR", "N8">>, "LD_HLR_N8", 54, 2, 3))
      /\ Handled(INSTR_DEF(<<"LD", "A", "BCR">>, "LD_A_BCR", 10, 1, 2))
      /\ Handled(INSTR_DEF(<<"LD", "A", "DER">>, "LD_A_DER", 26, 1, 2))
      /\ Handled(INSTR_DEF(<<"LD", "A", "HLRI">>, "LD_A_HLRU", 42, 1, 2))
      /\ Handled(INSTR_DEF(<<"LD", "A", "HLRD">>, "LD_A_HLRU", 58, 1, 2))
      /\ Handled(INSTR_DEF(<<"LD", "A", "CR">>, "LD_A_CR", 242, 1, 2))
      /\ Handled(INSTR_DEF(<<"LD", "A", "N16R">>, "LD_A_N16R", 250, 3, 4))
      /\ Handled(INSTR_DEF(<<"LD", "A", "N8R">>, "LD_A_N8R", 240, 2, 3))
      /\ Handled(INSTR_DEF(<<"LD", "BCR", "A">>, "LD_BCR_A", 2, 1, 2))
      /\ Handled(INSTR_DEF(<<"LD", "DER", "A">>, "LD_DER_A", 18, 1, 2))
      /\ Handled(INSTR_DEF(<<"LD", "HLRI", "A">>, "LD_HLRU_A", 34, 1, 2))
      /\ Handled(INSTR_DEF(<<"LD", "HLRD", "A">>, "LD_HLRU_A", 50, 1, 2))
      /\ Handled(INSTR_DEF(<<"LD", "CR", "A">>, "LD_CR_A", 226, 1, 2))
      /\ Handled(INSTR_DEF(<<"LD", "N16R", "A">>, "LD_N16R_A", 234, 3, 4))
      /\ Handled(INSTR_DEF(<<"LD", "N8R", "A">>, "LD_N8R_A", 224, 2, 3))
      /\ Handled(INSTR_DEF(<<"LD", "N16R", "SP">>, "LD_N16R_SP", 8, 3, 5))
      /\ Handled(INSTR_DEF(<<"LD", "HL", "SP_N8">>, "LD_HLSP_S8", 248, 2, 3))
      /\ Handled(INSTR_DEF(<<"LD", "SP", "HL">>, "LD_SP_HL", 249, 1, 2))
  BY InByte DEF Handled, INSTR_DEF, INSTR_DFX
<1>2. QED
  BY <1>1 DEF RowsLDPlaces

LEMMA LDHandled == ASSUME FullWidth, NEW row \in RowsLD PROVE Handled(row)
<1> DEFINE moves == {INSTR_DEF(<<"LD", r, s>>, FamilyOfLD(r, s), 64 + 8 * REG(r) + REG(s), 1, 1) :
                       r \in R8s, s \in R8s}
           loads == {INSTR_DEF(<<"LD", r, "HLR">>, "LD_R8_HLR", 70 + 8 * REG(r), 1, 2) : r \in R8s}
           bytes == {INSTR_DEF(<<"LD", r, "N8">>, "LD_R8_N8", 6 + 8 * REG(r), 2, 2) : r \in R8s}
           stores == {INSTR_DEF(<<"LD", "HLR", r>>, "LD_HLR_R8", 112 + REG(r), 1, 2) : r \in R8s}
           words == {INSTR_DEF(<<"LD", p.x, "N16">>, "LD_R16SP_N16", 1 + 16 * p.code, 3, 3) :
                       p \in Coded(R16SPAt)}
<1>1. CASE row \in moves
  <2>1. PICK r \in R8s, s \in R8s :
          row = INSTR_DEF(<<"LD", r, s>>, FamilyOfLD(r, s), 64 + 8 * REG(r) + REG(s), 1, 1)
    BY <1>1
  <2>2. REG(r) \in 0 .. 7 /\ REG(s) \in 0 .. 7
    BY Registers
  <2>3. 8 + REG(r) \in 0 .. 31
    BY <2>2
  <2>4. extract_reg(8 * (8 + REG(r)) + REG(s), 0) = s
    BY <2>3, RegisterCoded
  <2>5. 64 + 8 * REG(r) + REG(s) \in U8 /\ 8 * (8 + REG(r)) + REG(s) = 64 + 8 * REG(r) + REG(s)
    BY <2>2, InByte
  <2>6. /\ row.opcode = 64 + 8 * REG(r) + REG(s)
        /\ row.bytes \in Nat /\ row.cycles \in Nat /\ row.xtra_cycles \in Nat
    BY <2>1 DEF INSTR_DEF, INSTR_DFX
  <2>7. row.family[1] \in {"NOP", "LD_R8_R8"} /\ row.family[2] = "-"
    <3>1. row.family[1] = FamilyOfLD(r, s) /\ row.family[2] = "-"
      BY <2>1 DEF INSTR_DEF, INSTR_DFX
    <3>2. FamilyOfLD(r, s) \in {"NOP", "LD_R8_R8"}
      BY DEF FamilyOfLD
    <3>3. QED
      BY <3>1, <3>2
  <2>8. row.opcode \in U8 /\ extract_reg(row.opcode, 0) \in R8s
    BY <2>2, <2>4, <2>5, <2>6
  <2>9. row.bytes \in Nat /\ row.cycles \in Nat /\ row.xtra_cycles \in Nat
    BY <2>6
  <2>10. QED
    BY <2>7, <2>8, <2>9 DEF Handled
<1>2. CASE row \in loads \cup bytes
  <2>1. PICK r \in R8s :
          row \in {INSTR_DEF(<<"LD", r, "HLR">>, "LD_R8_HLR", 70 + 8 * REG(r), 1, 2),
                   INSTR_DEF(<<"LD", r, "N8">>, "LD_R8_N8", 6 + 8 * REG(r), 2, 2)}
    BY <1>2
  <2>2. 70 + 8 * REG(r) \in U8 /\ 6 + 8 * REG(r) \in U8
    BY Registers, InByte
  <2>3. Plain("LD_R8_HLR") /\ Plain("LD_R8_N8")
    BY DEF Plain
  <2>4. QED
    BY <2>1, <2>2, <2>3, DefinedHandled
<1>3. CASE row \in stores
  <2>1. PICK r \in R8s : row = INSTR_DEF(<<"LD", "HLR", r>>, "LD_HLR_R8", 112 + REG(r), 1, 2)
    BY <1>3
  <2>2. REG(r) \in 0 .. 7 /\ extract_reg(8 * 14 + REG(r), 0) = r
    BY Registers, RegisterCoded
  <2>3. 112 + REG(r) \in U8 /\ 8 * 14 + REG(r) = 112 + REG(r)
    BY <2>2, InByte
  <2>4. QED
    BY <2>1, <2>2, <2>3 DEF Handled, INSTR_DEF, INSTR_DFX
<1>4. CASE row \in words
  <2>1. PICK p \in Coded(R16SPAt) : row = INSTR_DEF(<<"LD", p.x, "N16">>, "LD_R16SP_N16", 1 + 16 * p.code, 3, 3)
    BY <1>4
  <2>2. 1 + 16 * p.code \in U8
    BY Codes4, InByte
  <2>3. Plain("LD_R16SP_N16")
    BY DEF Plain
  <2>4. QED
    BY <2>1, <2>2, <2>3, DefinedHandled
<1>5. CASE row \in RowsLDPlaces
  BY <1>5, LDPlacesHandled
<1>6. QED
  <2>1. RowsLD = moves \cup loads \cup bytes \cup stores \cup words \cup RowsLDPlaces
    BY DEF RowsLD
  <2> HIDE DEF moves, loads, bytes, stores, words
  <2>2. QED
    BY <2>1, <1>1, <1>2, <1>3, <1>4, <1>5
LEMMA NOPtoXORHandled == ASSUME FullWidth, NEW row \in RowsNOPtoXOR PROVE Handled(row)
<1> DEFINE pops == {INSTR_DEF(<<"POP", p.x, "-">>, "POP_R16", 193 + 16 * p.code, 1, 3) : p \in Coded(R16At)}
           pushes == {INSTR_DEF(<<"PUSH", p.x, "-">>, "PUSH_R16", 197 + 16 * p.code, 1, 4) : p \in Coded(R16At)}
           restarts == {INSTR_DEF(<<"RST", u.x, "-">>, "RST_U3", 199 + 8 * u.code, 1, 4) : u \in Coded(U3At)}
           returns == Conditional("RET", "-", "RET_CC", 192, 1, 2, 3)
           sums == Accumulator("OR", "OR_A", 176) \cup Accumulator("SBC", "SUB_A", 152)
                   \cup Accumulator("SUB", "SUB_A", 144) \cup Accumulator("XOR", "XOR_A", 168)
<1>1. CASE row \in pops \cup pushes
  <2>1. PICK p \in Coded(R16At) :
          \/ row = INSTR_DEF(<<"POP", p.x, "-">>, "POP_R16", 193 + 16 * p.code, 1, 3)
          \/ row = INSTR_DEF(<<"PUSH", p.x, "-">>, "PUSH_R16", 197 + 16 * p.code, 1, 4)
    BY <1>1
  <2>2. 193 + 16 * p.code \in U8 /\ 197 + 16 * p.code \in U8
    BY Codes4, InByte
  <2>3. Plain("POP_R16") /\ Plain("PUSH_R16")
    BY DEF Plain
  <2>4. /\ Handled(INSTR_DEF(<<"POP", p.x, "-">>, "POP_R16", 193 + 16 * p.code, 1, 3))
        /\ Handled(INSTR_DEF(<<"PUSH", p.x, "-">>, "PUSH_R16", 197 + 16 * p.code, 1, 4))
    BY <2>2, <2>3, DefinedHandled
  <2>5. QED
    BY <2>1, <2>4
<1>2. CASE row \in restarts
  <2>1. PICK u \in Coded(U3At) : row = INSTR_DEF(<<"RST", u.x, "-">>, "RST_U3", 199 + 8 * u.code, 1, 4)
    BY <1>2
  <2>2. 199 + 8 * u.code \in U8
    BY Codes4, InByte
  <2>3. Plain("RST_U3")
    BY DEF Plain
  <2>4. QED
    BY <2>1, <2>2, <2>3, DefinedHandled
<1>3. CASE row \in returns
  <2>1. Plain("RET_CC")
    BY DEF Plain
  <2>2. QED
    BY <1>3, <2>1, ConditionalHandled
<1>4. CASE row \in sums
  BY <1>4, AccumulatorHandled
<1>5. /\ Handled(INSTR_DEF(<<"NOP", "-", "-">>, "NOP", 0, 1, 1))
      /\ Handled(INSTR_DEF(<<"SCF", "-", "-">>, "SCCF", 55, 1, 1))
      /\ Handled(INSTR_DEF(<<"STOP", "-", "-">>, "STOP", 16, 1, 0))
      /\ Handled(INSTR_DEF(<<"RET", "-", "-">>, "RET", 201, 1, 4))
      /\ Handled(INSTR_DEF(<<"RETI", "-", "-">>, "RETI", 217, 1, 4))
      /\ Handled(INSTR_DEF(<<"RLCA", "-", "-">>, "ROTCA", 7, 1, 1))
      /\ Handled(INSTR_DEF(<<"RRCA", "-", "-">>, "ROTCA", 15, 1, 1))
      /\ Handled(INSTR_DEF(<<"RLA", "-", "-">>, "ROTA", 23, 1, 1))
      /\ Handled(INSTR_DEF(<<"RRA", "-", "-">>, "ROTA", 31, 1, 1))
  BY InByte DEF Handled, INSTR_DEF, INSTR_DFX
<1>6. QED
  <2> HIDE DEF pops, pushes, restarts, returns, sums
  <2>1. \/ row \in pops \cup pushes
        \/ row \in restarts
        \/ row \in returns
        \/ row \in sums
        \/ row = INSTR_DEF(<<"NOP", "-", "-">>, "NOP", 0, 1, 1)
        \/ row = INSTR_DEF(<<"SCF", "-", "-">>, "SCCF", 55, 1, 1)
        \/ row = INSTR_DEF(<<"STOP", "-", "-">>, "STOP", 16, 1, 0)
        \/ row = INSTR_DEF(<<"RET", "-", "-">>, "RET", 201, 1, 4)
        \/ row = INSTR_DEF(<<"RETI", "-", "-">>, "RETI", 217, 1, 4)
        \/ row = INSTR_DEF(<<"RLCA", "-", "-">>, "ROTCA", 7, 1, 1)
        \/ row = INSTR_DEF(<<"RRCA", "-", "-">>, "ROTCA", 15, 1, 1)
        \/ row = INSTR_DEF(<<"RLA", "-", "-">>, "ROTA", 23, 1, 1)
        \/ row = INSTR_DEF(<<"RRA", "-", "-">>, "ROTA", 31, 1, 1)
    BY ZenonT(60) DEF RowsNOPtoXOR, pops, pushes, restarts, returns, sums
  <2>2. QED
    BY <2>1, <1>1, <1>2, <1>3, <1>4, <1>5

LEMMA PrefixedHandled ==
  ASSUME FullWidth, NEW row \in RowsBIT \cup RowsRES \cup RowsSET \cup RowsRLCtoRR \cup RowsSLAtoSWAP
  PROVE  Handled(row)
<1>1. CASE row \in RowsBIT \cup RowsRES \cup RowsSET
  BY <1>1, PlacedHandled DEF RowsBIT, RowsRES, RowsSET
<1>2. CASE row \in RowsRLCtoRR \cup RowsSLAtoSWAP
  BY <1>2, ShiftedHandled DEF RowsRLCtoRR, RowsSLAtoSWAP
<1>3. QED
  BY <1>1, <1>2

\* Every row of opcode.h is one that cpu_dispatch decodes.
LEMMA RowsHandled == ASSUME FullWidth, NEW row \in Rows PROVE Handled(row)
<1>1. Handled(OP_UNKOWN)
  BY InByte DEF OP_UNKOWN, Handled, INSTR_DEF, INSTR_DFX
<1>2. QED
  BY <1>1, ADCtoCPLHandled, CPtoJRHandled, LDHandled, NOPtoXORHandled, PrefixedHandled DEF Rows
-------------------------------------------------------------------------------
(* The tables of opcode.c: every name in them is the name of a row *)

Titled(name) == \E row \in Rows : row.name = name

LEMMA Given ==
  /\ RowsADCtoCPL \subseteq Rows /\ RowsCPtoJR \subseteq Rows /\ RowsLD \subseteq Rows
  /\ RowsLDPlaces \subseteq Rows /\ RowsNOPtoXOR \subseteq Rows /\ RowsBIT \subseteq Rows
  /\ RowsRES \subseteq Rows /\ RowsRLCtoRR \subseteq Rows /\ RowsSET \subseteq Rows
  /\ RowsSLAtoSWAP \subseteq Rows /\ OP_UNKOWN \in Rows
<1>1. RowsLDPlaces \subseteq RowsLD
  BY DEF RowsLD
<1>2. QED
  BY <1>1 DEF Rows

\* A name of a row in Rows is the name of a row, by the macro that makes it.
LEMMA DefinedNamed ==
  ASSUME NEW name, NEW family, NEW opcode, NEW bytes, NEW cycles,
         INSTR_DEF(name, family, opcode, bytes, cycles) \in Rows
  PROVE  Titled(name)
BY DEF Titled, INSTR_DEF, INSTR_DFX

LEMMA FormNamed ==
  ASSUME NEW name, NEW family, NEW form, NEW opcode, NEW bytes, NEW cycles,
         INSTR_FORM(name, family, form, opcode, bytes, cycles) \in Rows
  PROVE  Titled(name)
BY DEF Titled, INSTR_FORM, INSTR_DFX

LEMMA PrefixNamed ==
  ASSUME NEW name, NEW family, NEW form, NEW opcode, NEW cycles,
         INSTR_PRE(name, family, form, opcode, cycles) \in Rows
  PROVE  Titled(name)
BY DEF Titled, INSTR_PRE, INSTR_DFX

LEMMA ExtendedNamed ==
  ASSUME NEW kind, NEW name, NEW family, NEW opcode, NEW bytes, NEW cycles, NEW xtra,
         INSTR_DFX(kind, name, family, opcode, bytes, cycles, xtra) \in Rows
  PROVE  Titled(name)
BY DEF Titled, INSTR_DFX

LEMMA AccumulatorNamed ==
  ASSUME NEW verb, NEW family, NEW base, Accumulator(verb, family, base) \subseteq Rows,
         NEW x \in R8s \cup {"HLR", "N8"}
  PROVE  Titled(<<verb, "A", x>>)
<1>1. \A r \in R8s : INSTR_FORM(<<verb, "A", r>>, family, "R8", base + REG(r), 1, 1) \in Rows
  BY DEF Accumulator
<1>2. /\ INSTR_FORM(<<verb, "A", "HLR">>, family, "HLR", base + 6, 1, 2) \in Rows
      /\ INSTR_FORM(<<verb, "A", "N8">>, family, "N8", base + 70, 2, 2) \in Rows
  BY DEF Accumulator
<1>3. QED
  BY <1>1, <1>2, FormNamed

LEMMA CountedNamed ==
  ASSUME NEW verb, NEW family, NEW base, Counted(verb, family, base) \subseteq Rows,
         NEW x \in R8s \cup {"HLR"}
  PROVE  Titled(<<verb, x, "-">>)
<1>1. \A r \in R8s : INSTR_FORM(<<verb, r, "-">>, family, "R8", base + 8 * REG(r), 1, 1) \in Rows
  BY DEF Counted
<1>2. INSTR_FORM(<<verb, "HLR", "-">>, family, "HLR", base + 48, 1, 3) \in Rows
  BY DEF Counted
<1>3. QED
  BY <1>1, <1>2, FormNamed

LEMMA ShiftedNamed ==
  ASSUME NEW verb, NEW family, NEW base, Shifted(verb, family, base) \subseteq Rows,
         NEW x \in R8s \cup {"HLR"}
  PROVE  Titled(<<verb, x, "-">>)
<1>1. \A r \in R8s : INSTR_PRE(<<verb, r, "-">>, family, "R8", base + REG(r), 2) \in Rows
  BY DEF Shifted
<1>2. INSTR_PRE(<<verb, "HLR", "-">>, family, "HLR", base + 6, 4) \in Rows
  BY DEF Shifted
<1>3. QED
  BY <1>1, <1>2, PrefixNamed

\* Every operand of a table of operands is there with its code.
LEMMA CodedAt ==
  ASSUME NEW at, NEW i \in DOMAIN at
  PROVE  \E p \in Coded(at) : p.x = at[i]
<1>1. [x |-> at[i], code |-> i - 1] \in Coded(at)
  BY DEF Coded
<1>2. QED
  BY <1>1

LEMMA WideNamed ==
  ASSUME NEW verb, NEW family, NEW base, Wide(verb, family, base) \subseteq Rows, NEW i \in DOMAIN R16SPAt
  PROVE  Titled(<<verb, R16SPAt[i], "-">>)
<1>1. PICK p \in Coded(R16SPAt) : p.x = R16SPAt[i]
  BY CodedAt
<1>2. INSTR_FORM(<<verb, p.x, "-">>, family, "R16SP", base + 16 * p.code, 1, 2) \in Rows
  BY DEF Wide
<1>3. QED
  BY <1>1, <1>2, FormNamed

LEMMA ConditionalNamed ==
  ASSUME NEW verb, NEW to, NEW family, NEW base, NEW bytes, NEW cycles, NEW xtra,
         Conditional(verb, to, family, base, bytes, cycles, xtra) \subseteq Rows,
         NEW i \in DOMAIN Conditions
  PROVE  Titled(<<verb, Conditions[i], to>>)
<1>1. PICK c \in Coded(Conditions) : c.x = Conditions[i]
  BY CodedAt
<1>2. INSTR_DFX("DIRECT", <<verb, c.x, to>>, <<family, "-">>, base + 8 * c.code, bytes, cycles, xtra) \in Rows
  BY DEF Conditional
<1>3. QED
  BY <1>1, <1>2, ExtendedNamed

LEMMA PlacedNamed ==
  ASSUME NEW verb, NEW family, NEW base, NEW cycles, Placed(verb, family, base, cycles) \subseteq Rows,
         NEW i \in DOMAIN U3At, NEW x \in R8s \cup {"HLR"}
  PROVE  Titled(<<verb, U3At[i], x>>)
<1>1. PICK u \in Coded(U3At) : u.x = U3At[i]
  BY CodedAt
<1>2. CASE x \in R8s
  <2>1. INSTR_PRE(<<verb, u.x, x>>, family, "R8", base + 8 * u.code + REG(x), 2)
          \in Placed(verb, family, base, cycles)
    BY <1>2 DEF Placed
  <2>2. QED
    BY <1>1, <2>1, PrefixNamed
<1>3. CASE x = "HLR"
  <2>1. INSTR_PRE(<<verb, u.x, "HLR">>, family, "HLR", base + 8 * u.code + 6, cycles)
          \in Placed(verb, family, base, cycles)
    BY DEF Placed
  <2>2. QED
    BY <1>1, <1>3, <2>1, PrefixNamed
<1>4. QED
  BY <1>2, <1>3

LEMMA ADCtoCPLNamed ==
  /\ Titled(<<"ADD", "SP", "N">>)
  /\ Titled(<<"CALL", "N16", "-">>)
  /\ Titled(<<"CCF", "-", "-">>)
  /\ Titled(<<"CPL", "-", "-">>)
<1>1. /\ INSTR_DEF(<<"ADD", "SP", "N">>, "LD_HLSP_S8", 232, 2, 4) \in RowsADCtoCPL
      /\ INSTR_DEF(<<"CALL", "N16", "-">>, "CALL_N16", 205, 3, 6) \in RowsADCtoCPL
      /\ INSTR_DEF(<<"CCF", "-", "-">>, "SCCF", 63, 1, 1) \in RowsADCtoCPL
      /\ INSTR_DEF(<<"CPL", "-", "-">>, "CPL", 47, 1, 1) \in RowsADCtoCPL
  BY DEF RowsADCtoCPL
<1>2. RowsADCtoCPL \subseteq Rows
  BY Given
<1>3. QED
  BY <1>1, <1>2, DefinedNamed

LEMMA CPtoJRNamed ==
  /\ Titled(<<"DAA", "-", "-">>)
  /\ Titled(<<"DI", "-", "-">>)
  /\ Titled(<<"EI", "-", "-">>)
  /\ Titled(<<"HALT", "-", "-">>)
  /\ Titled(<<"JP", "HL", "-">>)
  /\ Titled(<<"JP", "N16", "-">>)
  /\ Titled(<<"JR", "E8", "-">>)
<1>1. /\ INSTR_DEF(<<"DAA", "-", "-">>, "DAA", 39, 1, 1) \in RowsCPtoJR
      /\ INSTR_DEF(<<"DI", "-", "-">>, "EDI", 243, 1, 1) \in RowsCPtoJR
      /\ INSTR_DEF(<<"EI", "-", "-">>, "EDI", 251, 1, 1) \in RowsCPtoJR
      /\ INSTR_DEF(<<"HALT", "-", "-">>, "HALT", 118, 1, 1) \in RowsCPtoJR
      /\ INSTR_DEF(<<"JP", "HL", "-">>, "JP_HL", 233, 1, 1) \in RowsCPtoJR
      /\ INSTR_DEF(<<"JP", "N16", "-">>, "JP_N16", 195, 3, 4) \in RowsCPtoJR
      /\ INSTR_DEF(<<"JR", "E8", "-">>, "JR_E8", 24, 2, 3) \in RowsCPtoJR
  BY DEF RowsCPtoJR
<1>2. RowsCPtoJR \subseteq Rows
  BY Given
<1>3. QED
  BY <1>1, <1>2, DefinedNamed

LEMMA LDPlacesNamed ==
  /\ Titled(<<"LD", "HLR", "N8">>)
  /\ Titled(<<"LD", "A", "BCR">>)
  /\ Titled(<<"LD", "A", "DER">>)
  /\ Titled(<<"LD", "A", "HLRI">>)
  /\ Titled(<<"LD", "A", "HLRD">>)
  /\ Titled(<<"LD", "A", "CR">>)
  /\ Titled(<<"LD", "A", "N16R">>)
  /\ Titled(<<"LD", "A", "N8R">>)
  /\ Titled(<<"LD", "BCR", "A">>)
  /\ Titled(<<"LD", "DER", "A">>)
  /\ Titled(<<"LD", "HLRI", "A">>)
  /\ Titled(<<"LD", "HLRD", "A">>)
  /\ Titled(<<"LD", "CR", "A">>)
  /\ Titled(<<"LD", "N16R", "A">>)
  /\ Titled(<<"LD", "N8R", "A">>)
  /\ Titled(<<"LD", "N16R", "SP">>)
  /\ Titled(<<"LD", "HL", "SP_N8">>)
  /\ Titled(<<"LD", "SP", "HL">>)
<1>1. /\ INSTR_DEF(<<"LD", "HLR", "N8">>, "LD_HLR_N8", 54, 2, 3) \in RowsLDPlaces
      /\ INSTR_DEF(<<"LD", "A", "BCR">>, "LD_A_BCR", 10, 1, 2) \in RowsLDPlaces
      /\ INSTR_DEF(<<"LD", "A", "DER">>, "LD_A_DER", 26, 1, 2) \in RowsLDPlaces
      /\ INSTR_DEF(<<"LD", "A", "HLRI">>, "LD_A_HLRU", 42, 1, 2) \in RowsLDPlaces
      /\ INSTR_DEF(<<"LD", "A", "HLRD">>, "LD_A_HLRU", 58, 1, 2) \in RowsLDPlaces
      /\ INSTR_DEF(<<"LD", "A", "CR">>, "LD_A_CR", 242, 1, 2) \in RowsLDPlaces
  BY DEF RowsLDPlaces
<1>2. /\ INSTR_DEF(<<"LD", "A", "N16R">>, "LD_A_N16R", 250, 3, 4) \in RowsLDPlaces
      /\ INSTR_DEF(<<"LD", "A", "N8R">>, "LD_A_N8R", 240, 2, 3) \in RowsLDPlaces
      /\ INSTR_DEF(<<"LD", "BCR", "A">>, "LD_BCR_A", 2, 1, 2) \in RowsLDPlaces
      /\ INSTR_DEF(<<"LD", "DER", "A">>, "LD_DER_A", 18, 1, 2) \in RowsLDPlaces
      /\ INSTR_DEF(<<"LD", "HLRI", "A">>, "LD_HLRU_A", 34, 1, 2) \in RowsLDPlaces
      /\ INSTR_DEF(<<"LD", "HLRD", "A">>, "LD_HLRU_A", 50, 1, 2) \in RowsLDPlaces
  BY DEF RowsLDPlaces
<1>3. /\ INSTR_DEF(<<"LD", "CR", "A">>, "LD_CR_A", 226, 1, 2) \in RowsLDPlaces
      /\ INSTR_DEF(<<"LD", "N16R", "A">>, "LD_N16R_A", 234, 3, 4) \in RowsLDPlaces
      /\ INSTR_DEF(<<"LD", "N8R", "A">>, "LD_N8R_A", 224, 2, 3) \in RowsLDPlaces
      /\ INSTR_DEF(<<"LD", "N16R", "SP">>, "LD_N16R_SP", 8, 3, 5) \in RowsLDPlaces
      /\ INSTR_DEF(<<"LD", "HL", "SP_N8">>, "LD_HLSP_S8", 248, 2, 3) \in RowsLDPlaces
      /\ INSTR_DEF(<<"LD", "SP", "HL">>, "LD_SP_HL", 249, 1, 2) \in RowsLDPlaces
  BY DEF RowsLDPlaces
<1>4. RowsLDPlaces \subseteq Rows
  BY Given
<1>5. QED
  BY <1>1, <1>2, <1>3, <1>4, DefinedNamed

LEMMA NOPtoXORNamed ==
  /\ Titled(<<"NOP", "-", "-">>)
  /\ Titled(<<"SCF", "-", "-">>)
  /\ Titled(<<"STOP", "-", "-">>)
  /\ Titled(<<"RET", "-", "-">>)
  /\ Titled(<<"RETI", "-", "-">>)
  /\ Titled(<<"RLCA", "-", "-">>)
  /\ Titled(<<"RRCA", "-", "-">>)
  /\ Titled(<<"RLA", "-", "-">>)
  /\ Titled(<<"RRA", "-", "-">>)
<1>1. /\ INSTR_DEF(<<"NOP", "-", "-">>, "NOP", 0, 1, 1) \in RowsNOPtoXOR
      /\ INSTR_DEF(<<"SCF", "-", "-">>, "SCCF", 55, 1, 1) \in RowsNOPtoXOR
      /\ INSTR_DEF(<<"STOP", "-", "-">>, "STOP", 16, 1, 0) \in RowsNOPtoXOR
      /\ INSTR_DEF(<<"RET", "-", "-">>, "RET", 201, 1, 4) \in RowsNOPtoXOR
      /\ INSTR_DEF(<<"RETI", "-", "-">>, "RETI", 217, 1, 4) \in RowsNOPtoXOR
      /\ INSTR_DEF(<<"RLCA", "-", "-">>, "ROTCA", 7, 1, 1) \in RowsNOPtoXOR
      /\ INSTR_DEF(<<"RRCA", "-", "-">>, "ROTCA", 15, 1, 1) \in RowsNOPtoXOR
      /\ INSTR_DEF(<<"RLA", "-", "-">>, "ROTA", 23, 1, 1) \in RowsNOPtoXOR
      /\ INSTR_DEF(<<"RRA", "-", "-">>, "ROTA", 31, 1, 1) \in RowsNOPtoXOR
  BY DEF RowsNOPtoXOR
<1>2. RowsNOPtoXOR \subseteq Rows
  BY Given
<1>3. QED
  BY <1>1, <1>2, DefinedNamed

LEMMA LDNamed ==
  /\ \A r \in R8s, s \in R8s : Titled(<<"LD", r, s>>)
  /\ \A r \in R8s : Titled(<<"LD", r, "HLR">>) /\ Titled(<<"LD", r, "N8">>) /\ Titled(<<"LD", "HLR", r>>)
  /\ \A i \in DOMAIN R16SPAt : Titled(<<"LD", R16SPAt[i], "N16">>)
<1> DEFINE moves == {INSTR_DEF(<<"LD", r, s>>, FamilyOfLD(r, s), 64 + 8 * REG(r) + REG(s), 1, 1) :
                       r \in R8s, s \in R8s}
           loads == {INSTR_DEF(<<"LD", r, "HLR">>, "LD_R8_HLR", 70 + 8 * REG(r), 1, 2) : r \in R8s}
           bytes == {INSTR_DEF(<<"LD", r, "N8">>, "LD_R8_N8", 6 + 8 * REG(r), 2, 2) : r \in R8s}
           stores == {INSTR_DEF(<<"LD", "HLR", r>>, "LD_HLR_R8", 112 + REG(r), 1, 2) : r \in R8s}
           words == {INSTR_DEF(<<"LD", p.x, "N16">>, "LD_R16SP_N16", 1 + 16 * p.code, 3, 3) :
                       p \in Coded(R16SPAt)}
<1>1. moves \subseteq Rows /\ loads \subseteq Rows /\ bytes \subseteq Rows /\ stores \subseteq Rows
      /\ words \subseteq Rows
  <2>1. RowsLD = moves \cup loads \cup bytes \cup stores \cup words \cup RowsLDPlaces
    BY DEF RowsLD
  <2> HIDE DEF moves, loads, bytes, stores, words
  <2>2. QED
    BY <2>1, Given
<1>2. ASSUME NEW r \in R8s, NEW s \in R8s PROVE Titled(<<"LD", r, s>>)
  <2>1. INSTR_DEF(<<"LD", r, s>>, FamilyOfLD(r, s), 64 + 8 * REG(r) + REG(s), 1, 1) \in moves
    OBVIOUS
  <2> HIDE DEF moves
  <2>2. INSTR_DEF(<<"LD", r, s>>, FamilyOfLD(r, s), 64 + 8 * REG(r) + REG(s), 1, 1) \in Rows
    BY <2>1, <1>1
  <2>3. QED
    BY <2>2, DefinedNamed
<1>3. ASSUME NEW r \in R8s PROVE Titled(<<"LD", r, "HLR">>)
  <2>1. INSTR_DEF(<<"LD", r, "HLR">>, "LD_R8_HLR", 70 + 8 * REG(r), 1, 2) \in loads
    OBVIOUS
  <2> HIDE DEF loads
  <2>2. QED
    BY <2>1, <1>1, DefinedNamed
<1>4. ASSUME NEW r \in R8s PROVE Titled(<<"LD", r, "N8">>)
  <2>1. INSTR_DEF(<<"LD", r, "N8">>, "LD_R8_N8", 6 + 8 * REG(r), 2, 2) \in bytes
    OBVIOUS
  <2> HIDE DEF bytes
  <2>2. QED
    BY <2>1, <1>1, DefinedNamed
<1>5. ASSUME NEW r \in R8s PROVE Titled(<<"LD", "HLR", r>>)
  <2>1. INSTR_DEF(<<"LD", "HLR", r>>, "LD_HLR_R8", 112 + REG(r), 1, 2) \in stores
    OBVIOUS
  <2> HIDE DEF stores
  <2>2. QED
    BY <2>1, <1>1, DefinedNamed
<1>6. ASSUME NEW i \in DOMAIN R16SPAt PROVE Titled(<<"LD", R16SPAt[i], "N16">>)
  <2>1. PICK p \in Coded(R16SPAt) : p.x = R16SPAt[i]
    BY CodedAt
  <2>2. INSTR_DEF(<<"LD", p.x, "N16">>, "LD_R16SP_N16", 1 + 16 * p.code, 3, 3) \in words
    OBVIOUS
  <2> HIDE DEF words
  <2>3. Titled(<<"LD", p.x, "N16">>)
    BY <2>2, <1>1, DefinedNamed
  <2>4. QED
    BY <2>1, <2>3
<1>7. QED
  BY <1>2, <1>3, <1>4, <1>5, <1>6

\* The rows of one pair, or of one restart, each.
LEMMA PairsNamed ==
  /\ \A i \in DOMAIN R16SPAt : Titled(<<"ADD", "HL", R16SPAt[i]>>)
  /\ \A i \in DOMAIN R16At : Titled(<<"POP", R16At[i], "-">>) /\ Titled(<<"PUSH", R16At[i], "-">>)
  /\ \A i \in DOMAIN U3At : Titled(<<"RST", U3At[i], "-">>)
<1> DEFINE sums == {INSTR_FORM(<<"ADD", "HL", p.x>>, "ADD_HL_R16SP", "-", 9 + 16 * p.code, 1, 2) :
                      p \in Coded(R16SPAt)}
           pops == {INSTR_DEF(<<"POP", p.x, "-">>, "POP_R16", 193 + 16 * p.code, 1, 3) : p \in Coded(R16At)}
           pushes == {INSTR_DEF(<<"PUSH", p.x, "-">>, "PUSH_R16", 197 + 16 * p.code, 1, 4) : p \in Coded(R16At)}
           restarts == {INSTR_DEF(<<"RST", u.x, "-">>, "RST_U3", 199 + 8 * u.code, 1, 4) : u \in Coded(U3At)}
<1>1. sums \subseteq Rows
  <2>1. sums \subseteq RowsADCtoCPL
    BY DEF RowsADCtoCPL
  <2> HIDE DEF sums
  <2>2. QED
    BY <2>1, Given
<1>2. pops \subseteq Rows /\ pushes \subseteq Rows /\ restarts \subseteq Rows
  <2>1. pops \subseteq RowsNOPtoXOR
    BY ZenonT(60) DEF RowsNOPtoXOR
  <2>2. pushes \subseteq RowsNOPtoXOR
    BY ZenonT(60) DEF RowsNOPtoXOR
  <2>3. restarts \subseteq RowsNOPtoXOR
    BY ZenonT(60) DEF RowsNOPtoXOR
  <2> HIDE DEF pops, pushes, restarts
  <2>4. QED
    BY <2>1, <2>2, <2>3, Given
<1>3. ASSUME NEW i \in DOMAIN R16SPAt PROVE Titled(<<"ADD", "HL", R16SPAt[i]>>)
  <2>1. PICK p \in Coded(R16SPAt) : p.x = R16SPAt[i]
    BY CodedAt
  <2>2. INSTR_FORM(<<"ADD", "HL", p.x>>, "ADD_HL_R16SP", "-", 9 + 16 * p.code, 1, 2) \in sums
    OBVIOUS
  <2> HIDE DEF sums
  <2>3. Titled(<<"ADD", "HL", p.x>>)
    BY <2>2, <1>1, FormNamed
  <2>4. QED
    BY <2>1, <2>3
<1>4. ASSUME NEW i \in DOMAIN R16At PROVE Titled(<<"POP", R16At[i], "-">>) /\ Titled(<<"PUSH", R16At[i], "-">>)
  <2>1. PICK p \in Coded(R16At) : p.x = R16At[i]
    BY CodedAt
  <2>2. INSTR_DEF(<<"POP", p.x, "-">>, "POP_R16", 193 + 16 * p.code, 1, 3) \in pops
    OBVIOUS
  <2>3. INSTR_DEF(<<"PUSH", p.x, "-">>, "PUSH_R16", 197 + 16 * p.code, 1, 4) \in pushes
    OBVIOUS
  <2> HIDE DEF pops, pushes
  <2>4. Titled(<<"POP", p.x, "-">>)
    BY <2>2, <1>2, DefinedNamed
  <2>5. Titled(<<"PUSH", p.x, "-">>)
    BY <2>3, <1>2, DefinedNamed
  <2>6. QED
    BY <2>1, <2>4, <2>5
<1>5. ASSUME NEW i \in DOMAIN U3At PROVE Titled(<<"RST", U3At[i], "-">>)
  <2>1. PICK u \in Coded(U3At) : u.x = U3At[i]
    BY CodedAt
  <2>2. INSTR_DEF(<<"RST", u.x, "-">>, "RST_U3", 199 + 8 * u.code, 1, 4) \in restarts
    OBVIOUS
  <2> HIDE DEF restarts
  <2>3. Titled(<<"RST", u.x, "-">>)
    BY <2>2, <1>2, DefinedNamed
  <2>4. QED
    BY <2>1, <2>3
<1>6. QED
  BY <1>3, <1>4, <1>5

LEMMA AccumulatorsNamed ==
  ASSUME NEW verb \in {"ADD", "ADC", "SUB", "SBC", "AND", "XOR", "OR", "CP"}, NEW x \in R8s \cup {"HLR", "N8"}
  PROVE  Titled(<<verb, "A", x>>)
<1>1. /\ Accumulator("ADC", "ADD_A", 136) \subseteq RowsADCtoCPL
      /\ Accumulator("ADD", "ADD_A", 128) \subseteq RowsADCtoCPL
      /\ Accumulator("AND", "AND_A", 160) \subseteq RowsADCtoCPL
  BY DEF RowsADCtoCPL
<1>2. Accumulator("CP", "CP_A", 184) \subseteq RowsCPtoJR
  BY DEF RowsCPtoJR
<1>3. /\ Accumulator("OR", "OR_A", 176) \subseteq RowsNOPtoXOR
      /\ Accumulator("SBC", "SUB_A", 152) \subseteq RowsNOPtoXOR
      /\ Accumulator("SUB", "SUB_A", 144) \subseteq RowsNOPtoXOR
      /\ Accumulator("XOR", "XOR_A", 168) \subseteq RowsNOPtoXOR
  BY DEF RowsNOPtoXOR
<1>4. /\ Accumulator("ADC", "ADD_A", 136) \subseteq Rows /\ Accumulator("ADD", "ADD_A", 128) \subseteq Rows
      /\ Accumulator("AND", "AND_A", 160) \subseteq Rows /\ Accumulator("CP", "CP_A", 184) \subseteq Rows
      /\ Accumulator("OR", "OR_A", 176) \subseteq Rows /\ Accumulator("SBC", "SUB_A", 152) \subseteq Rows
      /\ Accumulator("SUB", "SUB_A", 144) \subseteq Rows /\ Accumulator("XOR", "XOR_A", 168) \subseteq Rows
  BY <1>1, <1>2, <1>3, Given
<1>5. Titled(<<"ADC", "A", x>>) /\ Titled(<<"ADD", "A", x>>)
  BY <1>4, AccumulatorNamed
<1>6. Titled(<<"AND", "A", x>>) /\ Titled(<<"CP", "A", x>>)
  BY <1>4, AccumulatorNamed
<1>7. Titled(<<"OR", "A", x>>) /\ Titled(<<"SBC", "A", x>>)
  BY <1>4, AccumulatorNamed
<1>8. Titled(<<"SUB", "A", x>>) /\ Titled(<<"XOR", "A", x>>)
  BY <1>4, AccumulatorNamed
<1>9. QED
  BY <1>5, <1>6, <1>7, <1>8

LEMMA CountsNamed ==
  ASSUME NEW verb \in {"INC", "DEC"}
  PROVE  /\ \A x \in R8s \cup {"HLR"} : Titled(<<verb, x, "-">>)
         /\ \A i \in DOMAIN R16SPAt : Titled(<<verb, R16SPAt[i], "-">>)
<1>1. Counted("DEC", "DEC", 5) \subseteq RowsCPtoJR /\ Wide("DEC", "DEC", 11) \subseteq RowsCPtoJR
  BY DEF RowsCPtoJR
<1>2. Counted("INC", "INC", 4) \subseteq RowsCPtoJR /\ Wide("INC", "INC", 3) \subseteq RowsCPtoJR
  BY DEF RowsCPtoJR
<1>3. /\ Counted("DEC", "DEC", 5) \subseteq Rows /\ Wide("DEC", "DEC", 11) \subseteq Rows
      /\ Counted("INC", "INC", 4) \subseteq Rows /\ Wide("INC", "INC", 3) \subseteq Rows
  BY <1>1, <1>2, Given
<1>4. ASSUME NEW x \in R8s \cup {"HLR"} PROVE Titled(<<"INC", x, "-">>) /\ Titled(<<"DEC", x, "-">>)
  BY <1>3, CountedNamed
<1>5. ASSUME NEW i \in DOMAIN R16SPAt
      PROVE  Titled(<<"INC", R16SPAt[i], "-">>) /\ Titled(<<"DEC", R16SPAt[i], "-">>)
  BY <1>3, WideNamed
<1>6. QED
  BY <1>4, <1>5

LEMMA ConditionsNamed ==
  ASSUME NEW i \in DOMAIN Conditions
  PROVE  /\ Titled(<<"CALL", Conditions[i], "N16">>) /\ Titled(<<"JP", Conditions[i], "N16">>)
         /\ Titled(<<"JR", Conditions[i], "E8">>) /\ Titled(<<"RET", Conditions[i], "-">>)
<1>1. Conditional("CALL", "N16", "CALL_CC_N16", 196, 3, 3, 3) \subseteq Rows
  BY Given DEF RowsADCtoCPL
<1>2. Conditional("JP", "N16", "JP_CC_N16", 194, 3, 3, 1) \subseteq Rows
  BY Given DEF RowsCPtoJR
<1>3. Conditional("JR", "E8", "JR_CC_E8", 32, 2, 2, 1) \subseteq Rows
  BY Given DEF RowsCPtoJR
<1>4. Conditional("RET", "-", "RET_CC", 192, 1, 2, 3) \subseteq Rows
  BY Given DEF RowsNOPtoXOR
<1>5. Titled(<<"CALL", Conditions[i], "N16">>) /\ Titled(<<"JP", Conditions[i], "N16">>)
  BY <1>1, <1>2, ConditionalNamed
<1>6. Titled(<<"JR", Conditions[i], "E8">>) /\ Titled(<<"RET", Conditions[i], "-">>)
  BY <1>3, <1>4, ConditionalNamed
<1>7. QED
  BY <1>5, <1>6

LEMMA ShiftsNamed ==
  ASSUME NEW verb \in {"RLC", "RRC", "RL", "RR", "SLA", "SRA", "SWAP", "SRL"}, NEW x \in R8s \cup {"HLR"}
  PROVE  Titled(<<verb, x, "-">>)
<1>1. /\ Shifted("RLC", "ROTC", 0) \subseteq Rows /\ Shifted("RL", "ROT", 16) \subseteq Rows
      /\ Shifted("RRC", "ROTC", 8) \subseteq Rows /\ Shifted("RR", "ROT", 24) \subseteq Rows
  BY Given DEF RowsRLCtoRR
<1>2. /\ Shifted("SLA", "SLA", 32) \subseteq Rows /\ Shifted("SRA", "SRA", 40) \subseteq Rows
      /\ Shifted("SRL", "SRL", 56) \subseteq Rows /\ Shifted("SWAP", "SWAP", 48) \subseteq Rows
  BY Given DEF RowsSLAtoSWAP
<1>3. Titled(<<"RLC", x, "-">>) /\ Titled(<<"RL", x, "-">>)
  BY <1>1, ShiftedNamed
<1>4. Titled(<<"RRC", x, "-">>) /\ Titled(<<"RR", x, "-">>)
  BY <1>1, ShiftedNamed
<1>5. Titled(<<"SLA", x, "-">>) /\ Titled(<<"SRA", x, "-">>)
  BY <1>2, ShiftedNamed
<1>6. Titled(<<"SRL", x, "-">>) /\ Titled(<<"SWAP", x, "-">>)
  BY <1>2, ShiftedNamed
<1>7. QED
  BY <1>3, <1>4, <1>5, <1>6

LEMMA PlacesNamed ==
  ASSUME NEW i \in DOMAIN U3At, NEW x \in R8s \cup {"HLR"}
  PROVE  Titled(<<"BIT", U3At[i], x>>) /\ Titled(<<"RES", U3At[i], x>>) /\ Titled(<<"SET", U3At[i], x>>)
<1>1. /\ Placed("BIT", "BIT_U3", 64, 3) \subseteq Rows /\ Placed("RES", "CHG_U3", 128, 4) \subseteq Rows
      /\ Placed("SET", "CHG_U3", 192, 4) \subseteq Rows
  BY Given DEF RowsBIT, RowsRES, RowsSET
<1>2. Titled(<<"BIT", U3At[i], x>>)
  BY <1>1, PlacedNamed
<1>3. Titled(<<"RES", U3At[i], x>>)
  BY <1>1, PlacedNamed
<1>4. Titled(<<"SET", U3At[i], x>>)
  BY <1>1, PlacedNamed
<1>5. QED
  BY <1>2, <1>3, <1>4

LEMMA NoneNamed == Titled(None)
BY Given DEF Titled, None, OP_UNKOWN, INSTR_DEF, INSTR_DFX

\* The operands that the lines of opcode.c go through.
LEMMA LineFits ==
  ASSUME NEW line \in 0 .. 7
  PROVE  /\ line + 1 \in DOMAIN R8At /\ R8At[line + 1] \in R8s \cup {"HLR"}
         /\ (R8At[line + 1] = "HLR") <=> line = 6
         /\ line \div 2 + 1 \in DOMAIN R16SPAt /\ line \div 2 + 1 \in DOMAIN R16At
         /\ line + 1 \in DOMAIN U3At /\ (line % 4) + 1 \in DOMAIN Conditions
         /\ line \div 2 \in 0 .. 3 /\ line % 2 \in 0 .. 1 /\ line % 4 \in 0 .. 3
         /\ (line >= 4) => line - 3 \in 1 .. 4
<1>1. line \div 2 \in 0 .. 3 /\ line % 2 \in 0 .. 1 /\ line % 4 \in 0 .. 3
  OBVIOUS
<1>2. DOMAIN R16SPAt = 1 .. 4 /\ DOMAIN R16At = 1 .. 4 /\ DOMAIN U3At = 1 .. 8 /\ DOMAIN Conditions = 1 .. 4
      /\ DOMAIN R8At = 1 .. 8
  BY DEF R16SPAt, R16At, U3At, Conditions, R8At
<1>3. R8At[line + 1] \in R8s \cup {"HLR"} /\ ((R8At[line + 1] = "HLR") <=> line = 6)
  BY DEF R8At, R8s
<1>4. QED
  BY <1>1, <1>2, <1>3

LEMMA DirectAluNamed ==
  ASSUME NEW line \in 0 .. 7, NEW k \in 1 .. 8
  PROVE  Titled(DirectAlu(line)[k])
<1> DEFINE verb == <<"ADD", "ADC", "SUB", "SBC", "AND", "XOR", "OR", "CP">>[line + 1]
<1>1. verb \in {"ADD", "ADC", "SUB", "SBC", "AND", "XOR", "OR", "CP"}
  OBVIOUS
<1>2. R8At[k] \in R8s \cup {"HLR", "N8"}
  BY DEF R8At, R8s
<1>3. DirectAlu(line)[k] = <<verb, "A", R8At[k]>>
  BY DEF DirectAlu
<1> HIDE DEF verb
<1>4. QED
  BY <1>1, <1>2, <1>3, AccumulatorsNamed

LEMMA DirectLoadsNamed ==
  ASSUME NEW line \in 0 .. 7, NEW k \in 1 .. 8
  PROVE  Titled(DirectLoads(line)[k])
<1>1. CASE line = 6 /\ k = 7
  <2>1. DirectLoads(line)[k] = <<"HALT", "-", "-">>
    BY <1>1 DEF DirectLoads
  <2>2. QED
    BY <2>1, CPtoJRNamed
<1>2. CASE ~(line = 6 /\ k = 7)
  <2>1. DirectLoads(line)[k] = <<"LD", R8At[line + 1], R8At[k]>>
    BY <1>2 DEF DirectLoads
  <2>2. R8At[line + 1] \in R8s \cup {"HLR"} /\ ((R8At[line + 1] = "HLR") <=> line = 6)
    BY LineFits
  <2>3. R8At[k] \in R8s \cup {"HLR"} /\ ((R8At[k] = "HLR") <=> k = 7)
    BY DEF R8At, R8s
  <2>4. QED
    BY <1>2, <2>1, <2>2, <2>3, LDNamed
<1>3. QED
  BY <1>1, <1>2

LEMMA DirectFirstNamed ==
  ASSUME NEW line \in 0 .. 7, NEW k \in 1 .. 8
  PROVE  Titled(DirectFirst(line)[k])
<1> DEFINE p == R16SPAt[line \div 2 + 1]
           x == R8At[line + 1]
           at == <<"BCR", "BCR", "DER", "DER", "HLRI", "HLRI", "HLRD", "HLRD">>[line + 1]
           first == <<<<"NOP", "-", "-">>, <<"LD", "N16R", "SP">>, <<"STOP", "-", "-">>, <<"JR", "E8", "-">>,
                      <<"JR", "NZ", "E8">>, <<"JR", "Z", "E8">>, <<"JR", "NC", "E8">>, <<"JR", "C", "E8">>>>
           last == <<"RLCA", "RRCA", "RLA", "RRA", "DAA", "CPL", "SCF", "CCF">>[line + 1]
           even == line % 2 = 0
<1>1. Titled(first[line + 1])
  <2>1. Titled(<<"JR", "NZ", "E8">>) /\ Titled(<<"JR", "Z", "E8">>)
        /\ Titled(<<"JR", "NC", "E8">>) /\ Titled(<<"JR", "C", "E8">>)
    <3>1. ASSUME NEW i \in 1 .. 4 PROVE Titled(<<"JR", Conditions[i], "E8">>)
      <4>1. i \in DOMAIN Conditions
        BY DEF Conditions
      <4>2. QED
        BY <4>1, ConditionsNamed
    <3>2. QED
      BY <3>1 DEF Conditions
  <2>2. Titled(<<"NOP", "-", "-">>) /\ Titled(<<"LD", "N16R", "SP">>)
        /\ Titled(<<"STOP", "-", "-">>) /\ Titled(<<"JR", "E8", "-">>)
    BY NOPtoXORNamed, LDPlacesNamed, CPtoJRNamed
  <2>3. QED
    BY <2>1, <2>2
<1>2. Titled(<<"LD", p, "N16">>) /\ Titled(<<"ADD", "HL", p>>)
  BY LineFits, LDNamed, PairsNamed
<1>3. Titled(<<"LD", at, "A">>) /\ Titled(<<"LD", "A", at>>)
  BY LDPlacesNamed
<1>4. Titled(<<"INC", p, "-">>) /\ Titled(<<"DEC", p, "-">>)
  BY LineFits, CountsNamed
<1>5. Titled(<<"INC", x, "-">>) /\ Titled(<<"DEC", x, "-">>)
  BY LineFits, CountsNamed
<1>6. Titled(<<"LD", x, "N8">>)
  BY LineFits, LDNamed, LDPlacesNamed
<1>7. Titled(<<last, "-", "-">>)
  BY NOPtoXORNamed, CPtoJRNamed, ADCtoCPLNamed, SMTT(30)
<1>8. DirectFirst(line) =
        <<first[line + 1],
          IF even THEN <<"LD", p, "N16">> ELSE <<"ADD", "HL", p>>,
          IF even THEN <<"LD", at, "A">> ELSE <<"LD", "A", at>>,
          <<IF even THEN "INC" ELSE "DEC", p, "-">>,
          <<"INC", x, "-">>, <<"DEC", x, "-">>, <<"LD", x, "N8">>, <<last, "-", "-">>>>
  BY DEF DirectFirst
<1> HIDE DEF p, x, at, first, last, even
<1>9. QED
  BY <1>1, <1>2, <1>3, <1>4, <1>5, <1>6, <1>7, <1>8

LEMMA DirectLastNamed ==
  ASSUME NEW line \in 0 .. 7, NEW k \in 1 .. 8
  PROVE  Titled(DirectLast(line)[k])
<1> DEFINE verb == <<"ADD", "ADC", "SUB", "SBC", "AND", "XOR", "OR", "CP">>[line + 1]
           c == Conditions[(line % 4) + 1]
           p == R16At[line \div 2 + 1]
           even == line % 2 = 0
           high == line >= 4
           ports == <<<<"LD", "N8R", "A">>, <<"ADD", "SP", "N">>,
                      <<"LD", "A", "N8R">>, <<"LD", "HL", "SP_N8">>>>
           ends == <<<<"RET", "-", "-">>, <<"RETI", "-", "-">>, <<"JP", "HL", "-">>, <<"LD", "SP", "HL">>>>
           far == <<<<"LD", "CR", "A">>, <<"LD", "N16R", "A">>,
                    <<"LD", "A", "CR">>, <<"LD", "A", "N16R">>>>
           fourth == CASE line = 0 -> <<"JP", "N16", "-">>
                       [] line = 6 -> <<"DI", "-", "-">>
                       [] line = 7 -> <<"EI", "-", "-">>
                       [] OTHER -> None
<1>1. high => Titled(ports[line - 3]) /\ Titled(far[line - 3])
  BY LDPlacesNamed, ADCtoCPLNamed, SMTT(30)
<1>2. Titled(ends[line \div 2 + 1])
  <2>1. line \div 2 + 1 \in 1 .. 4
    OBVIOUS
  <2>2. /\ Titled(<<"RET", "-", "-">>) /\ Titled(<<"RETI", "-", "-">>)
        /\ Titled(<<"JP", "HL", "-">>) /\ Titled(<<"LD", "SP", "HL">>)
    BY NOPtoXORNamed, CPtoJRNamed, LDPlacesNamed
  <2>3. QED
    BY <2>1, <2>2
<1>3. Titled(<<"RET", c, "-">>) /\ Titled(<<"JP", c, "N16">>) /\ Titled(<<"CALL", c, "N16">>)
  BY LineFits, ConditionsNamed
<1>4. Titled(<<"POP", p, "-">>) /\ Titled(<<"PUSH", p, "-">>)
  BY LineFits, PairsNamed
<1>5. Titled(fourth)
  BY NoneNamed, CPtoJRNamed
<1>6. Titled(<<"CALL", "N16", "-">>) /\ Titled(None)
  BY NoneNamed, ADCtoCPLNamed
<1>7. Titled(<<verb, "A", "N8">>)
  <2>1. verb \in {"ADD", "ADC", "SUB", "SBC", "AND", "XOR", "OR", "CP"}
    OBVIOUS
  <2> HIDE DEF verb
  <2>2. QED
    BY <2>1, AccumulatorsNamed
<1>8. Titled(<<"RST", U3At[line + 1], "-">>)
  BY LineFits, PairsNamed
<1>9. DirectLast(line) =
        <<IF high THEN ports[line - 3] ELSE <<"RET", c, "-">>,
          IF even THEN <<"POP", p, "-">> ELSE ends[line \div 2 + 1],
          IF high THEN far[line - 3] ELSE <<"JP", c, "N16">>,
          fourth,
          IF high THEN None ELSE <<"CALL", c, "N16">>,
          IF even THEN <<"PUSH", p, "-">> ELSE IF line = 1 THEN <<"CALL", "N16", "-">> ELSE None,
          <<verb, "A", "N8">>,
          <<"RST", U3At[line + 1], "-">>>>
  BY DEF DirectLast
<1> HIDE DEF verb, c, p, even, high, ports, ends, far, fourth
<1>10. QED
  BY <1>1, <1>2, <1>3, <1>4, <1>5, <1>6, <1>7, <1>8, <1>9

LEMMA PrefixedTablesNamed ==
  ASSUME NEW line \in 0 .. 7, NEW k \in 1 .. 8
  PROVE  /\ Titled(PrefixedFirst(line)[k]) /\ Titled(PrefixedBIT(line)[k])
         /\ Titled(PrefixedRES(line)[k]) /\ Titled(PrefixedSET(line)[k])
<1> DEFINE verb == <<"RLC", "RRC", "RL", "RR", "SLA", "SRA", "SWAP", "SRL">>[line + 1]
<1>1. R8At[k] \in R8s \cup {"HLR"}
  BY DEF R8At, R8s
<1>2. Titled(PrefixedFirst(line)[k])
  <2>1. verb \in {"RLC", "RRC", "RL", "RR", "SLA", "SRA", "SWAP", "SRL"}
    OBVIOUS
  <2>2. PrefixedFirst(line)[k] = <<verb, R8At[k], "-">>
    BY DEF PrefixedFirst
  <2> HIDE DEF verb
  <2>3. QED
    BY <1>1, <2>1, <2>2, ShiftsNamed
<1>3. /\ PrefixedBIT(line)[k] = <<"BIT", U3At[line + 1], R8At[k]>>
      /\ PrefixedRES(line)[k] = <<"RES", U3At[line + 1], R8At[k]>>
      /\ PrefixedSET(line)[k] = <<"SET", U3At[line + 1], R8At[k]>>
  BY DEF PrefixedBIT, PrefixedRES, PrefixedSET
<1>4. line + 1 \in DOMAIN U3At
  BY LineFits
<1>5. QED
  BY <1>1, <1>2, <1>3, <1>4, PlacesNamed

\* Every one of the 512 names in the tables is the name of a row.
LEMMA EveryNameNamed == ASSUME NEW i \in Int, 0 <= i, i < 256 PROVE Titled(DirectName(i)) /\ Titled(PrefixedName(i))
<1> DEFINE line == Line(i)
           k == Place(i)
<1>1. line \in 0 .. 7 /\ k \in 1 .. 8
  BY DEF Line, Place
<1>2. \/ DirectName(i) = DirectFirst(line)[k] /\ PrefixedName(i) = PrefixedFirst(line)[k]
      \/ DirectName(i) = DirectLoads(line)[k] /\ PrefixedName(i) = PrefixedBIT(line)[k]
      \/ DirectName(i) = DirectAlu(line)[k] /\ PrefixedName(i) = PrefixedRES(line)[k]
      \/ DirectName(i) = DirectLast(line)[k] /\ PrefixedName(i) = PrefixedSET(line)[k]
  <2>1. CASE i < 64
    BY <2>1 DEF DirectName, PrefixedName
  <2>2. CASE i >= 64 /\ i < 128
    BY <2>2 DEF DirectName, PrefixedName
  <2>3. CASE i >= 128 /\ i < 192
    BY <2>3 DEF DirectName, PrefixedName
  <2>4. CASE i >= 192
    BY <2>4 DEF DirectName, PrefixedName
  <2>5. QED
    BY <2>1, <2>2, <2>3, <2>4
<1> HIDE DEF line, k
<1>3. QED
  BY <1>1, <1>2, DirectFirstNamed, DirectLoadsNamed, DirectAluNamed, DirectLastNamed, PrefixedTablesNamed

\* The row at every opcode of either table is one cpu_dispatch handles.
LEMMA TablesHandled ==
  ASSUME FullWidth, NEW i \in Int, 0 <= i, i < 256
  PROVE  Handled(instruction_direct[i]) /\ Handled(instruction_prefixed[i])
<1>1. RowNamed(DirectName(i)) \in Rows /\ RowNamed(PrefixedName(i)) \in Rows
  BY EveryNameNamed DEF Titled, RowNamed
<1>2. instruction_direct[i] = RowNamed(DirectName(i)) /\ instruction_prefixed[i] = RowNamed(PrefixedName(i))
  BY DEF instruction_direct, instruction_prefixed
<1>3. QED
  BY <1>1, <1>2, RowsHandled

-------------------------------------------------------------------------------
(* Steps of the machine *)

\* Whatever is in memory, what is fetched is a row that cpu_dispatch handles.
LEMMA FetchedHandled ==
  ASSUME FullWidth, NEW s \in Running
  PROVE  Handled(Fetched(s))
<1> DEFINE opcode == cpu_read_at_idx(s, s.PC)
           extended == cpu_read_data_after_opcode(s)
<1>1. opcode \in U8 /\ extended \in U8
  BY Reads, Follows
<1>2. Fetched(s) = instruction_prefixed[extended] \/ Fetched(s) = instruction_direct[opcode]
  BY DEF Fetched
<1> HIDE DEF opcode, extended
<1>3. Handled(instruction_prefixed[extended]) /\ Handled(instruction_direct[opcode])
  BY <1>1, InByte, TablesHandled
<1>4. QED
  BY <1>2, <1>3

\* One instruction, of any machine that runs.
LEMMA StepOutcome ==
  ASSUME FullWidth, IsMachine(m), cpu_do_cycle
  PROVE  m \in Running /\ m' \in Outcomes(m)
<1>1. m \in Running
  BY MachinesAre DEF cpu_do_cycle, Running
<1>2. m' = cpu_dispatch(m, Fetched(m))
  BY DEF cpu_do_cycle
<1>3. QED
  BY <1>1, <1>2, FetchedHandled, DispatchOutcome

\* The machines to start from are machines, and every instruction leaves one.
LEMMA TypeInductive ==
  ASSUME Setting
  PROVE  /\ MachineInit => MachineTypeOK
         /\ MachineTypeOK /\ [MachineNext]_machineVars => MachineTypeOK'
<1>1. FullWidth /\ Depth \in Nat
  BY DEF Setting, FullWidth
<1>2. MachineInit => MachineTypeOK
  BY <1>1 DEF MachineInit, Setting, MachineTypeOK
<1>3. ASSUME MachineTypeOK, cpu_do_cycle
      PROVE  MachineTypeOK'
  <2>1. m \in Running /\ m' \in Outcomes(m)
    BY <1>1, <1>3, StepOutcome DEF MachineTypeOK
  <2>2. m' \in Machines
    BY <2>1, Failing DEF Outcomes, Running
  <2>3. IsMachine(m')
    BY <2>2, MachinesAre
  <2>4. executed' \in 0 .. Depth
    BY <1>1, <1>3 DEF MachineTypeOK, cpu_do_cycle
  <2>5. IsMachine(m)'
    BY <2>3 DEF IsMachine
  <2>6. QED
    BY <2>4, <2>5 DEF MachineTypeOK
<1>4. ASSUME MachineTypeOK, UNCHANGED machineVars
      PROVE  MachineTypeOK'
  BY <1>4 DEF MachineTypeOK, IsMachine, machineVars
<1>5. QED
  BY <1>2, <1>3, <1>4 DEF MachineNext

\* An instruction that fails gives back the machine it was given and the error.
LEMMA StepFails ==
  ASSUME Setting, MachineTypeOK, MachineNext, ~Fine(m')
  PROVE  m' = Fail(m, m'.err)
<1>1. FullWidth
  BY DEF Setting, FullWidth
<1>2. m \in Running /\ m' \in Outcomes(m)
  BY <1>1, StepOutcome DEF MachineTypeOK, MachineNext
<1>3. m' = Fail(m, "ERR_BAD_PARAMETER") \/ m' = Fail(m, "ERR_INSTR")
  BY <1>2 DEF Outcomes, Running
<1>4. /\ Fail(m, "ERR_BAD_PARAMETER").err = "ERR_BAD_PARAMETER"
      /\ Fail(m, "ERR_INSTR").err = "ERR_INSTR"
  BY <1>2, Failing
<1>5. QED
  BY <1>3, <1>4

-------------------------------------------------------------------------------
(* Flags by their names *)

Raised(z, n, h, c) == {f \in FlagNames : (f = "Z" /\ z) \/ (f = "N" /\ n) \/ (f = "H" /\ h) \/ (f = "C" /\ c)}

\* The flags of a result are those that their sources say.
LEMMA CombinedRaised ==
  ASSUME NEW F, NEW src, NEW alu
  PROVE  CombinedFlags(F, src, alu) =
           [up |-> Raised(flags_src_value(src[1], get_flag(F, "Z"), get_flag(alu, "Z")),
                          flags_src_value(src[2], get_flag(F, "N"), get_flag(alu, "N")),
                          flags_src_value(src[3], get_flag(F, "H"), get_flag(alu, "H")),
                          flags_src_value(src[4], get_flag(F, "C"), get_flag(alu, "C"))),
            low |-> 0]
<1> DEFINE t(f, i) == flags_src_value(src[i], get_flag(F, f), get_flag(alu, f))
           z == Raise(NoFlags, "Z", t("Z", 1))
           n == Raise(z, "N", t("N", 2))
           h == Raise(n, "H", t("H", 3))
<1>1. CombinedFlags(F, src, alu) = Raise(h, "C", t("C", 4))
  BY DEF CombinedFlags
<1> HIDE DEF t
<1>2. z = [up |-> {f \in FlagNames : f = "Z" /\ t("Z", 1)}, low |-> 0]
  BY DEF Raise, set_flag, NoFlags, FlagNames
<1> HIDE DEF z
<1>3. n = [up |-> {f \in FlagNames : (f = "Z" /\ t("Z", 1)) \/ (f = "N" /\ t("N", 2))}, low |-> 0]
  BY <1>2 DEF Raise, set_flag, FlagNames
<1> HIDE DEF n
<1>4. h = [up |-> {f \in FlagNames : (f = "Z" /\ t("Z", 1)) \/ (f = "N" /\ t("N", 2)) \/ (f = "H" /\ t("H", 3))},
           low |-> 0]
  BY <1>3 DEF Raise, set_flag, FlagNames
<1> HIDE DEF h
<1>5. Raise(h, "C", t("C", 4)) = [up |-> Raised(t("Z", 1), t("N", 2), t("H", 3), t("C", 4)), low |-> 0]
  BY <1>4 DEF Raise, set_flag, FlagNames, Raised
<1>6. QED
  BY <1>1, <1>5 DEF t

\* While its low nibble is clear, a flag reads as it is.
LEMMA FlagRead ==
  ASSUME NEW F, NEW f, F.low = 0
  PROVE  (get_flag(F, f) = 1) <=> (f \in F.up)
BY DEF get_flag

\* Machines whose flags can be read.
Tidy == {s \in Running : s.F.low = 0}

\* A machine that shows these flags.
Showing(s, up) == [s EXCEPT !.F = [up |-> up, low |-> 0]]

LEMMA FlagsShown ==
  ASSUME NEW s, NEW z, NEW n, NEW h, NEW c
  PROVE  Flags(s, z, n, h, c) = Showing(s, Raised(z, n, h, c)) /\ Raised(z, n, h, c) \in SUBSET FlagNames
<1> DEFINE raised == [Z |-> z, N |-> n, H |-> h, C |-> c]
<1>1. {f \in DOMAIN raised : raised[f]} = Raised(z, n, h, c)
  BY DEF Raised, FlagNames
<1>2. QED
  BY <1>1 DEF Flags, Showing, Raised

\* Flags that are combined from the sources src.
LEMMA CombinedShown ==
  ASSUME NEW s, NEW src, NEW alu, NEW up \in SUBSET FlagNames,
         flags_src_value(src[1], get_flag(s.F, "Z"), get_flag(alu, "Z")) <=> "Z" \in up,
         flags_src_value(src[2], get_flag(s.F, "N"), get_flag(alu, "N")) <=> "N" \in up,
         flags_src_value(src[3], get_flag(s.F, "H"), get_flag(alu, "H")) <=> "H" \in up,
         flags_src_value(src[4], get_flag(s.F, "C"), get_flag(alu, "C")) <=> "C" \in up
  PROVE  cpu_combine_alu_flags(s, src, alu) = Showing(s, up)
<1>1. CombinedFlags(s.F, src, alu) = [up |-> up, low |-> 0]
  BY CombinedRaised DEF Raised, FlagNames
<1>2. QED
  BY <1>1 DEF cpu_combine_alu_flags, Showing

-------------------------------------------------------------------------------
(* Sums and differences by their names *)

\* Sums and differences in whole numbers, with the flags they raise.
LEMMA SumIs ==
  ASSUME FullWidth, NEW x \in U8, NEW y \in U8, NEW c \in 0 .. 1
  PROVE  /\ alu_add8(x, y, c).value = (x + y + c) % 256
         /\ (get_flag(alu_add8(x, y, c).flags, "Z") = 1) <=> (x + y + c) % 256 = 0
         /\ (get_flag(alu_add8(x, y, c).flags, "H") = 1) <=> (x % 16) + (y % 16) + c > 15
         /\ (get_flag(alu_add8(x, y, c).flags, "C") = 1) <=> x + y + c > 255
<1> DEFINE low  == (x % 16) + (y % 16) + c
           high == (x \div 16) + (y \div 16) + (low \div 16)
           sum  == ((high * 16) + (low % 16)) % 256
<1>1. x \in Int /\ 0 <= x /\ x < 256 /\ y \in Int /\ 0 <= y /\ y < 256
  BY InByte
<1>2. alu_add8(x, y, c) = set_output(sum, sum = 0, FALSE, low \div 16, high \div 16)
  BY Sizes DEF alu_add8, lsb4, msb4, merge4
<1>3. sum = (x + y + c) % 256
  BY <1>1
<1>4. (low \div 16 # 0) <=> low > 15
  BY <1>1
<1>5. (high \div 16 # 0) <=> x + y + c > 255
  BY <1>1
<1> HIDE DEF low, high, sum
<1> DEFINE out == set_output(sum, sum = 0, FALSE, low \div 16, high \div 16)
<1>6. /\ out.value = sum
      /\ (get_flag(out.flags, "Z") = 1) <=> sum = 0
      /\ (get_flag(out.flags, "H") = 1) <=> low \div 16 # 0
      /\ (get_flag(out.flags, "C") = 1) <=> high \div 16 # 0
  BY DEF set_output, get_flag, FlagNames
<1>7. (low > 15) <=> (x % 16) + (y % 16) + c > 15
  BY DEF low
<1> HIDE DEF out
<1>8. alu_add8(x, y, c) = out
  BY <1>2 DEF out
<1>9. QED
  BY <1>3, <1>4, <1>5, <1>6, <1>7, <1>8

LEMMA DifferenceIs ==
  ASSUME FullWidth, NEW x \in U8, NEW y \in U8, NEW c \in 0 .. 1
  PROVE  /\ alu_sub8(x, y, c).value = (x - y - c) % 256
         /\ (get_flag(alu_sub8(x, y, c).flags, "Z") = 1) <=> (x - y - c) % 256 = 0
         /\ (get_flag(alu_sub8(x, y, c).flags, "H") = 1) <=> x % 16 < (y % 16) + c
         /\ (get_flag(alu_sub8(x, y, c).flags, "C") = 1) <=> x < y + c
<1> DEFINE low    == ((x % 16) - (y % 16) - c) % 256
           borrow == IF low \div 16 # 0 THEN 1 ELSE 0
           high   == ((x \div 16) - (y \div 16) - borrow) % 256
           sum    == ((high * 16) + (low % 16)) % 256
<1>1. x \in Int /\ 0 <= x /\ x < 256 /\ y \in Int /\ 0 <= y /\ y < 256
  BY InByte
<1>2. alu_sub8(x, y, c) = set_output(sum, sum = 0, TRUE, low \div 16, high \div 16)
  BY Sizes DEF alu_sub8, lsb4, msb4, merge4
<1>3. (low \div 16 # 0) <=> x % 16 < (y % 16) + c
  BY <1>1
<1>4. borrow = IF x % 16 < (y % 16) + c THEN 1 ELSE 0
  BY <1>3
<1>5. sum = (x - y - c) % 256
  BY <1>1
<1>6. (high \div 16 # 0) <=> x < y + c
  BY <1>1
<1> HIDE DEF low, high, sum
<1> DEFINE out == set_output(sum, sum = 0, TRUE, low \div 16, high \div 16)
<1>7. /\ out.value = sum
      /\ (get_flag(out.flags, "Z") = 1) <=> sum = 0
      /\ (get_flag(out.flags, "H") = 1) <=> low \div 16 # 0
      /\ (get_flag(out.flags, "C") = 1) <=> high \div 16 # 0
  BY DEF set_output, get_flag, FlagNames
<1> HIDE DEF out
<1>8. alu_sub8(x, y, c) = out
  BY <1>2 DEF out
<1>9. QED
  BY <1>3, <1>5, <1>6, <1>7, <1>8

-------------------------------------------------------------------------------
(* Machines that have not moved *)

\* PC is where it was; the flags can be read.
Still(s) == {t \in Tidy : t.PC = s.PC}
Ended(s) == Still(s) \cup {Fail(s, "ERR_BAD_PARAMETER"), Fail(s, "ERR_INSTR")}

LEMMA StillOneField ==
  ASSUME NEW s \in Tidy, NEW t \in Still(s)
  PROVE  /\ \A f \in Files : [t EXCEPT !.reg = f] \in Still(s)
         /\ \A f \in FlagBytes : f.low = 0 => [t EXCEPT !.F = f] \in Still(s)
         /\ \A w \in U16 : [t EXCEPT !.SP = w] \in Still(s)
         /\ \A i \in Switches : [t EXCEPT !.IME = i] \in Still(s) /\ [t EXCEPT !.HALT = i] \in Still(s)
         /\ \A x \in Memories, a \in U16 : [t EXCEPT !.mem = x, !.write_listener = a] \in Still(s)
BY DEF Still, Tidy, Running, Machines, Fine

\* A machine that has not moved may differ in all but PC and time.
LEMMA StillMachines ==
  ASSUME NEW s \in Tidy
  PROVE  /\ s \in Still(s) /\ s \in Running /\ s \in Machines /\ Fine(s) /\ s.F.low = 0
         /\ \A t \in Still(s) : t \in Tidy /\ t \in Running /\ t.PC = s.PC /\ Still(t) = Still(s)
BY DEF Still, Tidy, Running

LEMMA RegisterStill ==
  ASSUME FullWidth, NEW s \in Tidy, NEW t \in Still(s), NEW r, NEW v \in U8
  PROVE  cpu_reg_set(t, r, v) \in Still(s)
<1>1. t.reg \in Files
  BY StillMachines, Fields DEF Running
<1>2. [t.reg EXCEPT ![r] = v] \in Files
  BY <1>1 DEF Files
<1>3. cpu_reg_set(t, r, v) = [t EXCEPT !.reg = [t.reg EXCEPT ![r] = v]]
  BY DEF cpu_reg_set
<1>4. [t EXCEPT !.reg = [t.reg EXCEPT ![r] = v]] \in Still(s)
  BY <1>2, StillOneField
<1>5. QED
  BY <1>3, <1>4

LEMMA ShowingStill ==
  ASSUME NEW s \in Tidy, NEW t \in Still(s), NEW up \in SUBSET FlagNames
  PROVE  Showing(t, up) \in Still(s) /\ Showing(t, up).reg = t.reg /\ Showing(t, up).mem = t.mem
<1>1. [up |-> up, low |-> 0] \in FlagBytes
  BY DEF FlagBytes
<1>2. Showing(t, up) \in Still(s)
  BY <1>1, StillOneField DEF Showing
<1>3. t \in Machines
  BY DEF Still, Tidy, Running
<1>4. QED
  BY <1>2, <1>3 DEF Showing, Machines

-------------------------------------------------------------------------------
(* Results in A *)

LEMMA AIsByte == ASSUME NEW s \in Tidy PROVE s.reg["A"] \in U8
BY StillMachines, RegisterIsByte DEF R8s

\* Results in A, with flags from the sources cpu-alu.h lists, and the names' sums.
LEMMA AddsUp ==
  ASSUME FullWidth, NEW s \in Tidy, NEW y \in U8, NEW c \in 0 .. 1
  PROVE  combine_flags_set(s, "A", alu_add8(s.reg["A"], y, c), ADD_FLAGS_SRC) = Add(s, y, c) /\ Add(s, y, c) \in Still(s)
<1> DEFINE a   == s.reg["A"]
           v   == (a + y + c) % 256
           z   == v = 0
           h   == (a % 16) + (y % 16) + c > 15
           q   == a + y + c > 255
           up  == Raised(z, FALSE, h, q)
           alu == alu_add8(a, y, c)
<1>1. a \in U8
  BY AIsByte
<1> HIDE DEF a
<1>2. alu.value = v /\ ((get_flag(alu.flags, "Z") = 1) <=> z)
      /\ ((get_flag(alu.flags, "H") = 1) <=> h) /\ ((get_flag(alu.flags, "C") = 1) <=> q)
  BY <1>1, SumIs
<1>3. v \in U8
  BY <1>1, <1>2, SumsAreResults DEF Results
<1>4. Add(s, y, c) = [Flags(s, z, FALSE, h, q) EXCEPT !.reg["A"] = v]
  BY DEF Add, a
<1> HIDE DEF alu, z, h, q, v
<1>5. Flags(s, z, FALSE, h, q) = Showing(s, up) /\ up \in SUBSET FlagNames
  BY FlagsShown
<1>6. ("Z" \in up <=> z) /\ "N" \notin up /\ ("H" \in up <=> h) /\ ("C" \in up <=> q)
  BY DEF Raised, FlagNames
<1> HIDE DEF up
<1>7. /\ flags_src_value(ADD_FLAGS_SRC[1], get_flag(s.F, "Z"), get_flag(alu.flags, "Z")) <=> "Z" \in up
      /\ flags_src_value(ADD_FLAGS_SRC[2], get_flag(s.F, "N"), get_flag(alu.flags, "N")) <=> "N" \in up
      /\ flags_src_value(ADD_FLAGS_SRC[3], get_flag(s.F, "H"), get_flag(alu.flags, "H")) <=> "H" \in up
      /\ flags_src_value(ADD_FLAGS_SRC[4], get_flag(s.F, "C"), get_flag(alu.flags, "C")) <=> "C" \in up
  BY <1>2, <1>6 DEF flags_src_value, ADD_FLAGS_SRC
<1>8. cpu_combine_alu_flags(s, ADD_FLAGS_SRC, alu.flags) = Showing(s, up)
  BY <1>5, <1>7, CombinedShown
<1>9. combine_flags_set(s, "A", alu, ADD_FLAGS_SRC) = cpu_reg_set(Showing(s, up), "A", v)
  BY <1>2, <1>8 DEF combine_flags_set
<1>10. cpu_reg_set(Showing(s, up), "A", v) \in Still(s)
  BY <1>3, <1>5, StillMachines, ShowingStill, RegisterStill
<1>11. QED
  BY <1>4, <1>5, <1>9, <1>10 DEF cpu_reg_set, alu, a

LEMMA Compares ==
  ASSUME FullWidth, NEW s \in Tidy, NEW y \in U8, NEW c \in 0 .. 1
  PROVE  /\ cpu_combine_alu_flags(s, SUB_FLAGS_SRC, alu_sub8(s.reg["A"], y, c).flags) = Compare(s, y, c)
         /\ Compare(s, y, c) \in Still(s) /\ Compare(s, y, c).reg = s.reg
<1> DEFINE a   == s.reg["A"]
           z   == (a - y - c) % 256 = 0
           h   == a % 16 < (y % 16) + c
           q   == a < y + c
           up  == Raised(z, TRUE, h, q)
           alu == alu_sub8(a, y, c)
<1>1. a \in U8
  BY AIsByte
<1> HIDE DEF a
<1>2. alu.value = (a - y - c) % 256 /\ ((get_flag(alu.flags, "Z") = 1) <=> z)
      /\ ((get_flag(alu.flags, "H") = 1) <=> h) /\ ((get_flag(alu.flags, "C") = 1) <=> q)
  <2>1. /\ alu_sub8(a, y, c).value = (a - y - c) % 256
        /\ (get_flag(alu_sub8(a, y, c).flags, "Z") = 1) <=> (a - y - c) % 256 = 0
        /\ (get_flag(alu_sub8(a, y, c).flags, "H") = 1) <=> a % 16 < (y % 16) + c
        /\ (get_flag(alu_sub8(a, y, c).flags, "C") = 1) <=> a < y + c
    BY <1>1, DifferenceIs
  <2>2. QED
    BY <2>1
<1>4. Compare(s, y, c) = Flags(s, z, TRUE, h, q)
  BY DEF Compare, a
<1> HIDE DEF alu, z, h, q
<1>5. Flags(s, z, TRUE, h, q) = Showing(s, up) /\ up \in SUBSET FlagNames
  BY FlagsShown
<1>6. ("Z" \in up <=> z) /\ "N" \in up /\ ("H" \in up <=> h) /\ ("C" \in up <=> q)
  BY DEF Raised, FlagNames
<1> HIDE DEF up
<1>7. /\ flags_src_value(SUB_FLAGS_SRC[1], get_flag(s.F, "Z"), get_flag(alu.flags, "Z")) <=> "Z" \in up
      /\ flags_src_value(SUB_FLAGS_SRC[2], get_flag(s.F, "N"), get_flag(alu.flags, "N")) <=> "N" \in up
      /\ flags_src_value(SUB_FLAGS_SRC[3], get_flag(s.F, "H"), get_flag(alu.flags, "H")) <=> "H" \in up
      /\ flags_src_value(SUB_FLAGS_SRC[4], get_flag(s.F, "C"), get_flag(alu.flags, "C")) <=> "C" \in up
  BY <1>2, <1>6 DEF flags_src_value, SUB_FLAGS_SRC
<1>8. cpu_combine_alu_flags(s, SUB_FLAGS_SRC, alu.flags) = Showing(s, up)
  BY <1>5, <1>7, CombinedShown
<1>9. Showing(s, up) \in Still(s) /\ Showing(s, up).reg = s.reg
  BY <1>5, StillMachines, ShowingStill
<1>10. QED
  BY <1>4, <1>5, <1>8, <1>9 DEF alu, a

LEMMA Subtracts ==
  ASSUME FullWidth, NEW s \in Tidy, NEW y \in U8, NEW c \in 0 .. 1
  PROVE  /\ combine_flags_set(s, "A", alu_sub8(s.reg["A"], y, c), SUB_FLAGS_SRC) = Subtract(s, y, c)
         /\ Subtract(s, y, c) \in Still(s)
<1> DEFINE a == s.reg["A"]
           v == (a - y - c) % 256
           compared == Compare(s, y, c)
<1>1. a \in U8
  BY AIsByte
<1> HIDE DEF a
<1>2. alu_sub8(a, y, c).value = v /\ v \in U8
  <2>1. /\ alu_sub8(a, y, c).value = (a - y - c) % 256
        /\ (get_flag(alu_sub8(a, y, c).flags, "Z") = 1) <=> (a - y - c) % 256 = 0
        /\ (get_flag(alu_sub8(a, y, c).flags, "H") = 1) <=> a % 16 < (y % 16) + c
        /\ (get_flag(alu_sub8(a, y, c).flags, "C") = 1) <=> a < y + c
    BY <1>1, DifferenceIs
  <2>2. alu_sub8(a, y, c) \in Results
    BY <1>1, SumsAreResults
  <2>3. QED
    BY <2>1, <2>2 DEF Results
<1>3. /\ cpu_combine_alu_flags(s, SUB_FLAGS_SRC, alu_sub8(a, y, c).flags) = compared
      /\ compared \in Still(s) /\ compared.reg = s.reg
  BY Compares DEF a
<1>4. Subtract(s, y, c) = [compared EXCEPT !.reg["A"] = v]
  BY <1>3 DEF Subtract, a
<1> HIDE DEF v, compared
<1>5. cpu_reg_set(compared, "A", v) \in Still(s)
  BY <1>2, <1>3, RegisterStill
<1>6. QED
  BY <1>2, <1>3, <1>4, <1>5 DEF combine_flags_set, cpu_reg_set, a

-------------------------------------------------------------------------------
(* Operands and places *)

\* The operand of a row is the one that x names.
Takes(row, x) ==
  \/ row.family[2] = "R8" /\ x \in R8s /\ extract_reg(row.opcode, PlaceOf(row)) = x
  \/ row.family[2] = "HLR" /\ x = "HLR"
  \/ row.family[2] = "N8" /\ x = "N8"

LEMMA NoRegister == /\ "HLR" \notin R8s /\ "N8" \notin R8s /\ "HLRI" \notin R8s /\ "HLRD" \notin R8s
                    /\ "BCR" \notin R8s /\ "DER" \notin R8s /\ "CR" \notin R8s /\ "N8R" \notin R8s
                    /\ "N16R" \notin R8s /\ "A" \in R8s /\ "C" \in R8s
BY DEF R8s

\* Operands as they are looked up by family, and by name.
LEMMA AtHL ==
  ASSUME NEW t
  PROVE  /\ Place8(t, "HLR") = HLOf(t)
         /\ Get8(t, "HLR") = cpu_read_at_HL(t)
         /\ \A v : Set8(t, "HLR", v) = cpu_write_at_idx(t, HLOf(t), v)
<1>1. Place8(t, "HLR") = HLOf(t)
  BY DEF Place8, Get16, HLOf
<1>2. Get8(t, "HLR") = cpu_read_at_HL(t)
  BY <1>1, NoRegister DEF Get8, cpu_read_at_HL
<1>3. \A v : Set8(t, "HLR", v) = cpu_write_at_idx(t, HLOf(t), v)
  BY <1>1, NoRegister DEF Set8
<1>4. QED
  BY <1>1, <1>2, <1>3

LEMMA FollowingIs ==
  ASSUME FullWidth, NEW t
  PROVE  /\ Following(t) = cpu_read_data_after_opcode(t) /\ FollowingWord(t) = cpu_read_addr_after_opcode(t)
         /\ Get8(t, "N8") = cpu_read_data_after_opcode(t)
BY Sizes, NoRegister DEF Following, FollowingWord, cpu_read_data_after_opcode, cpu_read_addr_after_opcode, Get8

\* A row that takes x reads the operand x, and writes its result there.
LEMMA TakenOperand ==
  ASSUME FullWidth, NEW t \in Tidy, NEW row, NEW x, Takes(row, x)
  PROVE  Operand(t, row) = Get8(t, x) /\ Get8(t, x) \in U8
<1>0. t \in Running
  BY StillMachines
<1>1. CASE row.family[2] = "R8" /\ x \in R8s /\ extract_reg(row.opcode, PlaceOf(row)) = x
  <2>1. Get8(t, x) = t.reg[x]
    BY <1>1, NoRegister DEF Get8
  <2>2. Operand(t, row) = t.reg[extract_reg(row.opcode, PlaceOf(row))]
    BY <1>1 DEF Operand, PlaceOf
  <2>3. QED
    BY <1>0, <1>1, <2>1, <2>2, RegisterIsByte
<1>2. CASE row.family[2] = "HLR" /\ x = "HLR"
  <2>1. Operand(t, row) = cpu_read_at_HL(t)
    BY <1>2 DEF Operand
  <2>2. QED
    BY <1>0, <1>2, <2>1, AtHL, Reads DEF cpu_read_at_HL
<1>3. CASE row.family[2] = "N8" /\ x = "N8"
  <2>1. Operand(t, row) = cpu_read_data_after_opcode(t)
    BY <1>3 DEF Operand
  <2>2. QED
    BY <1>0, <1>3, <2>1, FollowingIs, Follows
<1>4. QED
  BY <1>1, <1>2, <1>3 DEF Takes

LEMMA WrittenStill ==
  ASSUME FullWidth, NEW s \in Tidy, NEW t \in Still(s), NEW a \in U16, NEW v \in U8
  PROVE  /\ cpu_write_at_idx(t, a, v) \in Still(s) \cup {Fail(t, "ERR_BAD_PARAMETER")}
         /\ Unchecked(cpu_write_at_idx(t, a, v)) \in Still(s)
<1>1. t \in Running
  BY StillMachines
<1>2. CASE a \in t.gap
  <2>1. cpu_write_at_idx(t, a, v) = Fail(t, "ERR_BAD_PARAMETER")
    BY <1>2 DEF cpu_write_at_idx
  <2>2. QED
    BY <1>1, <2>1, Failing
<1>3. CASE a \notin t.gap
  <2>1. a \in 0 .. Word /\ t.mem \in Memories
    BY <1>1, Fields, Addresses DEF Running
  <2>2. Written(t.mem, a, v) \in Memories
    BY <2>1, MemoryWritten
  <2>3. cpu_write_at_idx(t, a, v) = [t EXCEPT !.mem = Written(t.mem, a, v), !.write_listener = a]
    BY <1>3 DEF cpu_write_at_idx
  <2>4. [t EXCEPT !.mem = Written(t.mem, a, v), !.write_listener = a] \in Still(s)
    BY <2>2, StillOneField
  <2>5. QED
    BY <2>3, <2>4, StillMachines, NothingUnchecked
<1>4. QED
  BY <1>2, <1>3

LEMMA KeptInPlace ==
  ASSUME FullWidth, NEW s \in Tidy, NEW t \in Still(s), NEW row, NEW x, Takes(row, x), x # "N8", NEW v \in U8
  PROVE  Back(t, row, v) = Keep8(t, x, v) /\ Keep8(t, x, v) \in Still(s)
<1>0. t \in Running
  BY StillMachines
<1>1. CASE row.family[2] = "R8" /\ x \in R8s /\ extract_reg(row.opcode, PlaceOf(row)) = x
  <2>1. cpu_reg_set(t, x, v) \in Still(s)
    BY RegisterStill
  <2>2. Back(t, row, v) = cpu_reg_set(t, x, v)
    BY <1>1 DEF Back, PlaceOf
  <2>3. Keep8(t, x, v) = Unchecked(cpu_reg_set(t, x, v))
    BY <1>1 DEF Keep8, Set8, cpu_reg_set
  <2>4. QED
    BY <2>1, <2>2, <2>3, StillMachines, NothingUnchecked
<1>2. CASE row.family[2] = "HLR" /\ x = "HLR"
  <2>1. Back(t, row, v) = Unchecked(cpu_write_at_idx(t, HLOf(t), v))
    BY <1>2 DEF Back
  <2>2. Keep8(t, x, v) = Unchecked(cpu_write_at_idx(t, HLOf(t), v))
    BY <1>2, AtHL DEF Keep8
  <2>3. HLOf(t) \in U16
    BY <1>0, HLIsWord
  <2>4. QED
    BY <2>1, <2>2, <2>3, WrittenStill
<1>3. QED
  BY <1>1, <1>2 DEF Takes

LEMMA ShownInPlace ==
  ASSUME FullWidth, NEW s \in Tidy, NEW row, NEW x, Takes(row, x), x # "N8", NEW alu, NEW src, NEW up \in SUBSET FlagNames,
         alu.value \in U8, cpu_combine_alu_flags(s, src, alu.flags) = Showing(s, up)
  PROVE  InPlace(s, row, alu, src) = Keep8(Showing(s, up), x, alu.value) /\ InPlace(s, row, alu, src) \in Still(s)
<1>1. Showing(s, up) \in Still(s)
  BY StillMachines, ShowingStill
<1>2. InPlace(s, row, alu, src) = Back(Showing(s, up), row, alu.value)
  BY DEF InPlace
<1>3. QED
  BY <1>1, <1>2, KeptInPlace

\* Where the carry is not concerned it stays.
LEMMA Kept ==
  ASSUME NEW s \in Tidy, NEW f
  PROVE  (get_flag(s.F, f) = 1) <=> Up(s, f)
BY StillMachines, FlagRead DEF Up

\* INC and DEC of a register or of the byte at HL.
LEMMA CountsUp ==
  ASSUME FullWidth, NEW s \in Tidy, NEW row, NEW x, Takes(row, x), x # "N8"
  PROVE  /\ InPlace(s, row, alu_add8(Get8(s, x), 1, 0), INC_FLAGS_SRC) = Step8(s, x, 1)
         /\ Step8(s, x, 1) \in Still(s)
<1> DEFINE b   == Get8(s, x)
           v   == (b + 1) % 256
           z   == v = 0
           n   == 1 = -1
           h   == v % 16 = (IF 1 = 1 THEN 0 ELSE 15)
           q   == Up(s, "C")
           up  == Raised(z, n, h, q)
           alu == alu_add8(b, 1, 0)
<1>1. b \in U8 /\ 1 \in U8
  BY TakenOperand, InByte
<1> HIDE DEF b
<1>2. alu.value = v /\ v \in U8 /\ ((get_flag(alu.flags, "Z") = 1) <=> z)
      /\ ((get_flag(alu.flags, "H") = 1) <=> h) /\ ((get_flag(s.F, "C") = 1) <=> q) /\ (n <=> FALSE)
  <2>1. /\ alu_add8(b, 1, 0).value = (b + 1 + 0) % 256
        /\ (get_flag(alu_add8(b, 1, 0).flags, "Z") = 1) <=> (b + 1 + 0) % 256 = 0
        /\ (get_flag(alu_add8(b, 1, 0).flags, "H") = 1) <=> (b % 16) + (1 % 16) + 0 > 15
        /\ (get_flag(alu_add8(b, 1, 0).flags, "C") = 1) <=> b + 1 + 0 > 255
    BY <1>1, SumIs
  <2>2. b \in Int /\ 0 <= b /\ b < 256
    BY <1>1, InByte
  <2>3. b + 1 + 0 = b + 1 /\ (((b % 16) + (1 % 16) + 0 > 15) <=> ((b + 1) % 256) % 16 = 0)
    BY <2>2
  <2>4. (b + 1) % 256 \in U8
    BY <2>2, InByte
  <2>5. (get_flag(s.F, "C") = 1) <=> Up(s, "C")
    BY Kept
  <2>6. QED
    BY <2>1, <2>3, <2>4, <2>5
<1>3. Step8(s, x, 1) = Keep8(Flags(s, z, n, h, q), x, v)
  BY DEF Step8, b
<1> HIDE DEF alu, z, n, h, q, v
<1>5. Flags(s, z, n, h, q) = Showing(s, up) /\ up \in SUBSET FlagNames
  BY FlagsShown
<1>6. ("Z" \in up <=> z) /\ ("N" \in up <=> n) /\ ("H" \in up <=> h) /\ ("C" \in up <=> q)
  BY DEF Raised, FlagNames
<1> HIDE DEF up
<1>7. /\ flags_src_value(INC_FLAGS_SRC[1], get_flag(s.F, "Z"), get_flag(alu.flags, "Z")) <=> "Z" \in up
      /\ flags_src_value(INC_FLAGS_SRC[2], get_flag(s.F, "N"), get_flag(alu.flags, "N")) <=> "N" \in up
      /\ flags_src_value(INC_FLAGS_SRC[3], get_flag(s.F, "H"), get_flag(alu.flags, "H")) <=> "H" \in up
      /\ flags_src_value(INC_FLAGS_SRC[4], get_flag(s.F, "C"), get_flag(alu.flags, "C")) <=> "C" \in up
  BY <1>2, <1>6 DEF flags_src_value, INC_FLAGS_SRC
<1>8. cpu_combine_alu_flags(s, INC_FLAGS_SRC, alu.flags) = Showing(s, up)
  BY <1>5, <1>7, CombinedShown
<1>9. InPlace(s, row, alu, INC_FLAGS_SRC) = Keep8(Showing(s, up), x, v) /\ InPlace(s, row, alu, INC_FLAGS_SRC) \in Still(s)
  BY <1>2, <1>5, <1>8, ShownInPlace
<1>10. QED
  BY <1>3, <1>5, <1>9 DEF alu, b

LEMMA CountsDown ==
  ASSUME FullWidth, NEW s \in Tidy, NEW row, NEW x, Takes(row, x), x # "N8"
  PROVE  /\ InPlace(s, row, alu_sub8(Get8(s, x), 1, 0), DEC_FLAGS_SRC) = Step8(s, x, -1)
         /\ Step8(s, x, -1) \in Still(s)
<1> DEFINE b   == Get8(s, x)
           v   == (b + -1) % 256
           z   == v = 0
           n   == -1 = -1
           h   == v % 16 = (IF -1 = 1 THEN 0 ELSE 15)
           q   == Up(s, "C")
           up  == Raised(z, n, h, q)
           alu == alu_sub8(b, 1, 0)
<1>1. b \in U8 /\ 1 \in U8
  BY TakenOperand, InByte
<1> HIDE DEF b
<1>2. alu.value = v /\ v \in U8 /\ ((get_flag(alu.flags, "Z") = 1) <=> z)
      /\ ((get_flag(alu.flags, "H") = 1) <=> h) /\ ((get_flag(s.F, "C") = 1) <=> q) /\ (n <=> TRUE)
  <2>1. /\ alu_sub8(b, 1, 0).value = (b - 1 - 0) % 256
        /\ (get_flag(alu_sub8(b, 1, 0).flags, "Z") = 1) <=> (b - 1 - 0) % 256 = 0
        /\ (get_flag(alu_sub8(b, 1, 0).flags, "H") = 1) <=> b % 16 < (1 % 16) + 0
        /\ (get_flag(alu_sub8(b, 1, 0).flags, "C") = 1) <=> b < 1 + 0
    BY <1>1, DifferenceIs
  <2>2. b \in Int /\ 0 <= b /\ b < 256
    BY <1>1, InByte
  <2>3. b - 1 - 0 = b + -1 /\ ((b % 16 < (1 % 16) + 0) <=> ((b + -1) % 256) % 16 = 15)
    BY <2>2
  <2>4. (b + -1) % 256 \in U8
    BY <2>2, InByte
  <2>5. (get_flag(s.F, "C") = 1) <=> Up(s, "C")
    BY Kept
  <2>6. QED
    BY <2>1, <2>3, <2>4, <2>5
<1>3. Step8(s, x, -1) = Keep8(Flags(s, z, n, h, q), x, v)
  BY DEF Step8, b
<1> HIDE DEF alu, z, n, h, q, v
<1>5. Flags(s, z, n, h, q) = Showing(s, up) /\ up \in SUBSET FlagNames
  BY FlagsShown
<1>6. ("Z" \in up <=> z) /\ ("N" \in up <=> n) /\ ("H" \in up <=> h) /\ ("C" \in up <=> q)
  BY DEF Raised, FlagNames
<1> HIDE DEF up
<1>7. /\ flags_src_value(DEC_FLAGS_SRC[1], get_flag(s.F, "Z"), get_flag(alu.flags, "Z")) <=> "Z" \in up
      /\ flags_src_value(DEC_FLAGS_SRC[2], get_flag(s.F, "N"), get_flag(alu.flags, "N")) <=> "N" \in up
      /\ flags_src_value(DEC_FLAGS_SRC[3], get_flag(s.F, "H"), get_flag(alu.flags, "H")) <=> "H" \in up
      /\ flags_src_value(DEC_FLAGS_SRC[4], get_flag(s.F, "C"), get_flag(alu.flags, "C")) <=> "C" \in up
  BY <1>2, <1>6 DEF flags_src_value, DEC_FLAGS_SRC
<1>8. cpu_combine_alu_flags(s, DEC_FLAGS_SRC, alu.flags) = Showing(s, up)
  BY <1>5, <1>7, CombinedShown
<1>9. InPlace(s, row, alu, DEC_FLAGS_SRC) = Keep8(Showing(s, up), x, v) /\ InPlace(s, row, alu, DEC_FLAGS_SRC) \in Still(s)
  BY <1>2, <1>5, <1>8, ShownInPlace
<1>10. QED
  BY <1>3, <1>5, <1>9 DEF alu, b

-------------------------------------------------------------------------------
(* Bytes that are moved by a place *)

\* A bit that leaves the byte becomes the carry.
LEMMA Turned ==
  ASSUME FullWidth, NEW s \in Tidy, NEW row, NEW x, Takes(row, x), x # "N8", NEW v \in U8, NEW c
  PROVE  /\ InPlace(s, row, Moved(v, c), SHIFT_FLAGS_SRC) = Turn(s, x, v, c # 0)
         /\ Turn(s, x, v, c # 0) \in Still(s)
<1> DEFINE z   == v = 0
           q   == c # 0
           up  == Raised(z, FALSE, FALSE, q)
           alu == Moved(v, c)
<1>1. alu.value = v /\ ((get_flag(alu.flags, "Z") = 1) <=> z) /\ ((get_flag(alu.flags, "C") = 1) <=> q)
  BY DEF Moved, set_output, get_flag, FlagNames
<1>2. Turn(s, x, v, c # 0) = Keep8(Flags(s, z, FALSE, FALSE, q), x, v)
  BY DEF Turn
<1> HIDE DEF alu, z, q
<1>3. Flags(s, z, FALSE, FALSE, q) = Showing(s, up) /\ up \in SUBSET FlagNames
  BY FlagsShown
<1>4. ("Z" \in up <=> z) /\ "N" \notin up /\ "H" \notin up /\ ("C" \in up <=> q)
  BY DEF Raised, FlagNames
<1> HIDE DEF up
<1>5. /\ flags_src_value(SHIFT_FLAGS_SRC[1], get_flag(s.F, "Z"), get_flag(alu.flags, "Z")) <=> "Z" \in up
      /\ flags_src_value(SHIFT_FLAGS_SRC[2], get_flag(s.F, "N"), get_flag(alu.flags, "N")) <=> "N" \in up
      /\ flags_src_value(SHIFT_FLAGS_SRC[3], get_flag(s.F, "H"), get_flag(alu.flags, "H")) <=> "H" \in up
      /\ flags_src_value(SHIFT_FLAGS_SRC[4], get_flag(s.F, "C"), get_flag(alu.flags, "C")) <=> "C" \in up
  BY <1>1, <1>4 DEF flags_src_value, SHIFT_FLAGS_SRC
<1>6. cpu_combine_alu_flags(s, SHIFT_FLAGS_SRC, alu.flags) = Showing(s, up)
  BY <1>3, <1>5, CombinedShown
<1>7. InPlace(s, row, alu, SHIFT_FLAGS_SRC) = Keep8(Showing(s, up), x, v) /\ InPlace(s, row, alu, SHIFT_FLAGS_SRC) \in Still(s)
  BY <1>1, <1>3, <1>6, ShownInPlace
<1>8. QED
  BY <1>2, <1>3, <1>7 DEF alu

\* Without a carry, as SWAP leaves it.
LEMMA Swapped ==
  ASSUME FullWidth, NEW s \in Tidy, NEW row, NEW x, Takes(row, x), x # "N8", NEW v \in U8
  PROVE  /\ InPlace(s, row, Moved(v, 0), OR_FLAGS_SRC) = Turn(s, x, v, FALSE)
         /\ Turn(s, x, v, FALSE) \in Still(s)
<1> DEFINE z   == v = 0
           up  == Raised(z, FALSE, FALSE, FALSE)
           alu == Moved(v, 0)
<1>1. alu.value = v /\ ((get_flag(alu.flags, "Z") = 1) <=> z)
  BY DEF Moved, set_output, get_flag, FlagNames
<1>2. Turn(s, x, v, FALSE) = Keep8(Flags(s, z, FALSE, FALSE, FALSE), x, v)
  BY DEF Turn
<1> HIDE DEF alu, z
<1>3. Flags(s, z, FALSE, FALSE, FALSE) = Showing(s, up) /\ up \in SUBSET FlagNames
  BY FlagsShown
<1>4. ("Z" \in up <=> z) /\ "N" \notin up /\ "H" \notin up /\ "C" \notin up
  BY DEF Raised, FlagNames
<1> HIDE DEF up
<1>5. /\ flags_src_value(OR_FLAGS_SRC[1], get_flag(s.F, "Z"), get_flag(alu.flags, "Z")) <=> "Z" \in up
      /\ flags_src_value(OR_FLAGS_SRC[2], get_flag(s.F, "N"), get_flag(alu.flags, "N")) <=> "N" \in up
      /\ flags_src_value(OR_FLAGS_SRC[3], get_flag(s.F, "H"), get_flag(alu.flags, "H")) <=> "H" \in up
      /\ flags_src_value(OR_FLAGS_SRC[4], get_flag(s.F, "C"), get_flag(alu.flags, "C")) <=> "C" \in up
  BY <1>1, <1>4 DEF flags_src_value, OR_FLAGS_SRC
<1>6. cpu_combine_alu_flags(s, OR_FLAGS_SRC, alu.flags) = Showing(s, up)
  BY <1>3, <1>5, CombinedShown
<1>7. InPlace(s, row, alu, OR_FLAGS_SRC) = Keep8(Showing(s, up), x, v) /\ InPlace(s, row, alu, OR_FLAGS_SRC) \in Still(s)
  BY <1>1, <1>3, <1>6, ShownInPlace
<1>8. QED
  BY <1>2, <1>3, <1>7 DEF alu

\* In A, where Z is down afterwards.
LEMMA TurnedInA ==
  ASSUME FullWidth, NEW s \in Tidy, NEW v \in U8, NEW c
  PROVE  /\ combine_flags_set(s, "A", Moved(v, c), ROT_FLAGS_SRC) = TurnA(s, v, c # 0)
         /\ TurnA(s, v, c # 0) \in Still(s)
<1> DEFINE q   == c # 0
           up  == Raised(FALSE, FALSE, FALSE, q)
           alu == Moved(v, c)
<1>1. alu.value = v /\ ((get_flag(alu.flags, "C") = 1) <=> q)
  BY DEF Moved, set_output, get_flag, FlagNames
<1>2. TurnA(s, v, c # 0) = Keep8(Flags(s, FALSE, FALSE, FALSE, q), "A", v)
  BY DEF TurnA
<1> HIDE DEF alu, q
<1>3. Flags(s, FALSE, FALSE, FALSE, q) = Showing(s, up) /\ up \in SUBSET FlagNames
  BY FlagsShown
<1>4. "Z" \notin up /\ "N" \notin up /\ "H" \notin up /\ ("C" \in up <=> q)
  BY DEF Raised, FlagNames
<1> HIDE DEF up
<1>5. /\ flags_src_value(ROT_FLAGS_SRC[1], get_flag(s.F, "Z"), get_flag(alu.flags, "Z")) <=> "Z" \in up
      /\ flags_src_value(ROT_FLAGS_SRC[2], get_flag(s.F, "N"), get_flag(alu.flags, "N")) <=> "N" \in up
      /\ flags_src_value(ROT_FLAGS_SRC[3], get_flag(s.F, "H"), get_flag(alu.flags, "H")) <=> "H" \in up
      /\ flags_src_value(ROT_FLAGS_SRC[4], get_flag(s.F, "C"), get_flag(alu.flags, "C")) <=> "C" \in up
  BY <1>1, <1>4 DEF flags_src_value, ROT_FLAGS_SRC
<1>6. cpu_combine_alu_flags(s, ROT_FLAGS_SRC, alu.flags) = Showing(s, up)
  BY <1>3, <1>5, CombinedShown
<1>7. Showing(s, up) \in Still(s)
  BY <1>3, StillMachines, ShowingStill
<1>8. cpu_reg_set(Showing(s, up), "A", v) \in Still(s)
  BY <1>7, RegisterStill
<1>9. Keep8(Showing(s, up), "A", v) = cpu_reg_set(Showing(s, up), "A", v)
  BY <1>8, NoRegister, StillMachines, NothingUnchecked DEF Keep8, Set8, cpu_reg_set
<1>10. combine_flags_set(s, "A", alu, ROT_FLAGS_SRC) = cpu_reg_set(Showing(s, up), "A", v)
  BY <1>1, <1>6 DEF combine_flags_set
<1>11. QED
  BY <1>2, <1>3, <1>8, <1>9, <1>10 DEF alu

\* The bit that leaves a byte, at either end.
LEMMA EndBits ==
  ASSUME FullWidth, NEW b \in U8
  PROVE  /\ Leaving(b, "LEFT") = b \div 128 /\ Leaving(b, "RIGHT") = b % 2
         /\ (b \div 128 # 0) <=> b > 127
         /\ (b % 2 # 0) <=> b % 2 = 1
<1>1. b \in Int /\ 0 <= b /\ b < 256
  BY InByte
<1>2. bit_get(b, 7) = (b \div 128) % 2 /\ bit_get(b, 0) = (b \div 1) % 2
  BY DEF bit_get, Power
<1>3. bit_get(b, 7) = b \div 128 /\ bit_get(b, 0) = b % 2
  BY <1>1, <1>2
<1>4. QED
  BY <1>1, <1>3, Sizes DEF Leaving

\* Shifts and rotations as products and quotients.
LEMMA ShiftedBytes ==
  ASSUME FullWidth, NEW b \in U8
  PROVE  /\ alu_shift(b, "LEFT") = Moved((2 * b) % 256, b \div 128)
         /\ alu_shift(b, "RIGHT") = Moved(b \div 2, b % 2)
         /\ alu_shiftR_A(b) = Moved(b \div 2 + (IF b > 127 THEN 128 ELSE 0), b % 2)
         /\ alu_swap(b) = Moved(16 * (b % 16) + b \div 16, 0)
<1>1. b \in Int /\ 0 <= b /\ b < 256
  BY InByte
<1>2. alu_shift(b, "LEFT") = Moved((2 * b) % 256, b \div 128)
  <2>1. (b * 2) % Byte = (2 * b) % 256
    BY <1>1, Sizes
  <2>2. QED
    BY <2>1, EndBits DEF alu_shift, Moved
<1>3. alu_shift(b, "RIGHT") = Moved(b \div 2, b % 2)
  BY EndBits DEF alu_shift, Moved
<1>4. alu_shiftR_A(b) = Moved(b \div 2 + (IF b > 127 THEN 128 ELSE 0), b % 2)
  <2>1. bit_get(b \div 2, 7) = ((b \div 2) \div 128) % 2
    BY DEF bit_get, Power
  <2>2. bit_get(b \div 2, 7) = 0
    BY <1>1, <2>1
  <2>3. bit_get(b, 7) = b \div 128 /\ bit_get(b, 0) = b % 2
    <3>1. bit_get(b, 7) = (b \div 128) % 2 /\ bit_get(b, 0) = (b \div 1) % 2
      BY DEF bit_get, Power
    <3>2. QED
      BY <1>1, <3>1
  <2>4. Power(7) = 128
    BY DEF Power
  <2>5. bit_edit(b \div 2, 7, bit_get(b, 7)) = b \div 2 + (IF b > 127 THEN 128 ELSE 0)
    <3>1. CASE b > 127
      <4>1. bit_get(b, 7) # 0
        BY <1>1, <2>3, <3>1
      <4>2. QED
        BY <2>2, <2>4, <3>1, <4>1 DEF bit_edit, bit_set
    <3>2. CASE ~(b > 127)
      <4>1. bit_get(b, 7) = 0 /\ b \div 2 + 0 = b \div 2
        BY <1>1, <2>3, <3>2
      <4>2. QED
        BY <2>2, <3>2, <4>1 DEF bit_edit, bit_unset
    <3>3. QED
      BY <3>1, <3>2
  <2>6. ByteBits - 1 = 7
    BY Sizes
  <2>7. QED
    BY <2>3, <2>5, <2>6 DEF alu_shiftR_A
<1>5. alu_swap(b) = Moved(16 * (b % 16) + b \div 16, 0)
  <2>1. merge4(msb4(b), lsb4(b)) = ((b % 16) * 16 + ((b \div 16) % 16)) % 256
    BY Sizes DEF merge4, msb4, lsb4
  <2>2. ((b % 16) * 16 + ((b \div 16) % 16)) % 256 = 16 * (b % 16) + b \div 16
    BY <1>1
  <2>3. QED
    BY <2>1, <2>2 DEF alu_swap
<1>6. QED
  BY <1>2, <1>3, <1>4, <1>5

LEMMA CarryRead ==
  ASSUME NEW s \in Tidy
  PROVE  get_flag(s.F, "C") = Carry(s) /\ Carry(s) \in 0 .. 1
BY Kept, Flag DEF Carry

LEMMA RotatedBytes ==
  ASSUME FullWidth, NEW b \in U8
  PROVE  /\ bit_rotate(b, "LEFT") = ((2 * b) % 256) + b \div 128
         /\ bit_rotate(b, "RIGHT") = b \div 2 + 128 * (b % 2)
<1>1. b \in Int /\ 0 <= b /\ b < 256
  BY InByte
<1>2. Power(1) = 2 /\ Power(7) = 128
  BY DEF Power
<1>3. bit_rotate(b, "LEFT") = ((b * 2) % 256) + b \div 128
  BY <1>2, Sizes DEF bit_rotate
<1>4. bit_rotate(b, "RIGHT") = ((b * 128) % 256) + b \div 2
  BY <1>2, Sizes DEF bit_rotate
<1>5. (b * 2) % 256 = (2 * b) % 256 /\ ((b * 128) % 256) + b \div 2 = b \div 2 + 128 * (b % 2)
  BY <1>1
<1>6. QED
  BY <1>3, <1>4, <1>5

LEMMA RotatedRound ==
  ASSUME FullWidth, NEW b \in U8
  PROVE  /\ alu_rotate(b, "LEFT") = Moved(((2 * b) % 256) + b \div 128, b \div 128)
         /\ alu_rotate(b, "RIGHT") = Moved(b \div 2 + 128 * (b % 2), b % 2)
BY RotatedBytes, EndBits DEF alu_rotate

LEMMA RotatedThrough ==
  ASSUME FullWidth, NEW s \in Tidy, NEW b \in U8
  PROVE  /\ alu_carry_rotate(b, "LEFT", s.F) = Moved((2 * b + Carry(s)) % 256, b \div 128)
         /\ alu_carry_rotate(b, "RIGHT", s.F) = Moved((256 * Carry(s) + b) \div 2, b % 2)
<1> DEFINE c == Carry(s)
           l == ((2 * b) % 256) + b \div 128
           r == b \div 2 + 128 * (b % 2)
<1>1. b \in Int /\ 0 <= b /\ b < 256
  BY InByte
<1>2. get_flag(s.F, "C") = c /\ (c = 0 \/ c = 1)
  BY CarryRead
<1>3. Power(0) = 1 /\ Power(7) = 128
  BY DEF Power
<1>4. bit_get(l, 0) = (l \div 1) % 2 /\ bit_get(r, 7) = (r \div 128) % 2
  BY <1>3 DEF bit_get
<1>5. bit_get(l, 0) = b \div 128 /\ bit_get(r, 7) = b % 2
  BY <1>1, <1>4
<1> HIDE DEF c
<1>6. bit_edit(l, 0, c) = (2 * b + c) % 256
  <2>1. CASE c = 0
    <3>1. bit_edit(l, 0, c) = IF b \div 128 = 1 THEN l - 1 ELSE l
      BY <1>3, <1>5, <2>1 DEF bit_edit, bit_unset
    <3>2. (IF b \div 128 = 1 THEN l - 1 ELSE l) = (2 * b + 0) % 256
      BY <1>1
    <3>3. QED
      BY <2>1, <3>1, <3>2
  <2>2. CASE c = 1
    <3>1. bit_edit(l, 0, c) = IF b \div 128 = 1 THEN l ELSE l + 1
      BY <1>3, <1>5, <2>2 DEF bit_edit, bit_set
    <3>2. (IF b \div 128 = 1 THEN l ELSE l + 1) = (2 * b + 1) % 256
      BY <1>1
    <3>3. QED
      BY <2>2, <3>1, <3>2
  <2>3. QED
    BY <1>2, <2>1, <2>2
<1>7. bit_edit(r, 7, c) = (256 * c + b) \div 2
  <2>1. CASE c = 0
    <3>1. bit_edit(r, 7, c) = IF b % 2 = 1 THEN r - 128 ELSE r
      BY <1>3, <1>5, <2>1 DEF bit_edit, bit_unset
    <3>2. (IF b % 2 = 1 THEN r - 128 ELSE r) = (256 * 0 + b) \div 2
      BY <1>1
    <3>3. QED
      BY <2>1, <3>1, <3>2
  <2>2. CASE c = 1
    <3>1. bit_edit(r, 7, c) = IF b % 2 = 1 THEN r ELSE r + 128
      BY <1>3, <1>5, <2>2 DEF bit_edit, bit_set
    <3>2. (IF b % 2 = 1 THEN r ELSE r + 128) = (256 * 1 + b) \div 2
      BY <1>1
    <3>3. QED
      BY <2>2, <3>1, <3>2
  <2>3. QED
    BY <1>2, <2>1, <2>2
<1>8. bit_rotate(b, "LEFT") = l /\ bit_rotate(b, "RIGHT") = r
  BY RotatedBytes
<1> HIDE DEF l, r
<1>9. /\ alu_carry_rotate(b, "LEFT", s.F) = Moved(bit_edit(l, 0, c), b \div 128)
      /\ alu_carry_rotate(b, "RIGHT", s.F) = Moved(bit_edit(r, 7, c), b % 2)
  <2>1. alu_carry_rotate(b, "LEFT", s.F)
          = Moved(bit_edit(bit_rotate(b, "LEFT"), 0, get_flag(s.F, "C")), Leaving(b, "LEFT"))
    BY DEF alu_carry_rotate, Moved
  <2>2. alu_carry_rotate(b, "RIGHT", s.F)
          = Moved(bit_edit(bit_rotate(b, "RIGHT"), ByteBits - 1, get_flag(s.F, "C")), Leaving(b, "RIGHT"))
    BY DEF alu_carry_rotate, Moved
  <2>3. ByteBits - 1 = 7 /\ Leaving(b, "LEFT") = b \div 128 /\ Leaving(b, "RIGHT") = b % 2
    BY EndBits, Sizes
  <2>4. QED
    BY <1>2, <1>8, <2>1, <2>2, <2>3
<1>10. QED
  BY <1>6, <1>7, <1>9 DEF c

-------------------------------------------------------------------------------
(* Bits *)

\* A bit of a byte, by division and by bit_get.
LEMMA Powers ==
  ASSUME NEW v, NEW i \in 0 .. 7
  PROVE  Has(v, i) <=> bit_get(v, i) = 1
<1> DEFINE two(k) == 2 ^ k
<1>1. /\ two(0) = 1 /\ two(1) = 2 /\ two(2) = 4 /\ two(3) = 8
      /\ two(4) = 16 /\ two(5) = 32 /\ two(6) = 64 /\ two(7) = 128
  OBVIOUS
<1> HIDE DEF two
<1>2. two(i) = Power(i)
  <2>1. i = 0 \/ i = 1 \/ i = 2 \/ i = 3 \/ i = 4 \/ i = 5 \/ i = 6 \/ i = 7
    OBVIOUS
  <2>2. /\ Power(0) = 1 /\ Power(1) = 2 /\ Power(2) = 4 /\ Power(3) = 8 /\ Power(4) = 16 /\ Power(5) = 32
        /\ Power(6) = 64 /\ Power(7) = 128
    BY DEF Power
  <2>3. QED
    BY <1>1, <2>1, <2>2
<1>3. QED
  BY <1>2 DEF Has, bit_get, two

\* A byte is the sum of its bits.
LEMMA BinaryBits ==
  ASSUME FullWidth, NEW f \in [0 .. 7 -> 0 .. 1]
  PROVE  Binary(f) \in U8 /\ \A i \in 0 .. 7 : bit_get(Binary(f), i) = f[i]
<1> DEFINE v == Binary(f)
<1>1. \A i \in 0 .. 7 : f[i] \in 0 .. 1
  OBVIOUS
<1>2. /\ f[0] \in 0 .. 1 /\ f[1] \in 0 .. 1 /\ f[2] \in 0 .. 1 /\ f[3] \in 0 .. 1
      /\ f[4] \in 0 .. 1 /\ f[5] \in 0 .. 1 /\ f[6] \in 0 .. 1 /\ f[7] \in 0 .. 1
  BY <1>1
<1>3. v \in U8
  <2>1. v \in Int /\ 0 <= v /\ v < 256
    BY <1>2 DEF Binary
  <2> HIDE DEF v
  <2>2. QED
    BY <2>1, InByte
<1>4. /\ v % 2 = f[0] /\ (v \div 2) % 2 = f[1] /\ (v \div 4) % 2 = f[2] /\ (v \div 8) % 2 = f[3]
      /\ (v \div 16) % 2 = f[4] /\ (v \div 32) % 2 = f[5] /\ (v \div 64) % 2 = f[6] /\ (v \div 128) % 2 = f[7]
  BY <1>2 DEF Binary
<1> HIDE DEF v
<1>5. v \in Int /\ v \div 1 = v
  BY <1>3, InByte
<1>6. /\ bit_get(v, 0) = (v \div 1) % 2 /\ bit_get(v, 1) = (v \div 2) % 2 /\ bit_get(v, 2) = (v \div 4) % 2
      /\ bit_get(v, 3) = (v \div 8) % 2 /\ bit_get(v, 4) = (v \div 16) % 2
      /\ bit_get(v, 5) = (v \div 32) % 2 /\ bit_get(v, 6) = (v \div 64) % 2
      /\ bit_get(v, 7) = (v \div 128) % 2
  BY DEF bit_get, Power
<1>7. \A i \in 0 .. 7 : bit_get(v, i) = f[i]
  BY <1>4, <1>5, <1>6
<1>8. QED
  BY <1>3, <1>7 DEF v

\* A byte is known by its bits.
LEMMA SameBits ==
  ASSUME FullWidth, NEW v \in U8, NEW w \in U8, \A i \in 0 .. 7 : bit_get(v, i) = bit_get(w, i)
  PROVE  v = w
<1>1. /\ bit_get(v, 0) = bit_get(w, 0) /\ bit_get(v, 1) = bit_get(w, 1) /\ bit_get(v, 2) = bit_get(w, 2)
      /\ bit_get(v, 3) = bit_get(w, 3) /\ bit_get(v, 4) = bit_get(w, 4) /\ bit_get(v, 5) = bit_get(w, 5)
      /\ bit_get(v, 6) = bit_get(w, 6) /\ bit_get(v, 7) = bit_get(w, 7)
  OBVIOUS
<1>2. QED
  BY <1>1, BitsOfByte

LEMMA OnesOfByte ==
  ASSUME FullWidth, NEW v \in U8, NEW places, places = Ones(v)
  PROVE  ByteOfBits(places) = v /\ ((places = {}) <=> v = 0) /\ \A i \in 0 .. 7 : i \in places <=> bit_get(v, i) = 1
<1>1. \A i \in 0 .. 7 : i \in places <=> bit_get(v, i) = 1
  BY Powers DEF Ones
<1>2. ByteOfBits(places) = v
  <2> DEFINE fits(w) == \A i \in 0 .. 7 : Has(w, i) <=> i \in places
  <2>1. 0 .. 255 = U8
    BY Sizes DEF U8
  <2>2. fits(v)
    BY <1>1, Powers
  <2>3. ASSUME NEW w \in U8, fits(w) PROVE w = v
    <3>1. ASSUME NEW i \in 0 .. 7 PROVE bit_get(w, i) = bit_get(v, i)
      <4>1. bit_get(w, i) \in 0 .. 1 /\ bit_get(v, i) \in 0 .. 1
        BY Bit
      <4>2. (bit_get(w, i) = 1) <=> (bit_get(v, i) = 1)
        BY <1>1, <2>3, Powers
      <4>3. QED
        BY <4>1, <4>2
    <3>2. QED
      BY <3>1, SameBits
  <2>4. ByteOfBits(places) = CHOOSE w \in 0 .. 255 : fits(w)
    BY DEF ByteOfBits
  <2> HIDE DEF fits
  <2>5. QED
    BY <2>1, <2>2, <2>3, <2>4
<1>3. (places = {}) <=> v = 0
  <2>1. ASSUME v = 0, NEW i \in 0 .. 7 PROVE bit_get(v, i) = 0
    <3>1. Power(i) \in {1, 2, 4, 8, 16, 32, 64, 128}
      BY DEF Power
    <3>2. QED
      BY <2>1, <3>1 DEF bit_get
  <2>2. places \subseteq 0 .. 7
    BY DEF Ones
  <2>3. ASSUME places = {} PROVE v = 0
    <3>1. 0 \in U8
      BY InByte
    <3>2. ASSUME NEW i \in 0 .. 7 PROVE bit_get(v, i) = bit_get(0, i)
      <4>1. bit_get(v, i) \in 0 .. 1 /\ bit_get(0, i) \in 0 .. 1
        BY <3>1, Bit
      <4>2. bit_get(v, i) # 1
        BY <1>1, <2>3
      <4>3. Power(i) \in {1, 2, 4, 8, 16, 32, 64, 128}
        BY DEF Power
      <4>4. bit_get(0, i) = 0
        BY <4>3 DEF bit_get
      <4>5. QED
        BY <4>1, <4>2, <4>4
    <3>3. QED
      BY <3>1, <3>2, SameBits
  <2>4. QED
    BY <1>1, <2>1, <2>2, <2>3
<1>4. QED
  BY <1>1, <1>2, <1>3

\* The bits two bytes share, those of either, and those of one alone.
LEMMA LogicBits ==
  ASSUME FullWidth, NEW a \in U8, NEW b \in U8
  PROVE  /\ Ones(Common(a, b)) = Ones(a) \cap Ones(b)
         /\ Ones(a + b - Common(a, b)) = Ones(a) \cup Ones(b)
         /\ Ones(a + b - 2 * Common(a, b)) = (Ones(a) \cup Ones(b)) \ (Ones(a) \cap Ones(b))
<1> DEFINE d == [i \in 0 .. 7 |-> bit_get(a, i)]
           e == [i \in 0 .. 7 |-> bit_get(b, i)]
           c == [i \in 0 .. 7 |-> d[i] * e[i]]
           o == [i \in 0 .. 7 |-> d[i] + e[i] - c[i]]
           x == [i \in 0 .. 7 |-> d[i] + e[i] - 2 * c[i]]
<1>1. /\ d \in [0 .. 7 -> 0 .. 1] /\ e \in [0 .. 7 -> 0 .. 1]
      /\ a = Binary(d) /\ b = Binary(e)
  BY BitsOfByte DEF Binary
<1>2. Common(a, b) = Binary(c)
  BY <1>1 DEF Common, Power, Binary
<1>3. \A i \in 0 .. 7 : /\ d[i] \in 0 .. 1 /\ e[i] \in 0 .. 1 /\ c[i] = d[i] * e[i]
                        /\ o[i] = d[i] + e[i] - c[i] /\ x[i] = d[i] + e[i] - 2 * c[i]
  BY <1>1
<1>4. DOMAIN c = 0 .. 7 /\ DOMAIN o = 0 .. 7 /\ DOMAIN x = 0 .. 7
  OBVIOUS
<1>5. \A p, q \in 0 .. 1 : /\ p * q \in 0 .. 1 /\ p + q - p * q \in 0 .. 1 /\ p + q - 2 * (p * q) \in 0 .. 1
                           /\ ((p * q = 1) <=> p = 1 /\ q = 1)
                           /\ ((p + q - p * q = 1) <=> p = 1 \/ q = 1)
                           /\ ((p + q - 2 * (p * q) = 1) <=> (p = 1 \/ q = 1) /\ ~(p = 1 /\ q = 1))
  OBVIOUS
<1>6. \A i \in 0 .. 7 : /\ c[i] \in 0 .. 1 /\ o[i] \in 0 .. 1 /\ x[i] \in 0 .. 1
                        /\ ((c[i] = 1) <=> d[i] = 1 /\ e[i] = 1)
                        /\ ((o[i] = 1) <=> d[i] = 1 \/ e[i] = 1)
                        /\ ((x[i] = 1) <=> (d[i] = 1 \/ e[i] = 1) /\ ~(d[i] = 1 /\ e[i] = 1))
  <2> HIDE DEF d, e, c, o, x
  <2>1. QED
    BY <1>3, <1>5
<1>7. c \in [0 .. 7 -> 0 .. 1] /\ o \in [0 .. 7 -> 0 .. 1] /\ x \in [0 .. 7 -> 0 .. 1]
  BY <1>6
<1> HIDE DEF o, x, c
<1>8. Binary(o) = a + b - Common(a, b) /\ Binary(x) = a + b - 2 * Common(a, b)
  <2> DEFINE zeros == [i \in 0 .. 7 |-> 0]
  <2>1. \A i \in 0 .. 7 : d[i] \in 0 .. 1 /\ e[i] \in 0 .. 1
    BY <1>3
  <2>2. zeros \in [0 .. 7 -> Int] /\ Binary(zeros) = 0 /\ \A i \in 0 .. 7 : zeros[i] = 0
    BY DEF Binary
  <2> HIDE DEF d, e, zeros
  <2>3. \A i \in 0 .. 7 : /\ d[i] \in Int /\ e[i] \in Int /\ c[i] \in Int /\ o[i] \in Int /\ x[i] \in Int
    BY <1>6, <2>1
  <2>4. /\ d \in [0 .. 7 -> Int] /\ e \in [0 .. 7 -> Int] /\ c \in [0 .. 7 -> Int]
        /\ o \in [0 .. 7 -> Int] /\ x \in [0 .. 7 -> Int]
    BY <1>1, <1>7
  <2>5. \A i \in 0 .. 7 : /\ o[i] + c[i] = d[i] + e[i] /\ x[i] + c[i] = o[i] + zeros[i]
    <3>1. SUFFICES ASSUME NEW i \in 0 .. 7 PROVE o[i] + c[i] = d[i] + e[i] /\ x[i] + c[i] = o[i] + zeros[i]
      OBVIOUS
    <3>2. o[i] = d[i] + e[i] - c[i] /\ x[i] = d[i] + e[i] - 2 * c[i]
      BY <1>3
    <3>3. d[i] \in Int /\ e[i] \in Int /\ c[i] \in Int /\ zeros[i] = 0
      BY <2>2, <2>3
    <3>4. QED
      BY <3>2, <3>3
  <2>6. \A i \in 0 .. 7 : /\ o[i] + c[i] <= d[i] + e[i] /\ d[i] + e[i] <= o[i] + c[i]
                          /\ x[i] + c[i] <= o[i] + zeros[i] /\ o[i] + zeros[i] <= x[i] + c[i]
    BY <2>2, <2>3, <2>5
  <2>7. /\ Binary(o) + Binary(c) <= Binary(d) + Binary(e) /\ Binary(d) + Binary(e) <= Binary(o) + Binary(c)
        /\ Binary(x) + Binary(c) <= Binary(o) + Binary(zeros) /\ Binary(o) + Binary(zeros) <= Binary(x) + Binary(c)
    BY <2>2, <2>4, <2>6, BinaryAdds
  <2>8. /\ Binary(o) \in Int /\ Binary(c) \in Int /\ Binary(d) \in Int /\ Binary(e) \in Int /\ Binary(x) \in Int
    BY <2>3, <2>4, BinaryGrows
  <2>9. QED
    BY <1>1, <1>2, <2>2, <2>7, <2>8
<1>9. \A i \in 0 .. 7 : /\ i \in Ones(a) <=> d[i] = 1
                        /\ i \in Ones(b) <=> e[i] = 1
  BY Powers DEF Ones
<1> HIDE DEF d, e
<1>10. \A i \in 0 .. 7 : /\ i \in Ones(Binary(c)) <=> c[i] = 1
                         /\ i \in Ones(Binary(o)) <=> o[i] = 1
                         /\ i \in Ones(Binary(x)) <=> x[i] = 1
  BY <1>7, BinaryBits, Powers DEF Ones
<1>11. \A v : Ones(v) \subseteq 0 .. 7
  BY DEF Ones
<1>12. Ones(Binary(c)) = Ones(a) \cap Ones(b)
  BY <1>6, <1>9, <1>10, <1>11
<1>13. Ones(Binary(o)) = Ones(a) \cup Ones(b)
  BY <1>6, <1>9, <1>10, <1>11
<1>14. Ones(Binary(x)) = (Ones(a) \cup Ones(b)) \ (Ones(a) \cap Ones(b))
  BY <1>6, <1>9, <1>10, <1>11
<1>15. QED
  BY <1>2, <1>8, <1>12, <1>13, <1>14

-------------------------------------------------------------------------------
(* Logic *)

\* AND, OR and XOR on sets of places.
LEMMA Ands ==
  ASSUME FullWidth, NEW s \in Tidy, NEW v \in U8, NEW places, places = Ones(v)
  PROVE  /\ combine_flags_set(s, "A", Moved(v, 0), AND_FLAGS_SRC) = Logic(s, places, TRUE)
         /\ Logic(s, places, TRUE) \in Still(s)
<1> DEFINE z   == places = {}
           up  == Raised(z, FALSE, TRUE, FALSE)
           alu == Moved(v, 0)
<1>1. alu.value = v /\ ((get_flag(alu.flags, "Z") = 1) <=> z)
  <2>1. alu.value = v /\ ((get_flag(alu.flags, "Z") = 1) <=> v = 0)
    BY DEF Moved, set_output, get_flag, FlagNames
  <2>2. QED
    BY <2>1, OnesOfByte
<1>2. Logic(s, places, TRUE) = [Flags(s, z, FALSE, TRUE, FALSE) EXCEPT !.reg["A"] = v]
  <2>1. ByteOfBits(places) = v
    BY OnesOfByte
  <2>2. QED
    BY <2>1 DEF Logic
<1> HIDE DEF alu, z
<1>3. Flags(s, z, FALSE, TRUE, FALSE) = Showing(s, up) /\ up \in SUBSET FlagNames
  BY FlagsShown
<1>4. ("Z" \in up <=> z) /\ "N" \notin up /\ "H" \in up /\ "C" \notin up
  BY DEF Raised, FlagNames
<1> HIDE DEF up
<1>5. /\ flags_src_value(AND_FLAGS_SRC[1], get_flag(s.F, "Z"), get_flag(alu.flags, "Z")) <=> "Z" \in up
      /\ flags_src_value(AND_FLAGS_SRC[2], get_flag(s.F, "N"), get_flag(alu.flags, "N")) <=> "N" \in up
      /\ flags_src_value(AND_FLAGS_SRC[3], get_flag(s.F, "H"), get_flag(alu.flags, "H")) <=> "H" \in up
      /\ flags_src_value(AND_FLAGS_SRC[4], get_flag(s.F, "C"), get_flag(alu.flags, "C")) <=> "C" \in up
  BY <1>1, <1>4 DEF flags_src_value, AND_FLAGS_SRC
<1>6. cpu_combine_alu_flags(s, AND_FLAGS_SRC, alu.flags) = Showing(s, up)
  BY <1>3, <1>5, CombinedShown
<1>7. combine_flags_set(s, "A", alu, AND_FLAGS_SRC) = cpu_reg_set(Showing(s, up), "A", v)
  BY <1>1, <1>6 DEF combine_flags_set
<1>8. cpu_reg_set(Showing(s, up), "A", v) \in Still(s)
  BY <1>3, StillMachines, ShowingStill, RegisterStill
<1>9. QED
  BY <1>2, <1>3, <1>7, <1>8 DEF cpu_reg_set, alu

LEMMA Ors ==
  ASSUME FullWidth, NEW s \in Tidy, NEW v \in U8, NEW places, places = Ones(v)
  PROVE  /\ combine_flags_set(s, "A", Moved(v, 0), OR_FLAGS_SRC) = Logic(s, places, FALSE)
         /\ Logic(s, places, FALSE) \in Still(s)
<1> DEFINE z   == places = {}
           up  == Raised(z, FALSE, FALSE, FALSE)
           alu == Moved(v, 0)
<1>1. alu.value = v /\ ((get_flag(alu.flags, "Z") = 1) <=> z)
  <2>1. alu.value = v /\ ((get_flag(alu.flags, "Z") = 1) <=> v = 0)
    BY DEF Moved, set_output, get_flag, FlagNames
  <2>2. QED
    BY <2>1, OnesOfByte
<1>2. Logic(s, places, FALSE) = [Flags(s, z, FALSE, FALSE, FALSE) EXCEPT !.reg["A"] = v]
  <2>1. ByteOfBits(places) = v
    BY OnesOfByte
  <2>2. QED
    BY <2>1 DEF Logic
<1> HIDE DEF alu, z
<1>3. Flags(s, z, FALSE, FALSE, FALSE) = Showing(s, up) /\ up \in SUBSET FlagNames
  BY FlagsShown
<1>4. ("Z" \in up <=> z) /\ "N" \notin up /\ "H" \notin up /\ "C" \notin up
  BY DEF Raised, FlagNames
<1> HIDE DEF up
<1>5. /\ flags_src_value(OR_FLAGS_SRC[1], get_flag(s.F, "Z"), get_flag(alu.flags, "Z")) <=> "Z" \in up
      /\ flags_src_value(OR_FLAGS_SRC[2], get_flag(s.F, "N"), get_flag(alu.flags, "N")) <=> "N" \in up
      /\ flags_src_value(OR_FLAGS_SRC[3], get_flag(s.F, "H"), get_flag(alu.flags, "H")) <=> "H" \in up
      /\ flags_src_value(OR_FLAGS_SRC[4], get_flag(s.F, "C"), get_flag(alu.flags, "C")) <=> "C" \in up
  BY <1>1, <1>4 DEF flags_src_value, OR_FLAGS_SRC
<1>6. cpu_combine_alu_flags(s, OR_FLAGS_SRC, alu.flags) = Showing(s, up)
  BY <1>3, <1>5, CombinedShown
<1>7. combine_flags_set(s, "A", alu, OR_FLAGS_SRC) = cpu_reg_set(Showing(s, up), "A", v)
  BY <1>1, <1>6 DEF combine_flags_set
<1>8. cpu_reg_set(Showing(s, up), "A", v) \in Still(s)
  BY <1>3, StillMachines, ShowingStill, RegisterStill
<1>9. QED
  BY <1>2, <1>3, <1>7, <1>8 DEF cpu_reg_set, alu

LEMMA LogicAsNamed ==
  ASSUME FullWidth, NEW s \in Tidy, NEW y \in U8
  PROVE  LET a == s.reg["A"]
         IN  /\ combine_flags_set(s, "A", alu_and(a, y), AND_FLAGS_SRC) = Logic(s, Ones(a) \cap Ones(y), TRUE)
             /\ combine_flags_set(s, "A", alu_or(a, y), OR_FLAGS_SRC) = Logic(s, Ones(a) \cup Ones(y), FALSE)
             /\ combine_flags_set(s, "A", alu_xor(a, y), OR_FLAGS_SRC)
                  = Logic(s, (Ones(a) \cup Ones(y)) \ (Ones(a) \cap Ones(y)), FALSE)
             /\ Logic(s, Ones(a) \cap Ones(y), TRUE) \in Still(s)
             /\ Logic(s, Ones(a) \cup Ones(y), FALSE) \in Still(s)
             /\ Logic(s, (Ones(a) \cup Ones(y)) \ (Ones(a) \cap Ones(y)), FALSE) \in Still(s)
<1> DEFINE a == s.reg["A"]
<1>1. a \in U8
  BY AIsByte
<1> HIDE DEF a
<1>2. Common(a, y) \in U8 /\ a + y - Common(a, y) \in U8 /\ a + y - 2 * Common(a, y) \in U8
  BY <1>1, CommonIsByte
<1>3. /\ Ones(Common(a, y)) = Ones(a) \cap Ones(y)
      /\ Ones(a + y - Common(a, y)) = Ones(a) \cup Ones(y)
      /\ Ones(a + y - 2 * Common(a, y)) = (Ones(a) \cup Ones(y)) \ (Ones(a) \cap Ones(y))
  BY <1>1, LogicBits
<1>4. /\ alu_and(a, y) = Moved(Common(a, y), 0)
      /\ alu_or(a, y) = Moved(a + y - Common(a, y), 0)
      /\ alu_xor(a, y) = Moved(a + y - 2 * Common(a, y), 0)
  BY DEF alu_and, alu_or, alu_xor
<1>5. /\ combine_flags_set(s, "A", alu_and(a, y), AND_FLAGS_SRC) = Logic(s, Ones(a) \cap Ones(y), TRUE)
      /\ Logic(s, Ones(a) \cap Ones(y), TRUE) \in Still(s)
  BY <1>2, <1>3, <1>4, Ands
<1>6. /\ combine_flags_set(s, "A", alu_or(a, y), OR_FLAGS_SRC) = Logic(s, Ones(a) \cup Ones(y), FALSE)
      /\ Logic(s, Ones(a) \cup Ones(y), FALSE) \in Still(s)
  BY <1>2, <1>3, <1>4, Ors
<1>7. /\ combine_flags_set(s, "A", alu_xor(a, y), OR_FLAGS_SRC)
           = Logic(s, (Ones(a) \cup Ones(y)) \ (Ones(a) \cap Ones(y)), FALSE)
      /\ Logic(s, (Ones(a) \cup Ones(y)) \ (Ones(a) \cap Ones(y)), FALSE) \in Still(s)
  BY <1>2, <1>3, <1>4, Ors
<1>8. QED
  BY <1>5, <1>6, <1>7 DEF a

\* BIT looks at a bit.
LEMMA Tests ==
  ASSUME FullWidth, NEW s \in Tidy, NEW v \in U8, NEW i \in 0 .. 7
  PROVE  /\ BitTest(s, v, i) = Flags(s, ~Has(v, i), FALSE, TRUE, Up(s, "C"))
         /\ BitTest(s, v, i) \in Still(s)
<1> DEFINE z   == ~Has(v, i)
           q   == Up(s, "C")
           up  == Raised(z, FALSE, TRUE, q)
           src == <<IF bit_get(v, i) = 0 THEN "SET" ELSE "CLEAR", "CLEAR", "SET", "CPU">>
<1>1. /\ (src[1] = "SET" <=> z) /\ src[1] \in {"SET", "CLEAR"}
      /\ src[2] = "CLEAR" /\ src[3] = "SET" /\ src[4] = "CPU"
      /\ ((get_flag(s.F, "C") = 1) <=> q)
  <2>1. bit_get(v, i) \in 0 .. 1
    BY Bit
  <2>2. (bit_get(v, i) # 1) <=> z
    BY Powers
  <2>3. (bit_get(v, i) = 0) <=> z
    BY <2>1, <2>2
  <2>4. QED
    BY <2>3, Kept
<1>2. BitTest(s, v, i) = cpu_combine_alu_flags(s, src, NoFlags)
  BY DEF BitTest
<1> HIDE DEF z, q, src
<1>3. Flags(s, z, FALSE, TRUE, q) = Showing(s, up) /\ up \in SUBSET FlagNames
  BY FlagsShown
<1>4. ("Z" \in up <=> z) /\ "N" \notin up /\ "H" \in up /\ ("C" \in up <=> q)
  BY DEF Raised, FlagNames
<1> HIDE DEF up
<1>5. /\ flags_src_value(src[1], get_flag(s.F, "Z"), get_flag(NoFlags, "Z")) <=> "Z" \in up
      /\ flags_src_value(src[2], get_flag(s.F, "N"), get_flag(NoFlags, "N")) <=> "N" \in up
      /\ flags_src_value(src[3], get_flag(s.F, "H"), get_flag(NoFlags, "H")) <=> "H" \in up
      /\ flags_src_value(src[4], get_flag(s.F, "C"), get_flag(NoFlags, "C")) <=> "C" \in up
  BY <1>1, <1>4 DEF flags_src_value
<1>6. cpu_combine_alu_flags(s, src, NoFlags) = Showing(s, up)
  BY <1>3, <1>5, CombinedShown
<1>7. Showing(s, up) \in Still(s)
  BY <1>3, StillMachines, ShowingStill
<1>8. QED
  BY <1>2, <1>3, <1>6, <1>7 DEF z, q

\* CPL turns every bit of A.
LEMMA Complements ==
  ASSUME FullWidth, NEW s \in Tidy
  PROVE  LET shown == cpu_combine_alu_flags(s, <<"CPU", "SET", "SET", "CPU">>, NoFlags)
             named == [Flags(s, Up(s, "Z"), TRUE, TRUE, Up(s, "C")) EXCEPT !.reg["A"] = 255 - s.reg["A"]]
         IN  [shown EXCEPT !.reg["A"] = Byte - 1 - s.reg["A"]] = named /\ named \in Still(s)
<1> DEFINE z   == Up(s, "Z")
           q   == Up(s, "C")
           up  == Raised(z, TRUE, TRUE, q)
           src == <<"CPU", "SET", "SET", "CPU">>
           v   == 255 - s.reg["A"]
<1>1. /\ src[1] = "CPU" /\ src[2] = "SET" /\ src[3] = "SET" /\ src[4] = "CPU"
      /\ ((get_flag(s.F, "Z") = 1) <=> z) /\ ((get_flag(s.F, "C") = 1) <=> q)
  BY Kept
<1>2. v \in U8 /\ Byte - 1 - s.reg["A"] = v
  <2>1. s.reg["A"] \in U8
    BY AIsByte
  <2>2. QED
    BY <2>1, InByte, Sizes
<1> HIDE DEF z, q, src, v
<1>3. Flags(s, z, TRUE, TRUE, q) = Showing(s, up) /\ up \in SUBSET FlagNames
  BY FlagsShown
<1>4. ("Z" \in up <=> z) /\ "N" \in up /\ "H" \in up /\ ("C" \in up <=> q)
  BY DEF Raised, FlagNames
<1> HIDE DEF up
<1>5. /\ flags_src_value(src[1], get_flag(s.F, "Z"), get_flag(NoFlags, "Z")) <=> "Z" \in up
      /\ flags_src_value(src[2], get_flag(s.F, "N"), get_flag(NoFlags, "N")) <=> "N" \in up
      /\ flags_src_value(src[3], get_flag(s.F, "H"), get_flag(NoFlags, "H")) <=> "H" \in up
      /\ flags_src_value(src[4], get_flag(s.F, "C"), get_flag(NoFlags, "C")) <=> "C" \in up
  BY <1>1, <1>4 DEF flags_src_value
<1>6. cpu_combine_alu_flags(s, src, NoFlags) = Showing(s, up)
  BY <1>3, <1>5, CombinedShown
<1>7. cpu_reg_set(Showing(s, up), "A", v) \in Still(s)
  BY <1>2, <1>3, StillMachines, ShowingStill, RegisterStill
<1>8. QED
  BY <1>2, <1>3, <1>6, <1>7 DEF cpu_reg_set, z, q, v, src

\* SCF sets the carry, CCF turns it.
LEMMA SetsCarry ==
  ASSUME FullWidth, NEW s \in Tidy
  PROVE  /\ cpu_combine_alu_flags(s, <<"CPU", "CLEAR", "CLEAR", "SET">>, NoFlags)
              = Flags(s, Up(s, "Z"), FALSE, FALSE, TRUE)
         /\ Flags(s, Up(s, "Z"), FALSE, FALSE, TRUE) \in Still(s)
<1> DEFINE z   == Up(s, "Z")
           up  == Raised(z, FALSE, FALSE, TRUE)
           src == <<"CPU", "CLEAR", "CLEAR", "SET">>
<1>1. /\ src[1] = "CPU" /\ src[2] = "CLEAR" /\ src[3] = "CLEAR" /\ src[4] = "SET"
      /\ ((get_flag(s.F, "Z") = 1) <=> z)
  BY Kept
<1> HIDE DEF z, src
<1>3. Flags(s, z, FALSE, FALSE, TRUE) = Showing(s, up) /\ up \in SUBSET FlagNames
  BY FlagsShown
<1>4. ("Z" \in up <=> z) /\ "N" \notin up /\ "H" \notin up /\ "C" \in up
  BY DEF Raised, FlagNames
<1> HIDE DEF up
<1>5. /\ flags_src_value(src[1], get_flag(s.F, "Z"), get_flag(NoFlags, "Z")) <=> "Z" \in up
      /\ flags_src_value(src[2], get_flag(s.F, "N"), get_flag(NoFlags, "N")) <=> "N" \in up
      /\ flags_src_value(src[3], get_flag(s.F, "H"), get_flag(NoFlags, "H")) <=> "H" \in up
      /\ flags_src_value(src[4], get_flag(s.F, "C"), get_flag(NoFlags, "C")) <=> "C" \in up
  BY <1>1, <1>4 DEF flags_src_value
<1>6. cpu_combine_alu_flags(s, src, NoFlags) = Showing(s, up)
  BY <1>3, <1>5, CombinedShown
<1>7. Showing(s, up) \in Still(s)
  BY <1>3, StillMachines, ShowingStill
<1>8. QED
  BY <1>3, <1>6, <1>7 DEF z, src

\* SCF and CCF.
LEMMA TurnsCarry ==
  ASSUME FullWidth, NEW s \in Tidy
  PROVE  /\ cpu_combine_alu_flags(s, <<"CPU", "CLEAR", "CLEAR", IF get_flag(s.F, "C") = 0 THEN "SET" ELSE "CLEAR">>,
                                  NoFlags)
              = Flags(s, Up(s, "Z"), FALSE, FALSE, ~Up(s, "C"))
         /\ Flags(s, Up(s, "Z"), FALSE, FALSE, ~Up(s, "C")) \in Still(s)
<1> DEFINE z   == Up(s, "Z")
           q   == ~Up(s, "C")
           up  == Raised(z, FALSE, FALSE, q)
           src == <<"CPU", "CLEAR", "CLEAR", IF get_flag(s.F, "C") = 0 THEN "SET" ELSE "CLEAR">>
<1>1. /\ src[1] = "CPU" /\ src[2] = "CLEAR" /\ src[3] = "CLEAR"
      /\ (src[4] = "SET" <=> q) /\ src[4] \in {"SET", "CLEAR"}
      /\ ((get_flag(s.F, "Z") = 1) <=> z)
  <2>1. get_flag(s.F, "C") \in 0 .. 1
    BY Flag
  <2>2. (get_flag(s.F, "C") = 0) <=> q
    BY <2>1, Kept
  <2>3. QED
    BY <2>2, Kept
<1> HIDE DEF z, q, src
<1>3. Flags(s, z, FALSE, FALSE, q) = Showing(s, up) /\ up \in SUBSET FlagNames
  BY FlagsShown
<1>4. ("Z" \in up <=> z) /\ "N" \notin up /\ "H" \notin up /\ ("C" \in up <=> q)
  BY DEF Raised, FlagNames
<1> HIDE DEF up
<1>5. /\ flags_src_value(src[1], get_flag(s.F, "Z"), get_flag(NoFlags, "Z")) <=> "Z" \in up
      /\ flags_src_value(src[2], get_flag(s.F, "N"), get_flag(NoFlags, "N")) <=> "N" \in up
      /\ flags_src_value(src[3], get_flag(s.F, "H"), get_flag(NoFlags, "H")) <=> "H" \in up
      /\ flags_src_value(src[4], get_flag(s.F, "C"), get_flag(NoFlags, "C")) <=> "C" \in up
  BY <1>1, <1>4 DEF flags_src_value
<1>6. cpu_combine_alu_flags(s, src, NoFlags) = Showing(s, up)
  BY <1>3, <1>5, CombinedShown
<1>7. Showing(s, up) \in Still(s)
  BY <1>3, StillMachines, ShowingStill
<1>8. QED
  BY <1>3, <1>6, <1>7 DEF z, q, src

\* DAA.
LEMMA Adjusts ==
  ASSUME FullWidth, NEW s \in Tidy
  PROVE  /\ combine_flags_set(s, "A", DecimalAdjust(s), DAA_FLAGS_SRC) = Decimal(s)
         /\ Decimal(s) \in Still(s)
<1> DEFINE a     == s.reg["A"]
           units == IF Up(s, "H") \/ (~Up(s, "N") /\ a % 16 \in 10 .. 15) THEN 6 ELSE 0
           tens  == IF Up(s, "C") \/ (~Up(s, "N") /\ a \in 154 .. 255) THEN 96 ELSE 0
           v     == (IF Up(s, "N") THEN a - units - tens ELSE a + units + tens) % 256
           z     == v = 0
           n     == Up(s, "N")
           q     == tens # 0
           up    == Raised(z, n, FALSE, q)
           alu   == DecimalAdjust(s)
<1>1. a \in Int /\ 0 <= a /\ a < 256
  BY AIsByte, InByte
<1>2. Decimal(s) = [Flags(s, z, n, FALSE, q) EXCEPT !.reg["A"] = v]
  BY DEF Decimal
<1> HIDE DEF a
<1>3. /\ alu.value = v /\ v \in U8 /\ ((get_flag(alu.flags, "Z") = 1) <=> z)
      /\ ((get_flag(s.F, "N") = 1) <=> n) /\ ((get_flag(alu.flags, "C") = 1) <=> q)
  <2> DEFINE down   == get_flag(s.F, "N") = 1
             units2 == get_flag(s.F, "H") = 1 \/ (~down /\ a % 16 > 9)
             tens2  == get_flag(s.F, "C") = 1 \/ (~down /\ a > 153)
             by     == (IF units2 THEN 6 ELSE 0) + (IF tens2 THEN 96 ELSE 0)
             v2     == (IF down THEN a - by ELSE a + by) % 256
  <2>1. alu = Moved(v2, IF tens2 THEN 1 ELSE 0)
    BY DEF DecimalAdjust, a
  <2>2. (get_flag(s.F, "N") = 1 <=> Up(s, "N")) /\ (get_flag(s.F, "H") = 1 <=> Up(s, "H"))
        /\ (get_flag(s.F, "C") = 1 <=> Up(s, "C"))
    BY Kept
  <2>3. (a % 16 > 9 <=> a % 16 \in 10 .. 15) /\ (a > 153 <=> a \in 154 .. 255)
    BY <1>1
  <2>4. units = (IF units2 THEN 6 ELSE 0) /\ tens = (IF tens2 THEN 96 ELSE 0) /\ (tens2 <=> q) /\ (down <=> n)
    BY <2>2, <2>3
  <2> HIDE DEF units2, tens2
  <2>5. by = units + tens /\ units \in {0, 6} /\ tens \in {0, 96}
    BY <2>4
  <2> HIDE DEF by, units, tens
  <2>6. a - by = a - units - tens /\ a + by = a + units + tens
    BY <1>1, <2>5
  <2>7. v2 = v
    BY <2>4, <2>6
  <2>8. v \in U8
    BY <1>1, <2>5, InByte
  <2> HIDE DEF v2, down
  <2>9. /\ alu.value = v2 /\ ((get_flag(alu.flags, "Z") = 1) <=> v2 = 0)
        /\ ((get_flag(alu.flags, "C") = 1) <=> (IF tens2 THEN 1 ELSE 0) # 0)
    BY <2>1 DEF Moved, set_output, get_flag, FlagNames
  <2>10. (get_flag(s.F, "N") = 1) <=> n
    BY <2>2
  <2>11. QED
    BY <2>4, <2>7, <2>8, <2>9, <2>10
<1> HIDE DEF alu, z, n, q, v
<1>4. Flags(s, z, n, FALSE, q) = Showing(s, up) /\ up \in SUBSET FlagNames
  BY FlagsShown
<1>5. ("Z" \in up <=> z) /\ ("N" \in up <=> n) /\ "H" \notin up /\ ("C" \in up <=> q)
  BY DEF Raised, FlagNames
<1> HIDE DEF up
<1>6. /\ flags_src_value(DAA_FLAGS_SRC[1], get_flag(s.F, "Z"), get_flag(alu.flags, "Z")) <=> "Z" \in up
      /\ flags_src_value(DAA_FLAGS_SRC[2], get_flag(s.F, "N"), get_flag(alu.flags, "N")) <=> "N" \in up
      /\ flags_src_value(DAA_FLAGS_SRC[3], get_flag(s.F, "H"), get_flag(alu.flags, "H")) <=> "H" \in up
      /\ flags_src_value(DAA_FLAGS_SRC[4], get_flag(s.F, "C"), get_flag(alu.flags, "C")) <=> "C" \in up
  BY <1>3, <1>5 DEF flags_src_value, DAA_FLAGS_SRC
<1>7. cpu_combine_alu_flags(s, DAA_FLAGS_SRC, alu.flags) = Showing(s, up)
  BY <1>4, <1>6, CombinedShown
<1>8. combine_flags_set(s, "A", alu, DAA_FLAGS_SRC) = cpu_reg_set(Showing(s, up), "A", v)
  BY <1>3, <1>7 DEF combine_flags_set
<1>9. cpu_reg_set(Showing(s, up), "A", v) \in Still(s)
  BY <1>3, <1>4, StillMachines, ShowingStill, RegisterStill
<1>10. QED
  BY <1>2, <1>4, <1>8, <1>9 DEF cpu_reg_set, alu

-------------------------------------------------------------------------------
(* One bit of a byte *)

LEMMA BinaryEqual ==
  ASSUME NEW f \in [0 .. 7 -> Int], NEW g \in [0 .. 7 -> Int], NEW h \in [0 .. 7 -> Int], NEW k \in [0 .. 7 -> Int],
         \A i \in 0 .. 7 : f[i] + g[i] = h[i] + k[i]
  PROVE  Binary(f) + Binary(g) = Binary(h) + Binary(k) /\ Binary(f) \in Int /\ Binary(g) \in Int
<1>1. \A i \in 0 .. 7 : /\ f[i] \in Int /\ g[i] \in Int /\ h[i] \in Int /\ k[i] \in Int
  OBVIOUS
<1>2. \A i \in 0 .. 7 : f[i] + g[i] <= h[i] + k[i] /\ h[i] + k[i] <= f[i] + g[i]
  BY <1>1
<1>3. Binary(f) + Binary(g) <= Binary(h) + Binary(k) /\ Binary(h) + Binary(k) <= Binary(f) + Binary(g)
  BY <1>2, BinaryAdds
<1>4. Binary(f) \in Int /\ Binary(g) \in Int /\ Binary(h) \in Int /\ Binary(k) \in Int
  BY <1>1, BinaryGrows
<1>5. QED
  BY <1>3, <1>4

LEMMA UnitBit ==
  ASSUME NEW i \in 0 .. 7
  PROVE  Binary([j \in 0 .. 7 |-> IF j = i THEN 1 ELSE 0]) = Power(i)
<1> DEFINE u == [j \in 0 .. 7 |-> IF j = i THEN 1 ELSE 0]
<1>1. i = 0 \/ i = 1 \/ i = 2 \/ i = 3 \/ i = 4 \/ i = 5 \/ i = 6 \/ i = 7
  OBVIOUS
<1>2. /\ Power(0) = 1 /\ Power(1) = 2 /\ Power(2) = 4 /\ Power(3) = 8 /\ Power(4) = 16 /\ Power(5) = 32
      /\ Power(6) = 64 /\ Power(7) = 128
  BY DEF Power
<1>3. /\ u[0] = (IF i = 0 THEN 1 ELSE 0) /\ u[1] = (IF i = 1 THEN 1 ELSE 0) /\ u[2] = (IF i = 2 THEN 1 ELSE 0)
      /\ u[3] = (IF i = 3 THEN 1 ELSE 0) /\ u[4] = (IF i = 4 THEN 1 ELSE 0) /\ u[5] = (IF i = 5 THEN 1 ELSE 0)
      /\ u[6] = (IF i = 6 THEN 1 ELSE 0) /\ u[7] = (IF i = 7 THEN 1 ELSE 0)
  OBVIOUS
<1> HIDE DEF u
<1>4. Binary(u) = Power(i)
  BY <1>1, <1>2, <1>3 DEF Binary
<1>5. QED
  BY <1>4 DEF u

\* SET and RES on sets of places.
LEMMA ChangedBits ==
  ASSUME FullWidth, NEW v \in U8, NEW i \in 0 .. 7
  PROVE  /\ Ones(bit_set(v, i)) = Ones(v) \cup {i}
         /\ Ones(bit_unset(v, i)) = Ones(v) \ {i}
<1> DEFINE f == [j \in 0 .. 7 |-> bit_get(v, j)]
           u == [j \in 0 .. 7 |-> IF j = i THEN 1 ELSE 0]
           zeros == [j \in 0 .. 7 |-> 0]
           up == [j \in 0 .. 7 |-> IF j = i THEN 1 ELSE f[j]]
           down == [j \in 0 .. 7 |-> IF j = i THEN 0 ELSE f[j]]
<1>1. f \in [0 .. 7 -> 0 .. 1] /\ v = Binary(f)
  BY BitsOfByte DEF Binary
<1>2. \A j \in 0 .. 7 : f[j] \in 0 .. 1 /\ f[j] = bit_get(v, j)
  BY BitsOfByte
<1> HIDE DEF f
<1>3. /\ \A j \in 0 .. 7 : up[j] = (IF j = i THEN 1 ELSE f[j]) /\ down[j] = (IF j = i THEN 0 ELSE f[j])
      /\ \A j \in 0 .. 7 : u[j] = (IF j = i THEN 1 ELSE 0) /\ zeros[j] = 0
      /\ up \in [0 .. 7 -> 0 .. 1] /\ down \in [0 .. 7 -> 0 .. 1]
      /\ u \in [0 .. 7 -> 0 .. 1] /\ zeros \in [0 .. 7 -> 0 .. 1]
  BY <1>1, <1>2
<1>4. Binary(u) = Power(i) /\ Binary(zeros) = 0
  BY UnitBit DEF Binary
<1> HIDE DEF u, zeros, up, down
<1>5. Power(i) \in Int
  BY DEF Power
<1>6. /\ up \in [0 .. 7 -> Int] /\ down \in [0 .. 7 -> Int] /\ u \in [0 .. 7 -> Int]
      /\ zeros \in [0 .. 7 -> Int] /\ f \in [0 .. 7 -> Int]
  BY <1>1, <1>3
<1>7. bit_set(v, i) = Binary(up)
  <2>1. CASE f[i] = 1
    <3>1. \A j \in 0 .. 7 : up[j] + zeros[j] = f[j] + zeros[j]
      BY <1>2, <1>3, <2>1
    <3>2. Binary(up) + 0 = Binary(f) + 0 /\ Binary(up) \in Int
      <4>1. Binary(up) + Binary(zeros) = Binary(f) + Binary(zeros) /\ Binary(up) \in Int /\ Binary(zeros) \in Int
        BY <1>6, <3>1, BinaryEqual
      <4>2. QED
        BY <1>4, <4>1
    <3>3. v \in Int
      BY InByte
    <3>4. bit_set(v, i) = v
      BY <1>2, <2>1 DEF bit_set
    <3>5. QED
      BY <1>1, <3>2, <3>3, <3>4
  <2>2. CASE f[i] = 0
    <3>1. \A j \in 0 .. 7 : up[j] + zeros[j] = f[j] + u[j]
      BY <1>2, <1>3, <2>2
    <3>2. Binary(up) + 0 = Binary(f) + Power(i) /\ Binary(up) \in Int
      <4>1. Binary(up) + Binary(zeros) = Binary(f) + Binary(u) /\ Binary(up) \in Int /\ Binary(zeros) \in Int
        BY <1>6, <3>1, BinaryEqual
      <4>2. QED
        BY <1>4, <4>1
    <3>3. bit_set(v, i) = v + Power(i)
      BY <1>2, <2>2 DEF bit_set
    <3>4. QED
      BY <1>1, <3>2, <3>3
  <2>3. QED
    BY <1>2, <2>1, <2>2
<1>8. bit_unset(v, i) = Binary(down)
  <2>1. CASE f[i] = 0
    <3>1. \A j \in 0 .. 7 : down[j] + zeros[j] = f[j] + zeros[j]
      BY <1>2, <1>3, <2>1
    <3>2. Binary(down) + 0 = Binary(f) + 0 /\ Binary(down) \in Int
      <4>1. Binary(down) + Binary(zeros) = Binary(f) + Binary(zeros) /\ Binary(down) \in Int /\ Binary(zeros) \in Int
        BY <1>6, <3>1, BinaryEqual
      <4>2. QED
        BY <1>4, <4>1
    <3>3. v \in Int
      BY InByte
    <3>4. bit_unset(v, i) = v
      BY <1>2, <2>1 DEF bit_unset
    <3>5. QED
      BY <1>1, <3>2, <3>3, <3>4
  <2>2. CASE f[i] = 1
    <3>1. \A j \in 0 .. 7 : down[j] + u[j] = f[j] + zeros[j]
      BY <1>2, <1>3, <2>2
    <3>2. Binary(down) + Power(i) = Binary(f) + 0 /\ Binary(down) \in Int
      <4>1. Binary(down) + Binary(u) = Binary(f) + Binary(zeros) /\ Binary(down) \in Int /\ Binary(u) \in Int
        BY <1>6, <3>1, BinaryEqual
      <4>2. QED
        BY <1>4, <4>1
    <3>3. v \in Int
      BY InByte
    <3>4. bit_unset(v, i) = v - Power(i)
      BY <1>2, <2>2 DEF bit_unset
    <3>5. QED
      BY <1>1, <1>5, <3>2, <3>3, <3>4
  <2>3. QED
    BY <1>2, <2>1, <2>2
<1>9. \A j \in 0 .. 7 : /\ j \in Ones(Binary(up)) <=> up[j] = 1
                        /\ j \in Ones(Binary(down)) <=> down[j] = 1
                        /\ j \in Ones(v) <=> f[j] = 1
  BY <1>2, <1>3, BinaryBits, Powers DEF Ones
<1>10. \A w : Ones(w) \subseteq 0 .. 7
  BY DEF Ones
<1>11. Ones(Binary(up)) = Ones(v) \cup {i}
  BY <1>3, <1>9, <1>10
<1>12. Ones(Binary(down)) = Ones(v) \ {i}
  BY <1>3, <1>9, <1>10
<1>13. QED
  BY <1>7, <1>8, <1>11, <1>12

\* SET and RES.
LEMMA Changes ==
  ASSUME FullWidth, NEW s \in Tidy, NEW row, NEW x, Takes(row, x), x # "N8", NEW i \in 0 .. 7
  PROVE  /\ Back(s, row, do_set_or_res(Get8(s, x), i, 1)) = Keep8(s, x, ByteOfBits(Ones(Get8(s, x)) \cup {i}))
         /\ Back(s, row, do_set_or_res(Get8(s, x), i, 0)) = Keep8(s, x, ByteOfBits(Ones(Get8(s, x)) \ {i}))
         /\ Keep8(s, x, ByteOfBits(Ones(Get8(s, x)) \cup {i})) \in Still(s)
         /\ Keep8(s, x, ByteOfBits(Ones(Get8(s, x)) \ {i})) \in Still(s)
<1> DEFINE v == Get8(s, x)
<1>1. v \in U8
  BY TakenOperand
<1> HIDE DEF v
<1>2. bit_set(v, i) \in U8 /\ bit_unset(v, i) \in U8
  BY <1>1, EditedBits
<1>3. ByteOfBits(Ones(v) \cup {i}) = bit_set(v, i) /\ ByteOfBits(Ones(v) \ {i}) = bit_unset(v, i)
  BY <1>1, <1>2, ChangedBits, OnesOfByte
<1>4. do_set_or_res(v, i, 1) = bit_set(v, i) /\ do_set_or_res(v, i, 0) = bit_unset(v, i)
  BY DEF do_set_or_res
<1>5. s \in Still(s)
  BY StillMachines
<1>6. /\ Back(s, row, bit_set(v, i)) = Keep8(s, x, bit_set(v, i)) /\ Keep8(s, x, bit_set(v, i)) \in Still(s)
      /\ Back(s, row, bit_unset(v, i)) = Keep8(s, x, bit_unset(v, i)) /\ Keep8(s, x, bit_unset(v, i)) \in Still(s)
  BY <1>2, <1>5, KeptInPlace
<1>7. QED
  BY <1>3, <1>4, <1>6 DEF v

-------------------------------------------------------------------------------
(* Rows that do what they are called *)

\* Executing the row is doing what its name says.
Done(s, row) == Executed(s, row) = Does(s, row.name) /\ Executed(s, row) \in Ended(s)

\* An instruction is done as named once both sides are the same machine.
LEMMA DoneStill ==
  ASSUME NEW s, NEW row, NEW t, Executed(s, row) = t, Does(s, row.name) = t, t \in Still(s)
  PROVE  Done(s, row)
BY DEF Done, Ended

\* ADD, ADC, SUB, SBC and CP: the carry takes part where bit 3 of the opcode is set.
LEMMA CarryTakesPart ==
  ASSUME NEW s \in Tidy, NEW op
  PROVE  /\ bit(op, 3) = 1 => extract_carry(s, op) = Carry(s)
         /\ bit(op, 3) = 0 => extract_carry(s, op) = 0
         /\ Carry(s) \in 0 .. 1 /\ 0 \in 0 .. 1
BY CarryRead DEF extract_carry

\* The two functions cpu_dispatch calls for most of the rows.
LEMMA ByFamily ==
  ASSUME NEW s, NEW row
  PROVE  /\ row.family[1] \in AluFamilies => Executed(s, row) = cpu_dispatch_alu(s, row)
         /\ row.family[1] \in StorageFamilies => Executed(s, row) = cpu_dispatch_storage(s, row)
<1>1. row.family[1] \in AluFamilies => Executed(s, row) = cpu_dispatch_alu(s, row)
  BY DEF Executed, AluFamilies, StorageFamilies
<1>2. row.family[1] \in StorageFamilies => Executed(s, row) = cpu_dispatch_storage(s, row)
  BY DEF Executed, AluFamilies, StorageFamilies
<1>3. QED
  BY <1>1, <1>2

\* The families of cpu_dispatch_alu one by one: what is executed is what the name says.
LEMMA AddsAsNamed ==
  ASSUME FullWidth, NEW s \in Tidy, NEW row, NEW x, Takes(row, x), row.family[1] = "ADD_A",
         \/ row.name = <<"ADD", "A", x>> /\ bit(row.opcode, 3) = 0
         \/ row.name = <<"ADC", "A", x>> /\ bit(row.opcode, 3) = 1
  PROVE  Done(s, row)
<1> DEFINE y == Get8(s, x)
           c == extract_carry(s, row.opcode)
<1>1. Operand(s, row) = y /\ y \in U8
  BY TakenOperand
<1>2. Executed(s, row) = combine_flags_set(s, "A", alu_add8(s.reg["A"], y, c), ADD_FLAGS_SRC)
  <2>1. row.family[1] \in AluFamilies
    BY DEF AluFamilies
  <2>2. cpu_dispatch_alu(s, row) = combine_flags_set(s, "A", alu_add8(s.reg["A"], Operand(s, row), c), ADD_FLAGS_SRC)
    BY DEF cpu_dispatch_alu
  <2>3. QED
    BY <1>1, <2>1, <2>2, ByFamily
<1>3. c \in 0 .. 1
  BY CarryTakesPart, Flag DEF extract_carry
<1>4. Does(s, row.name) = Add(s, y, c)
  <2>1. CASE row.name = <<"ADD", "A", x>> /\ bit(row.opcode, 3) = 0
    <3>1. c = 0
      BY <2>1, CarryTakesPart
    <3>2. Does(s, row.name) = Add(s, y, 0)
      BY <2>1 DEF Does
    <3>3. QED
      BY <3>1, <3>2
  <2>2. CASE row.name = <<"ADC", "A", x>> /\ bit(row.opcode, 3) = 1
    <3>1. c = Carry(s)
      BY <2>2, CarryTakesPart
    <3>2. Does(s, row.name) = Add(s, y, Carry(s))
      BY <2>2 DEF Does
    <3>3. QED
      BY <3>1, <3>2
  <2>3. QED
    BY <2>1, <2>2
<1> HIDE DEF y, c
<1>5. QED
  BY <1>1, <1>2, <1>3, <1>4, AddsUp, DoneStill

LEMMA SubtractsAsNamed ==
  ASSUME FullWidth, NEW s \in Tidy, NEW row, NEW x, Takes(row, x), row.family[1] = "SUB_A",
         \/ row.name = <<"SUB", "A", x>> /\ bit(row.opcode, 3) = 0
         \/ row.name = <<"SBC", "A", x>> /\ bit(row.opcode, 3) = 1
  PROVE  Done(s, row)
<1> DEFINE y == Get8(s, x)
           c == extract_carry(s, row.opcode)
<1>1. Operand(s, row) = y /\ y \in U8
  BY TakenOperand
<1>2. Executed(s, row) = combine_flags_set(s, "A", alu_sub8(s.reg["A"], y, c), SUB_FLAGS_SRC)
  <2>1. row.family[1] \in AluFamilies
    BY DEF AluFamilies
  <2>2. cpu_dispatch_alu(s, row) = combine_flags_set(s, "A", alu_sub8(s.reg["A"], Operand(s, row), c), SUB_FLAGS_SRC)
    BY DEF cpu_dispatch_alu, cpu_dispatch_alu_ext
  <2>3. QED
    BY <1>1, <2>1, <2>2, ByFamily
<1>3. c \in 0 .. 1
  BY CarryTakesPart, Flag DEF extract_carry
<1>4. Does(s, row.name) = Subtract(s, y, c)
  <2>1. CASE row.name = <<"SUB", "A", x>> /\ bit(row.opcode, 3) = 0
    <3>1. c = 0
      BY <2>1, CarryTakesPart
    <3>2. Does(s, row.name) = Subtract(s, y, 0)
      BY <2>1 DEF Does
    <3>3. QED
      BY <3>1, <3>2
  <2>2. CASE row.name = <<"SBC", "A", x>> /\ bit(row.opcode, 3) = 1
    <3>1. c = Carry(s)
      BY <2>2, CarryTakesPart
    <3>2. Does(s, row.name) = Subtract(s, y, Carry(s))
      BY <2>2 DEF Does
    <3>3. QED
      BY <3>1, <3>2
  <2>3. QED
    BY <2>1, <2>2
<1> HIDE DEF y, c
<1>5. QED
  BY <1>1, <1>2, <1>3, <1>4, Subtracts, DoneStill

LEMMA ComparesAsNamed ==
  ASSUME FullWidth, NEW s \in Tidy, NEW row, NEW x, Takes(row, x), row.family[1] = "CP_A",
         row.name = <<"CP", "A", x>>
  PROVE  Done(s, row)
<1> DEFINE y == Get8(s, x)
<1>1. Operand(s, row) = y /\ y \in U8 /\ 0 \in 0 .. 1
  BY TakenOperand
<1>2. Executed(s, row) = cpu_combine_alu_flags(s, SUB_FLAGS_SRC, alu_sub8(s.reg["A"], y, 0).flags)
  <2>1. row.family[1] \in AluFamilies
    BY DEF AluFamilies
  <2>2. cpu_dispatch_alu(s, row) = cpu_combine_alu_flags(s, SUB_FLAGS_SRC, alu_sub8(s.reg["A"], Operand(s, row), 0).flags)
    BY DEF cpu_dispatch_alu, cpu_dispatch_alu_ext
  <2>3. QED
    BY <1>1, <2>1, <2>2, ByFamily
<1>3. Does(s, row.name) = Compare(s, y, 0)
  BY DEF Does
<1> HIDE DEF y
<1>4. QED
  BY <1>1, <1>2, <1>3, Compares, DoneStill

\* AND, OR and XOR, bit by bit.
LEMMA CombinesAsNamed ==
  ASSUME FullWidth, NEW s \in Tidy, NEW row, NEW x, Takes(row, x),
         \/ row.name = <<"AND", "A", x>> /\ row.family[1] = "AND_A"
         \/ row.name = <<"OR", "A", x>> /\ row.family[1] = "OR_A"
         \/ row.name = <<"XOR", "A", x>> /\ row.family[1] = "XOR_A"
  PROVE  Done(s, row)
<1> DEFINE y      == Get8(s, x)
           a      == s.reg["A"]
           both   == Logic(s, Ones(a) \cap Ones(y), TRUE)
           either == Logic(s, Ones(a) \cup Ones(y), FALSE)
           one    == Logic(s, (Ones(a) \cup Ones(y)) \ (Ones(a) \cap Ones(y)), FALSE)
<1>1. Operand(s, row) = y /\ y \in U8
  BY TakenOperand
<1>2. Executed(s, row) = cpu_dispatch_alu(s, row)
  BY ByFamily DEF AluFamilies
<1>3. /\ row.family[1] = "AND_A" =>
            cpu_dispatch_alu(s, row) = combine_flags_set(s, "A", alu_and(a, Operand(s, row)), AND_FLAGS_SRC)
      /\ row.family[1] = "OR_A" =>
            cpu_dispatch_alu(s, row) = combine_flags_set(s, "A", alu_or(a, Operand(s, row)), OR_FLAGS_SRC)
      /\ row.family[1] = "XOR_A" =>
            cpu_dispatch_alu(s, row) = combine_flags_set(s, "A", alu_xor(a, Operand(s, row)), OR_FLAGS_SRC)
  BY DEF cpu_dispatch_alu, cpu_dispatch_alu_ext
<1>4. /\ row.name = <<"AND", "A", x>> => Does(s, row.name) = both
      /\ row.name = <<"OR", "A", x>> => Does(s, row.name) = either
      /\ row.name = <<"XOR", "A", x>> => Does(s, row.name) = one
  <2>1. row.name = <<"AND", "A", x>> => Does(s, row.name) = both
    BY DEF Does
  <2>2. row.name = <<"OR", "A", x>> => Does(s, row.name) = either
    BY DEF Does
  <2>3. row.name = <<"XOR", "A", x>> => Does(s, row.name) = one
    BY DEF Does
  <2>4. QED
    BY <2>1, <2>2, <2>3
<1>5. /\ combine_flags_set(s, "A", alu_and(a, y), AND_FLAGS_SRC) = both
      /\ combine_flags_set(s, "A", alu_or(a, y), OR_FLAGS_SRC) = either
      /\ combine_flags_set(s, "A", alu_xor(a, y), OR_FLAGS_SRC) = one
      /\ both \in Still(s) /\ either \in Still(s) /\ one \in Still(s)
  <2> HIDE DEF y
  <2>1. QED
    BY <1>1, LogicAsNamed
<1> HIDE DEF y, a, both, either, one
<1>6. QED
  BY <1>1, <1>2, <1>3, <1>4, <1>5, DoneStill

LEMMA CountsAsNamed ==
  ASSUME FullWidth, NEW s \in Tidy, NEW row, NEW x, Takes(row, x), row.family[2] \in {"R8", "HLR"},
         \/ row.name = <<"INC", x, "-">> /\ row.family[1] = "INC"
         \/ row.name = <<"DEC", x, "-">> /\ row.family[1] = "DEC"
  PROVE  Done(s, row)
<1>1. Operand(s, row) = Get8(s, x)
  BY TakenOperand
<1>2. Executed(s, row) = cpu_dispatch_alu(s, row)
  BY ByFamily DEF AluFamilies
<1>3. x \notin Wide16 /\ x # "N8"
  BY DEF Takes, Wide16, R8s
<1>4. CASE row.name = <<"INC", x, "-">> /\ row.family[1] = "INC"
  <2>1. cpu_dispatch_alu(s, row) = InPlace(s, row, alu_add8(Operand(s, row), 1, 0), INC_FLAGS_SRC)
    BY <1>4 DEF cpu_dispatch_alu
  <2>2. Does(s, row.name) = Step8(s, x, 1)
    BY <1>3, <1>4 DEF Does
  <2>3. QED
    BY <1>1, <1>2, <1>3, <2>1, <2>2, CountsUp, DoneStill
<1>5. CASE row.name = <<"DEC", x, "-">> /\ row.family[1] = "DEC"
  <2>1. cpu_dispatch_alu(s, row) = InPlace(s, row, alu_sub8(Operand(s, row), 1, 0), DEC_FLAGS_SRC)
    BY <1>5 DEF cpu_dispatch_alu, cpu_dispatch_alu_ext
  <2>2. Does(s, row.name) = Step8(s, x, -1)
    BY <1>3, <1>5 DEF Does
  <2>3. QED
    BY <1>1, <1>2, <1>3, <2>1, <2>2, CountsDown, DoneStill
<1>6. QED
  BY <1>4, <1>5

\* A flag is up under either of two conditions that say the same.
LEMMA SameFlag ==
  ASSUME NEW s, NEW z, NEW n, NEW h, NEW p, NEW q, p <=> q
  PROVE  Flags(s, z, n, h, p) = Flags(s, z, n, h, q)
<1>1. Raised(z, n, h, p) = Raised(z, n, h, q)
  BY DEF Raised
<1>2. QED
  BY <1>1, FlagsShown

LEMMA SameTurn ==
  ASSUME NEW s, NEW x, NEW v, NEW p, NEW q, p <=> q
  PROVE  Turn(s, x, v, p) = Turn(s, x, v, q) /\ TurnA(s, v, p) = TurnA(s, v, q)
<1> DEFINE z == v = 0
<1>1. Turn(s, x, v, p) = Keep8(Flags(s, z, FALSE, FALSE, p), x, v)
  BY DEF Turn
<1>2. Turn(s, x, v, q) = Keep8(Flags(s, z, FALSE, FALSE, q), x, v)
  BY DEF Turn
<1>3. TurnA(s, v, p) = Keep8(Flags(s, FALSE, FALSE, FALSE, p), "A", v)
  BY DEF TurnA
<1>4. TurnA(s, v, q) = Keep8(Flags(s, FALSE, FALSE, FALSE, q), "A", v)
  BY DEF TurnA
<1> HIDE DEF z
<1>5. Flags(s, z, FALSE, FALSE, p) = Flags(s, z, FALSE, FALSE, q)
  BY SameFlag
<1>6. Flags(s, FALSE, FALSE, FALSE, p) = Flags(s, FALSE, FALSE, FALSE, q)
  BY SameFlag
<1>7. QED
  BY <1>1, <1>2, <1>3, <1>4, <1>5, <1>6

\* A shift or a rotation, of any operand or of A alone, by the byte and the carry it gives.
LEMMA TurnsInPlace ==
  ASSUME FullWidth, NEW s \in Tidy, NEW row, NEW x, Takes(row, x), x # "N8",
         NEW v \in U8, NEW c, NEW p, (c # 0) <=> p
  PROVE  InPlace(s, row, Moved(v, c), SHIFT_FLAGS_SRC) = Turn(s, x, v, p) /\ Turn(s, x, v, p) \in Still(s)
<1> DEFINE q == c # 0
<1>1. InPlace(s, row, Moved(v, c), SHIFT_FLAGS_SRC) = Turn(s, x, v, q) /\ Turn(s, x, v, q) \in Still(s)
  BY Turned
<1>2. q <=> p
  OBVIOUS
<1> HIDE DEF q
<1>3. Turn(s, x, v, q) = Turn(s, x, v, p)
  BY <1>2, SameTurn
<1>4. QED
  BY <1>1, <1>3

LEMMA TurnsInA ==
  ASSUME FullWidth, NEW s \in Tidy, NEW v \in U8, NEW c, NEW p, (c # 0) <=> p
  PROVE  combine_flags_set(s, "A", Moved(v, c), ROT_FLAGS_SRC) = TurnA(s, v, p) /\ TurnA(s, v, p) \in Still(s)
<1> DEFINE q == c # 0
<1>1. combine_flags_set(s, "A", Moved(v, c), ROT_FLAGS_SRC) = TurnA(s, v, q) /\ TurnA(s, v, q) \in Still(s)
  BY TurnedInA
<1>2. q <=> p
  OBVIOUS
<1> HIDE DEF q
<1>3. TurnA(s, v, q) = TurnA(s, v, p)
  BY <1>2, SameTurn
<1>4. QED
  BY <1>1, <1>3

\* The bytes that the moves of a byte give.
LEMMA TurnedBytes ==
  ASSUME FullWidth, NEW b \in U8, NEW c \in 0 .. 1
  PROVE  /\ ((2 * b) % 256) + b \div 128 \in U8 /\ b \div 2 + 128 * (b % 2) \in U8
         /\ (2 * b + c) % 256 \in U8 /\ (256 * c + b) \div 2 \in U8
         /\ (2 * b) % 256 \in U8 /\ b \div 2 \in U8
         /\ b \div 2 + (IF b > 127 THEN 128 ELSE 0) \in U8
         /\ 16 * (b % 16) + b \div 16 \in U8
BY InByte

LEMMA SLAAsNamed ==
  ASSUME FullWidth, NEW s \in Tidy, NEW row, NEW x, Takes(row, x), row.family[2] \in {"R8", "HLR"},
         row.family[1] = "SLA", row.name = <<"SLA", x, "-">>
  PROVE  Done(s, row)
<1> DEFINE b == Get8(s, x)
           v == (2 * b) % 256
           c == b \div 128
           p == b > 127
           t == Turn(s, x, v, p)
<1>1. Operand(s, row) = b /\ b \in U8 /\ Carry(s) \in 0 .. 1 /\ x # "N8"
  BY TakenOperand, CarryRead, NoRegister DEF Takes
<1>2. Executed(s, row) = InPlace(s, row, alu_shift(Operand(s, row), "LEFT"), SHIFT_FLAGS_SRC)
  <2>1. Executed(s, row) = cpu_dispatch_alu(s, row)
    BY ByFamily DEF AluFamilies
  <2>2. cpu_dispatch_alu(s, row) = InPlace(s, row, alu_shift(Operand(s, row), "LEFT"), SHIFT_FLAGS_SRC)
    BY DEF cpu_dispatch_alu, cpu_dispatch_alu_ext
  <2>3. QED
    BY <2>1, <2>2
<1>3. Does(s, row.name) = t
  BY DEF Does
<1> HIDE DEF b
<1>4. alu_shift(b, "LEFT") = Moved(v, c)
  BY <1>1, ShiftedBytes
<1>5. ((c # 0) <=> p) /\ v \in U8
  <2>1. (c # 0) <=> p
    BY <1>1, EndBits
  <2>2. v \in U8
    BY <1>1, TurnedBytes
  <2>3. QED
    BY <2>1, <2>2
<1> HIDE DEF v, c, p
<1>6. InPlace(s, row, Moved(v, c), SHIFT_FLAGS_SRC) = t /\ t \in Still(s)
  BY <1>1, <1>5, TurnsInPlace
<1> HIDE DEF t
<1>7. QED
  BY <1>1, <1>2, <1>3, <1>4, <1>6, DoneStill

LEMMA SRLAsNamed ==
  ASSUME FullWidth, NEW s \in Tidy, NEW row, NEW x, Takes(row, x), row.family[2] \in {"R8", "HLR"},
         row.family[1] = "SRL", row.name = <<"SRL", x, "-">>
  PROVE  Done(s, row)
<1> DEFINE b == Get8(s, x)
           v == b \div 2
           c == b % 2
           p == b % 2 = 1
           t == Turn(s, x, v, p)
<1>1. Operand(s, row) = b /\ b \in U8 /\ Carry(s) \in 0 .. 1 /\ x # "N8"
  BY TakenOperand, CarryRead, NoRegister DEF Takes
<1>2. Executed(s, row) = InPlace(s, row, alu_shift(Operand(s, row), "RIGHT"), SHIFT_FLAGS_SRC)
  <2>1. Executed(s, row) = cpu_dispatch_alu(s, row)
    BY ByFamily DEF AluFamilies
  <2>2. cpu_dispatch_alu(s, row) = InPlace(s, row, alu_shift(Operand(s, row), "RIGHT"), SHIFT_FLAGS_SRC)
    BY DEF cpu_dispatch_alu, cpu_dispatch_alu_ext
  <2>3. QED
    BY <2>1, <2>2
<1>3. Does(s, row.name) = t
  BY DEF Does
<1> HIDE DEF b
<1>4. alu_shift(b, "RIGHT") = Moved(v, c)
  BY <1>1, ShiftedBytes
<1>5. ((c # 0) <=> p) /\ v \in U8
  <2>1. (c # 0) <=> p
    BY <1>1, EndBits
  <2>2. v \in U8
    BY <1>1, TurnedBytes
  <2>3. QED
    BY <2>1, <2>2
<1> HIDE DEF v, c, p
<1>6. InPlace(s, row, Moved(v, c), SHIFT_FLAGS_SRC) = t /\ t \in Still(s)
  BY <1>1, <1>5, TurnsInPlace
<1> HIDE DEF t
<1>7. QED
  BY <1>1, <1>2, <1>3, <1>4, <1>6, DoneStill

LEMMA SRAAsNamed ==
  ASSUME FullWidth, NEW s \in Tidy, NEW row, NEW x, Takes(row, x), row.family[2] \in {"R8", "HLR"},
         row.family[1] = "SRA", row.name = <<"SRA", x, "-">>
  PROVE  Done(s, row)
<1> DEFINE b == Get8(s, x)
           v == b \div 2 + (IF b > 127 THEN 128 ELSE 0)
           c == b % 2
           p == b % 2 = 1
           t == Turn(s, x, v, p)
<1>1. Operand(s, row) = b /\ b \in U8 /\ Carry(s) \in 0 .. 1 /\ x # "N8"
  BY TakenOperand, CarryRead, NoRegister DEF Takes
<1>2. Executed(s, row) = InPlace(s, row, alu_shiftR_A(Operand(s, row)), SHIFT_FLAGS_SRC)
  <2>1. Executed(s, row) = cpu_dispatch_alu(s, row)
    BY ByFamily DEF AluFamilies
  <2>2. cpu_dispatch_alu(s, row) = InPlace(s, row, alu_shiftR_A(Operand(s, row)), SHIFT_FLAGS_SRC)
    BY DEF cpu_dispatch_alu, cpu_dispatch_alu_ext
  <2>3. QED
    BY <2>1, <2>2
<1>3. Does(s, row.name) = t
  BY DEF Does
<1> HIDE DEF b
<1>4. alu_shiftR_A(b) = Moved(v, c)
  BY <1>1, ShiftedBytes
<1>5. ((c # 0) <=> p) /\ v \in U8
  <2>1. (c # 0) <=> p
    BY <1>1, EndBits
  <2>2. v \in U8
    BY <1>1, TurnedBytes
  <2>3. QED
    BY <2>1, <2>2
<1> HIDE DEF v, c, p
<1>6. InPlace(s, row, Moved(v, c), SHIFT_FLAGS_SRC) = t /\ t \in Still(s)
  BY <1>1, <1>5, TurnsInPlace
<1> HIDE DEF t
<1>7. QED
  BY <1>1, <1>2, <1>3, <1>4, <1>6, DoneStill

LEMMA RLCAsNamed ==
  ASSUME FullWidth, NEW s \in Tidy, NEW row, NEW x, Takes(row, x), row.family[2] \in {"R8", "HLR"},
         row.family[1] = "ROTC", row.name = <<"RLC", x, "-">>, bit(row.opcode, 3) = 0
  PROVE  Done(s, row)
<1> DEFINE b == Get8(s, x)
           v == ((2 * b) % 256) + b \div 128
           c == b \div 128
           p == b > 127
           t == Turn(s, x, v, p)
<1>1. Operand(s, row) = b /\ b \in U8 /\ Carry(s) \in 0 .. 1 /\ x # "N8"
  BY TakenOperand, CarryRead, NoRegister DEF Takes
<1>2. Executed(s, row) = InPlace(s, row, alu_rotate(Operand(s, row), "LEFT"), SHIFT_FLAGS_SRC)
  <2>1. Executed(s, row) = cpu_dispatch_alu(s, row)
    BY ByFamily DEF AluFamilies
  <2>2. cpu_dispatch_alu(s, row) = InPlace(s, row, alu_rotate(Operand(s, row), "LEFT"), SHIFT_FLAGS_SRC)
    BY DEF cpu_dispatch_alu, cpu_dispatch_alu_ext, extract_rot_dir
  <2>3. QED
    BY <2>1, <2>2
<1>3. Does(s, row.name) = t
  BY DEF Does
<1> HIDE DEF b
<1>4. alu_rotate(b, "LEFT") = Moved(v, c)
  BY <1>1, RotatedRound
<1>5. ((c # 0) <=> p) /\ v \in U8
  <2>1. (c # 0) <=> p
    BY <1>1, EndBits
  <2>2. v \in U8
    BY <1>1, TurnedBytes
  <2>3. QED
    BY <2>1, <2>2
<1> HIDE DEF v, c, p
<1>6. InPlace(s, row, Moved(v, c), SHIFT_FLAGS_SRC) = t /\ t \in Still(s)
  BY <1>1, <1>5, TurnsInPlace
<1> HIDE DEF t
<1>7. QED
  BY <1>1, <1>2, <1>3, <1>4, <1>6, DoneStill

LEMMA RRCAsNamed ==
  ASSUME FullWidth, NEW s \in Tidy, NEW row, NEW x, Takes(row, x), row.family[2] \in {"R8", "HLR"},
         row.family[1] = "ROTC", row.name = <<"RRC", x, "-">>, bit(row.opcode, 3) = 1
  PROVE  Done(s, row)
<1> DEFINE b == Get8(s, x)
           v == b \div 2 + 128 * (b % 2)
           c == b % 2
           p == b % 2 = 1
           t == Turn(s, x, v, p)
<1>1. Operand(s, row) = b /\ b \in U8 /\ Carry(s) \in 0 .. 1 /\ x # "N8"
  BY TakenOperand, CarryRead, NoRegister DEF Takes
<1>2. Executed(s, row) = InPlace(s, row, alu_rotate(Operand(s, row), "RIGHT"), SHIFT_FLAGS_SRC)
  <2>1. Executed(s, row) = cpu_dispatch_alu(s, row)
    BY ByFamily DEF AluFamilies
  <2>2. cpu_dispatch_alu(s, row) = InPlace(s, row, alu_rotate(Operand(s, row), "RIGHT"), SHIFT_FLAGS_SRC)
    BY DEF cpu_dispatch_alu, cpu_dispatch_alu_ext, extract_rot_dir
  <2>3. QED
    BY <2>1, <2>2
<1>3. Does(s, row.name) = t
  BY DEF Does
<1> HIDE DEF b
<1>4. alu_rotate(b, "RIGHT") = Moved(v, c)
  BY <1>1, RotatedRound
<1>5. ((c # 0) <=> p) /\ v \in U8
  <2>1. (c # 0) <=> p
    BY <1>1, EndBits
  <2>2. v \in U8
    BY <1>1, TurnedBytes
  <2>3. QED
    BY <2>1, <2>2
<1> HIDE DEF v, c, p
<1>6. InPlace(s, row, Moved(v, c), SHIFT_FLAGS_SRC) = t /\ t \in Still(s)
  BY <1>1, <1>5, TurnsInPlace
<1> HIDE DEF t
<1>7. QED
  BY <1>1, <1>2, <1>3, <1>4, <1>6, DoneStill

LEMMA RLAsNamed ==
  ASSUME FullWidth, NEW s \in Tidy, NEW row, NEW x, Takes(row, x), row.family[2] \in {"R8", "HLR"},
         row.family[1] = "ROT", row.name = <<"RL", x, "-">>, bit(row.opcode, 3) = 0
  PROVE  Done(s, row)
<1> DEFINE b == Get8(s, x)
           v == (2 * b + Carry(s)) % 256
           c == b \div 128
           p == b > 127
           t == Turn(s, x, v, p)
<1>1. Operand(s, row) = b /\ b \in U8 /\ Carry(s) \in 0 .. 1 /\ x # "N8"
  BY TakenOperand, CarryRead, NoRegister DEF Takes
<1>2. Executed(s, row) = InPlace(s, row, alu_carry_rotate(Operand(s, row), "LEFT", s.F), SHIFT_FLAGS_SRC)
  <2>1. Executed(s, row) = cpu_dispatch_alu(s, row)
    BY ByFamily DEF AluFamilies
  <2>2. cpu_dispatch_alu(s, row) = InPlace(s, row, alu_carry_rotate(Operand(s, row), "LEFT", s.F), SHIFT_FLAGS_SRC)
    BY DEF cpu_dispatch_alu, cpu_dispatch_alu_ext, extract_rot_dir
  <2>3. QED
    BY <2>1, <2>2
<1>3. Does(s, row.name) = t
  BY DEF Does
<1> HIDE DEF b
<1>4. alu_carry_rotate(b, "LEFT", s.F) = Moved(v, c)
  BY <1>1, RotatedThrough
<1>5. ((c # 0) <=> p) /\ v \in U8
  <2>1. (c # 0) <=> p
    BY <1>1, EndBits
  <2>2. v \in U8
    BY <1>1, TurnedBytes
  <2>3. QED
    BY <2>1, <2>2
<1> HIDE DEF v, c, p
<1>6. InPlace(s, row, Moved(v, c), SHIFT_FLAGS_SRC) = t /\ t \in Still(s)
  BY <1>1, <1>5, TurnsInPlace
<1> HIDE DEF t
<1>7. QED
  BY <1>1, <1>2, <1>3, <1>4, <1>6, DoneStill

LEMMA RRAsNamed ==
  ASSUME FullWidth, NEW s \in Tidy, NEW row, NEW x, Takes(row, x), row.family[2] \in {"R8", "HLR"},
         row.family[1] = "ROT", row.name = <<"RR", x, "-">>, bit(row.opcode, 3) = 1
  PROVE  Done(s, row)
<1> DEFINE b == Get8(s, x)
           v == (256 * Carry(s) + b) \div 2
           c == b % 2
           p == b % 2 = 1
           t == Turn(s, x, v, p)
<1>1. Operand(s, row) = b /\ b \in U8 /\ Carry(s) \in 0 .. 1 /\ x # "N8"
  BY TakenOperand, CarryRead, NoRegister DEF Takes
<1>2. Executed(s, row) = InPlace(s, row, alu_carry_rotate(Operand(s, row), "RIGHT", s.F), SHIFT_FLAGS_SRC)
  <2>1. Executed(s, row) = cpu_dispatch_alu(s, row)
    BY ByFamily DEF AluFamilies
  <2>2. cpu_dispatch_alu(s, row) = InPlace(s, row, alu_carry_rotate(Operand(s, row), "RIGHT", s.F), SHIFT_FLAGS_SRC)
    BY DEF cpu_dispatch_alu, cpu_dispatch_alu_ext, extract_rot_dir
  <2>3. QED
    BY <2>1, <2>2
<1>3. Does(s, row.name) = t
  BY DEF Does
<1> HIDE DEF b
<1>4. alu_carry_rotate(b, "RIGHT", s.F) = Moved(v, c)
  BY <1>1, RotatedThrough
<1>5. ((c # 0) <=> p) /\ v \in U8
  <2>1. (c # 0) <=> p
    BY <1>1, EndBits
  <2> DEFINE k == Carry(s)
  <2>2. k \in 0 .. 1
    BY <1>1
  <2> HIDE DEF k
  <2>3. (256 * k + b) \div 2 \in U8
    BY <1>1, <2>2, TurnedBytes
  <2>4. QED
    BY <2>1, <2>3 DEF k
<1> HIDE DEF v, c, p
<1>6. InPlace(s, row, Moved(v, c), SHIFT_FLAGS_SRC) = t /\ t \in Still(s)
  BY <1>1, <1>5, TurnsInPlace
<1> HIDE DEF t
<1>7. QED
  BY <1>1, <1>2, <1>3, <1>4, <1>6, DoneStill

LEMMA SWAPAsNamed ==
  ASSUME FullWidth, NEW s \in Tidy, NEW row, NEW x, Takes(row, x), row.family[2] \in {"R8", "HLR"},
         row.family[1] = "SWAP", row.name = <<"SWAP", x, "-">>
  PROVE  Done(s, row)
<1> DEFINE b == Get8(s, x)
           v == 16 * (b % 16) + b \div 16
           t == Turn(s, x, v, FALSE)
<1>1. Operand(s, row) = b /\ b \in U8 /\ 0 \in 0 .. 1 /\ x # "N8"
  BY TakenOperand, NoRegister DEF Takes
<1>2. Executed(s, row) = InPlace(s, row, alu_swap(Operand(s, row)), OR_FLAGS_SRC)
  <2>1. Executed(s, row) = cpu_dispatch_alu(s, row)
    BY ByFamily DEF AluFamilies
  <2>2. cpu_dispatch_alu(s, row) = InPlace(s, row, alu_swap(Operand(s, row)), OR_FLAGS_SRC)
    BY DEF cpu_dispatch_alu, cpu_dispatch_alu_ext
  <2>3. QED
    BY <2>1, <2>2
<1>3. Does(s, row.name) = t
  BY DEF Does
<1> HIDE DEF b
<1>4. alu_swap(b) = Moved(v, 0)
  BY <1>1, ShiftedBytes
<1>5. v \in U8
  BY <1>1, TurnedBytes
<1> HIDE DEF v
<1>6. InPlace(s, row, Moved(v, 0), OR_FLAGS_SRC) = t /\ t \in Still(s)
  BY <1>1, <1>5, Swapped
<1> HIDE DEF t
<1>7. QED
  BY <1>1, <1>2, <1>4, <1>6, <1>3, DoneStill

LEMMA RLCAAsNamed ==
  ASSUME FullWidth, NEW s \in Tidy, NEW row, row.family[1] = "ROTCA", row.name = <<"RLCA", "-", "-">>, bit(row.opcode, 3) = 0
  PROVE  Done(s, row)
<1> DEFINE b == s.reg["A"]
           v == ((2 * b) % 256) + b \div 128
           c == b \div 128
           p == b > 127
           t == TurnA(s, v, p)
<1>1. b \in U8 /\ Carry(s) \in 0 .. 1
  BY AIsByte, CarryRead
<1>2. Executed(s, row) = combine_flags_set(s, "A", alu_rotate(b, "LEFT"), ROT_FLAGS_SRC)
  <2>1. Executed(s, row) = cpu_dispatch_alu(s, row)
    BY ByFamily DEF AluFamilies
  <2>2. cpu_dispatch_alu(s, row) = combine_flags_set(s, "A", alu_rotate(b, "LEFT"), ROT_FLAGS_SRC)
    BY DEF cpu_dispatch_alu, cpu_dispatch_alu_ext, extract_rot_dir
  <2>3. QED
    BY <2>1, <2>2
<1>3. Does(s, row.name) = t
  BY DEF Does
<1> HIDE DEF b
<1>4. alu_rotate(b, "LEFT") = Moved(v, c)
  BY <1>1, RotatedRound
<1>5. ((c # 0) <=> p) /\ v \in U8
  <2>1. (c # 0) <=> p
    BY <1>1, EndBits
  <2>2. v \in U8
    BY <1>1, TurnedBytes
  <2>3. QED
    BY <2>1, <2>2
<1> HIDE DEF v, c, p
<1>6. combine_flags_set(s, "A", Moved(v, c), ROT_FLAGS_SRC) = t /\ t \in Still(s)
  BY <1>5, TurnsInA
<1> HIDE DEF t
<1>7. QED
  BY <1>2, <1>3, <1>4, <1>6, DoneStill

LEMMA RRCAAsNamed ==
  ASSUME FullWidth, NEW s \in Tidy, NEW row, row.family[1] = "ROTCA", row.name = <<"RRCA", "-", "-">>, bit(row.opcode, 3) = 1
  PROVE  Done(s, row)
<1> DEFINE b == s.reg["A"]
           v == b \div 2 + 128 * (b % 2)
           c == b % 2
           p == b % 2 = 1
           t == TurnA(s, v, p)
<1>1. b \in U8 /\ Carry(s) \in 0 .. 1
  BY AIsByte, CarryRead
<1>2. Executed(s, row) = combine_flags_set(s, "A", alu_rotate(b, "RIGHT"), ROT_FLAGS_SRC)
  <2>1. Executed(s, row) = cpu_dispatch_alu(s, row)
    BY ByFamily DEF AluFamilies
  <2>2. cpu_dispatch_alu(s, row) = combine_flags_set(s, "A", alu_rotate(b, "RIGHT"), ROT_FLAGS_SRC)
    BY DEF cpu_dispatch_alu, cpu_dispatch_alu_ext, extract_rot_dir
  <2>3. QED
    BY <2>1, <2>2
<1>3. Does(s, row.name) = t
  BY DEF Does
<1> HIDE DEF b
<1>4. alu_rotate(b, "RIGHT") = Moved(v, c)
  BY <1>1, RotatedRound
<1>5. ((c # 0) <=> p) /\ v \in U8
  <2>1. (c # 0) <=> p
    BY <1>1, EndBits
  <2>2. v \in U8
    BY <1>1, TurnedBytes
  <2>3. QED
    BY <2>1, <2>2
<1> HIDE DEF v, c, p
<1>6. combine_flags_set(s, "A", Moved(v, c), ROT_FLAGS_SRC) = t /\ t \in Still(s)
  BY <1>5, TurnsInA
<1> HIDE DEF t
<1>7. QED
  BY <1>2, <1>3, <1>4, <1>6, DoneStill

LEMMA RLAAsNamed ==
  ASSUME FullWidth, NEW s \in Tidy, NEW row, row.family[1] = "ROTA", row.name = <<"RLA", "-", "-">>, bit(row.opcode, 3) = 0
  PROVE  Done(s, row)
<1> DEFINE b == s.reg["A"]
           v == (2 * b + Carry(s)) % 256
           c == b \div 128
           p == b > 127
           t == TurnA(s, v, p)
<1>1. b \in U8 /\ Carry(s) \in 0 .. 1
  BY AIsByte, CarryRead
<1>2. Executed(s, row) = combine_flags_set(s, "A", alu_carry_rotate(b, "LEFT", s.F), ROT_FLAGS_SRC)
  <2>1. Executed(s, row) = cpu_dispatch_alu(s, row)
    BY ByFamily DEF AluFamilies
  <2>2. cpu_dispatch_alu(s, row) = combine_flags_set(s, "A", alu_carry_rotate(b, "LEFT", s.F), ROT_FLAGS_SRC)
    BY DEF cpu_dispatch_alu, cpu_dispatch_alu_ext, extract_rot_dir
  <2>3. QED
    BY <2>1, <2>2
<1>3. Does(s, row.name) = t
  BY DEF Does
<1> HIDE DEF b
<1>4. alu_carry_rotate(b, "LEFT", s.F) = Moved(v, c)
  BY <1>1, RotatedThrough
<1>5. ((c # 0) <=> p) /\ v \in U8
  <2>1. (c # 0) <=> p
    BY <1>1, EndBits
  <2>2. v \in U8
    BY <1>1, TurnedBytes
  <2>3. QED
    BY <2>1, <2>2
<1> HIDE DEF v, c, p
<1>6. combine_flags_set(s, "A", Moved(v, c), ROT_FLAGS_SRC) = t /\ t \in Still(s)
  BY <1>5, TurnsInA
<1> HIDE DEF t
<1>7. QED
  BY <1>2, <1>3, <1>4, <1>6, DoneStill

LEMMA RRAAsNamed ==
  ASSUME FullWidth, NEW s \in Tidy, NEW row, row.family[1] = "ROTA", row.name = <<"RRA", "-", "-">>, bit(row.opcode, 3) = 1
  PROVE  Done(s, row)
<1> DEFINE b == s.reg["A"]
           v == (256 * Carry(s) + b) \div 2
           c == b % 2
           p == b % 2 = 1
           t == TurnA(s, v, p)
<1>1. b \in U8 /\ Carry(s) \in 0 .. 1
  BY AIsByte, CarryRead
<1>2. Executed(s, row) = combine_flags_set(s, "A", alu_carry_rotate(b, "RIGHT", s.F), ROT_FLAGS_SRC)
  <2>1. Executed(s, row) = cpu_dispatch_alu(s, row)
    BY ByFamily DEF AluFamilies
  <2>2. cpu_dispatch_alu(s, row) = combine_flags_set(s, "A", alu_carry_rotate(b, "RIGHT", s.F), ROT_FLAGS_SRC)
    BY DEF cpu_dispatch_alu, cpu_dispatch_alu_ext, extract_rot_dir
  <2>3. QED
    BY <2>1, <2>2
<1>3. Does(s, row.name) = t
  BY DEF Does
<1> HIDE DEF b
<1>4. alu_carry_rotate(b, "RIGHT", s.F) = Moved(v, c)
  BY <1>1, RotatedThrough
<1>5. ((c # 0) <=> p) /\ v \in U8
  <2>1. (c # 0) <=> p
    BY <1>1, EndBits
  <2> DEFINE k == Carry(s)
  <2>2. k \in 0 .. 1
    BY <1>1
  <2> HIDE DEF k
  <2>3. (256 * k + b) \div 2 \in U8
    BY <1>1, <2>2, TurnedBytes
  <2>4. QED
    BY <2>1, <2>3 DEF k
<1> HIDE DEF v, c, p
<1>6. combine_flags_set(s, "A", Moved(v, c), ROT_FLAGS_SRC) = t /\ t \in Still(s)
  BY <1>5, TurnsInA
<1> HIDE DEF t
<1>7. QED
  BY <1>2, <1>3, <1>4, <1>6, DoneStill

\* BIT, SET and RES: the bit is the digit in the name.
LEMMA TestsAsNamed ==
  ASSUME FullWidth, NEW s \in Tidy, NEW row, NEW x, Takes(row, x), row.family[2] \in {"R8", "HLR"}, NEW d,
         Digit(d) \in 0 .. 7, extract_n3(row.opcode) = Digit(d),
         row.family[1] = "BIT_U3", row.name = <<"BIT", d, x>>
  PROVE  Done(s, row)
<1> DEFINE v == Get8(s, x)
           i == Digit(d)
           t == Flags(s, ~Has(v, i), FALSE, TRUE, Up(s, "C"))
<1>1. Operand(s, row) = v /\ v \in U8
  BY TakenOperand
<1>2. Executed(s, row) = BitTest(s, Operand(s, row), extract_n3(row.opcode))
  <2>1. Executed(s, row) = cpu_dispatch_alu(s, row)
    BY ByFamily DEF AluFamilies
  <2>2. cpu_dispatch_alu(s, row) = BitTest(s, Operand(s, row), extract_n3(row.opcode))
    BY DEF cpu_dispatch_alu, cpu_dispatch_alu_ext
  <2>3. QED
    BY <2>1, <2>2
<1>3. Does(s, row.name) = t
  BY DEF Does
<1> HIDE DEF v, i
<1>4. BitTest(s, v, i) = t /\ BitTest(s, v, i) \in Still(s)
  BY <1>1, Tests DEF i
<1> HIDE DEF t
<1>5. QED
  BY <1>1, <1>2, <1>3, <1>4, DoneStill DEF i

LEMMA ChangesAsNamed ==
  ASSUME FullWidth, NEW s \in Tidy, NEW row, NEW x, Takes(row, x), row.family[2] \in {"R8", "HLR"}, NEW d,
         Digit(d) \in 0 .. 7, extract_n3(row.opcode) = Digit(d), row.family[1] = "CHG_U3",
         \/ row.name = <<"SET", d, x>> /\ extract_sr_bit(row.opcode) = 1
         \/ row.name = <<"RES", d, x>> /\ extract_sr_bit(row.opcode) = 0
  PROVE  Done(s, row)
<1> DEFINE v == Get8(s, x)
           i == Digit(d)
           set == Keep8(s, x, ByteOfBits(Ones(v) \cup {i}))
           res == Keep8(s, x, ByteOfBits(Ones(v) \ {i}))
<1>1. Operand(s, row) = v /\ v \in U8 /\ x # "N8"
  BY TakenOperand, NoRegister DEF Takes
<1>2. Executed(s, row) = Back(s, row, do_set_or_res(Operand(s, row), extract_n3(row.opcode), extract_sr_bit(row.opcode)))
  <2>1. Executed(s, row) = cpu_dispatch_alu(s, row)
    BY ByFamily DEF AluFamilies
  <2>2. cpu_dispatch_alu(s, row)
          = Back(s, row, do_set_or_res(Operand(s, row), extract_n3(row.opcode), extract_sr_bit(row.opcode)))
    BY DEF cpu_dispatch_alu, cpu_dispatch_alu_ext
  <2>3. QED
    BY <2>1, <2>2
<1>3. row.name = <<"SET", d, x>> => Does(s, row.name) = set
  BY DEF Does
<1>4. row.name = <<"RES", d, x>> => Does(s, row.name) = res
  BY DEF Does
<1>5. /\ Back(s, row, do_set_or_res(v, i, 1)) = set
      /\ Back(s, row, do_set_or_res(v, i, 0)) = res
      /\ set \in Still(s)
      /\ res \in Still(s)
  <2> HIDE DEF i
  <2>1. i \in 0 .. 7
    BY DEF i
  <2>2. QED
    BY <1>1, <2>1, Changes
<1> HIDE DEF v, set, res
<1>6. QED
  BY <1>1, <1>2, <1>3, <1>4, <1>5, DoneStill

LEMMA CPLAsNamed ==
  ASSUME FullWidth, NEW s \in Tidy, NEW row, row.family[1] = "CPL", row.name = <<"CPL", "-", "-">>
  PROVE  Done(s, row)
<1> DEFINE shown == cpu_combine_alu_flags(s, <<"CPU", "SET", "SET", "CPU">>, NoFlags)
           t == [Flags(s, Up(s, "Z"), TRUE, TRUE, Up(s, "C")) EXCEPT !.reg["A"] = 255 - s.reg["A"]]
<1>1. Executed(s, row) = [shown EXCEPT !.reg["A"] = Byte - 1 - s.reg["A"]]
  <2>1. Executed(s, row) = cpu_dispatch_alu(s, row)
    BY ByFamily DEF AluFamilies
  <2>2. cpu_dispatch_alu(s, row) = [shown EXCEPT !.reg["A"] = Byte - 1 - s.reg["A"]]
    BY DEF cpu_dispatch_alu, cpu_dispatch_alu_ext
  <2>3. QED
    BY <2>1, <2>2
<1>2. Does(s, row.name) = t
  BY DEF Does
<1>3. [shown EXCEPT !.reg["A"] = Byte - 1 - s.reg["A"]] = t /\ t \in Still(s)
  BY Complements
<1> HIDE DEF shown, t
<1>4. QED
  BY <1>1, <1>2, <1>3, DoneStill

LEMMA DAAAsNamed ==
  ASSUME FullWidth, NEW s \in Tidy, NEW row, row.family[1] = "DAA", row.name = <<"DAA", "-", "-">>
  PROVE  Done(s, row)
<1>1. Executed(s, row) = combine_flags_set(s, "A", DecimalAdjust(s), DAA_FLAGS_SRC)
  <2>1. Executed(s, row) = cpu_dispatch_alu(s, row)
    BY ByFamily DEF AluFamilies
  <2>2. cpu_dispatch_alu(s, row) = combine_flags_set(s, "A", DecimalAdjust(s), DAA_FLAGS_SRC)
    BY DEF cpu_dispatch_alu, cpu_dispatch_alu_ext
  <2>3. QED
    BY <2>1, <2>2
<1>2. Does(s, row.name) = Decimal(s)
  BY DEF Does
<1>3. QED
  BY <1>1, <1>2, Adjusts, DoneStill

LEMMA CarriesAsNamed ==
  ASSUME FullWidth, NEW s \in Tidy, NEW row, row.family[1] = "SCCF",
         \/ row.name = <<"SCF", "-", "-">> /\ bit(row.opcode, 3) = 0
         \/ row.name = <<"CCF", "-", "-">> /\ bit(row.opcode, 3) = 1
  PROVE  Done(s, row)
<1> DEFINE up == Flags(s, Up(s, "Z"), FALSE, FALSE, TRUE)
           turned == Flags(s, Up(s, "Z"), FALSE, FALSE, ~Up(s, "C"))
           by == IF (extract_sccf(row.opcode) * get_flag(s.F, "C")) = 0 THEN "SET" ELSE "CLEAR"
<1>1. Executed(s, row) = cpu_combine_alu_flags(s, <<"CPU", "CLEAR", "CLEAR", by>>, NoFlags)
  <2>1. Executed(s, row) = cpu_dispatch_alu(s, row)
    BY ByFamily DEF AluFamilies
  <2>2. cpu_dispatch_alu(s, row) = cpu_combine_alu_flags(s, <<"CPU", "CLEAR", "CLEAR", by>>, NoFlags)
    BY DEF cpu_dispatch_alu, cpu_dispatch_alu_ext
  <2>3. QED
    BY <2>1, <2>2
<1>2. row.name = <<"SCF", "-", "-">> => Does(s, row.name) = up
  BY DEF Does
<1>3. row.name = <<"CCF", "-", "-">> => Does(s, row.name) = turned
  BY DEF Does
<1>4. get_flag(s.F, "C") \in 0 .. 1
  BY Flag
<1>5. /\ bit(row.opcode, 3) = 0 => by = "SET"
      /\ bit(row.opcode, 3) = 1 => by = IF get_flag(s.F, "C") = 0 THEN "SET" ELSE "CLEAR"
  BY <1>4 DEF extract_sccf
<1>6. /\ cpu_combine_alu_flags(s, <<"CPU", "CLEAR", "CLEAR", "SET">>, NoFlags) = up
      /\ up \in Still(s)
  BY SetsCarry
<1>7. /\ cpu_combine_alu_flags(s, <<"CPU", "CLEAR", "CLEAR", IF get_flag(s.F, "C") = 0 THEN "SET" ELSE "CLEAR">>,
                               NoFlags) = turned
      /\ turned \in Still(s)
  BY TurnsCarry
<1> HIDE DEF up, turned, by
<1>8. QED
  BY <1>1, <1>2, <1>3, <1>5, <1>6, <1>7, DoneStill

-------------------------------------------------------------------------------
(* Words *)

\* The sum of words in two additions of bytes.
LEMMA WordSumIs ==
  ASSUME FullWidth, NEW x \in U16, NEW y \in U16
  PROVE  /\ alu_add16_high(x, y).value = (x + y) % 65536
         /\ (get_flag(alu_add16_high(x, y).flags, "H") = 1) <=> (x % 4096) + (y % 4096) > 4095
         /\ (get_flag(alu_add16_high(x, y).flags, "C") = 1) <=> x + y > 65535
<1> DEFINE xl == x % 256
           xh == x \div 256
           yl == y % 256
           yh == y \div 256
           low  == alu_add8(xl, yl, 0)
           c    == get_flag(low.flags, "C")
           high == alu_add8(xh, yh, c)
           h    == get_flag(high.flags, "H")
           q    == get_flag(high.flags, "C")
           sum  == merge8(low.value, high.value)
           out  == set_output(sum, sum = 0, FALSE, h, q)
<1>1. lsb8(x) = xl /\ lsb8(y) = yl /\ msb8(x) = xh /\ msb8(y) = yh
  BY Sizes DEF lsb8, msb8
<1>2. alu_add16_high(x, y) = out
  BY <1>1 DEF alu_add16_high
<1>3. xl \in U8 /\ yl \in U8 /\ xh \in U8 /\ yh \in U8
  BY <1>1, SplitBytes
<1>4. /\ x = 256 * xh + xl /\ y = 256 * yh + yl
      /\ xl \in Int /\ 0 <= xl /\ xl < 256 /\ yl \in Int /\ 0 <= yl /\ yl < 256
      /\ xh \in Int /\ 0 <= xh /\ xh < 256 /\ yh \in Int /\ 0 <= yh /\ yh < 256
  BY InWord
<1> HIDE DEF xl, xh, yl, yh
<1>5. /\ low.value = (xl + yl + 0) % 256
      /\ (get_flag(low.flags, "Z") = 1) <=> (xl + yl + 0) % 256 = 0
      /\ (get_flag(low.flags, "H") = 1) <=> (xl % 16) + (yl % 16) + 0 > 15
      /\ (get_flag(low.flags, "C") = 1) <=> xl + yl + 0 > 255
  <2>1. 0 \in 0 .. 1
    OBVIOUS
  <2>2. QED
    BY <1>3, <2>1, SumIs
<1>6. c \in 0 .. 1 /\ (c = 1 <=> xl + yl > 255)
  BY <1>4, <1>5, Flag
<1>7. h \in 0 .. 1 /\ q \in 0 .. 1
  BY Flag
<1> HIDE DEF low, c
<1>8. /\ high.value = (xh + yh + c) % 256
      /\ (get_flag(high.flags, "Z") = 1) <=> (xh + yh + c) % 256 = 0
      /\ (get_flag(high.flags, "H") = 1) <=> (xh % 16) + (yh % 16) + c > 15
      /\ (get_flag(high.flags, "C") = 1) <=> xh + yh + c > 255
  BY <1>3, <1>6, SumIs
<1>9. (h = 1 <=> (xh % 16) + (yh % 16) + c > 15) /\ (q = 1 <=> xh + yh + c > 255)
  BY <1>8
<1> HIDE DEF high, h, q
<1>10. sum = (x + y) % 65536
  <2>1. sum = high.value * 256 + low.value
    BY Sizes DEF merge8
  <2>2. sum = (((xh + yh + c) % 256) * 256) + ((xl + yl + 0) % 256)
    BY <1>5, <1>8, <2>1
  <2> HIDE DEF sum
  <2>3. c = (xl + yl) \div 256
    BY <1>4, <1>6
  <2>4. (xl + yl + 0) % 256 = (xl + yl) - 256 * c
    BY <1>4, <2>3
  <2>5. x + y = 256 * (xh + yh + c) + ((xl + yl) - 256 * c)
    BY <1>4, <1>6
  <2> DEFINE l == (xl + yl) - 256 * c
             n == xh + yh + c
  <2>6. l \in Int /\ 0 <= l /\ l < 256 /\ n \in Int /\ 0 <= n
    BY <1>4, <1>6, <2>3
  <2>7. sum = ((n % 256) * 256) + l
    BY <2>2, <2>4
  <2>8. x + y = 256 * n + l
    BY <2>5
  <2> HIDE DEF l, n
  <2>9. (256 * n + l) % 65536 = ((n % 256) * 256) + l
    BY <2>6
  <2>10. QED
    BY <2>7, <2>8, <2>9
<1>11. h = 1 <=> (x % 4096) + (y % 4096) > 4095
  <2>1. x % 4096 = 256 * (xh % 16) + xl /\ y % 4096 = 256 * (yh % 16) + yl
    BY <1>4
  <2>2. QED
    BY <1>4, <1>6, <1>9, <2>1
<1>12. q = 1 <=> x + y > 65535
  BY <1>4, <1>6, <1>9
<1> HIDE DEF sum
<1>13. out.value = sum /\ ((get_flag(out.flags, "H") = 1) <=> h = 1) /\ ((get_flag(out.flags, "C") = 1) <=> q = 1)
  BY <1>7 DEF set_output, get_flag, FlagNames
<1> HIDE DEF out
<1>14. QED
  BY <1>2, <1>10, <1>11, <1>12, <1>13

\* Pairs by their names.
LEMMA WidePairs ==
  ASSUME FullWidth, NEW s \in Tidy, NEW t \in Still(s), NEW p \in Wide16
  PROVE  /\ Get16(t, p) \in U16
         /\ \A w \in U16 : Set16(t, p, w) \in Still(s)
<1>0. t \in Running
  BY StillMachines
<1>1. CASE p = "SP"
  <2>1. t.SP \in U16
    BY <1>0, Fields DEF Running
  <2>2. \A w \in U16 : [t EXCEPT !.SP = w] \in Still(s)
    BY StillOneField
  <2>3. QED
    BY <1>1, <2>1, <2>2 DEF Get16, Set16
<1>2. CASE p \in {"AF", "BC", "DE", "HL"}
  <2>1. Get16(t, p) = cpu_reg_pair_get(t, p) /\ cpu_reg_pair_get(t, p) \in U16
    BY <1>0, <1>2, PairsGet DEF Get16
  <2>2. ASSUME NEW w \in U16 PROVE Set16(t, p, w) \in Still(s)
    <3> DEFINE u == cpu_reg_pair_set(t, p, w)
    <3>1. Set16(t, p, w) = u
      BY <1>2 DEF Set16
    <3>2. u \in Running
      BY <1>0, <1>2, PairsSet
    <3>3. u.PC = t.PC
      BY <1>0 DEF cpu_reg_pair_set, Running, Machines
    <3>4. u.F.low = 0
      <4>1. CASE p = "AF"
        <5>1. u.F = [FlagsOf(lsb8(w)) EXCEPT !.low = 0]
          BY <1>0, <4>1 DEF cpu_reg_pair_set, Running, Machines
        <5>2. QED
          BY <5>1 DEF FlagsOf
      <4>2. CASE p # "AF"
        <5>1. u.F = t.F
          BY <1>0, <4>2 DEF cpu_reg_pair_set, Running, Machines
        <5>2. QED
          BY <5>1, StillMachines
      <4>3. QED
        BY <4>1, <4>2
    <3> HIDE DEF u
    <3>5. QED
      BY <3>1, <3>2, <3>3, <3>4, StillMachines DEF Still, Tidy
  <2>3. QED
    BY <2>1, <2>2
<1>3. QED
  BY <1>1, <1>2 DEF Wide16

\* A pair or SP, by its code and by its name.
LEMMA PairsByCode ==
  ASSUME NEW t, NEW code, NEW p, R16SPAt[code + 1] = p
  PROVE  /\ cpu_reg_pair_SP_get(t, code) = Get16(t, p)
         /\ \A w : cpu_reg_pair_SP_set(t, code, w) = Set16(t, p, w)
         /\ cpu_reg_pair_get(t, "HL") = Get16(t, "HL") /\ HLOf(t) = Get16(t, "HL")
         /\ \A w : cpu_reg_pair_set(t, "HL", w) = Set16(t, "HL", w)
BY DEF cpu_reg_pair_SP_get, cpu_reg_pair_SP_set, Get16, Set16, HLOf

\* ADD HL,rr: H and C from bits 11 and 15, Z stays.
LEMMA AddsPairs ==
  ASSUME FullWidth, NEW s \in Tidy, NEW w \in U16
  PROVE  LET alu == alu_add16_high(HLOf(s), w)
         IN  /\ cpu_reg_pair_set(cpu_combine_alu_flags(s, ADD_16_FLAGS_SRC, alu.flags), "HL", alu.value) = AddPair(s, w)
             /\ AddPair(s, w) \in Still(s)
<1> DEFINE hl  == Get16(s, "HL")
           v   == (hl + w) % 65536
           z   == Up(s, "Z")
           h   == (hl % 4096) + (w % 4096) > 4095
           q   == hl + w > 65535
           up  == Raised(z, FALSE, h, q)
           alu == alu_add16_high(hl, w)
<1>1. HLOf(s) = hl /\ hl \in U16
  BY StillMachines, WidePairs DEF HLOf, Get16, Wide16
<1>2. AddPair(s, w) = Set16(Flags(s, z, FALSE, h, q), "HL", v)
  BY DEF AddPair
<1> HIDE DEF hl
<1>3. /\ alu_add16_high(hl, w).value = (hl + w) % 65536
      /\ (get_flag(alu_add16_high(hl, w).flags, "H") = 1) <=> (hl % 4096) + (w % 4096) > 4095
      /\ (get_flag(alu_add16_high(hl, w).flags, "C") = 1) <=> hl + w > 65535
  BY <1>1, WordSumIs
<1>4. /\ alu.value = v
      /\ (get_flag(alu.flags, "H") = 1) <=> h
      /\ (get_flag(alu.flags, "C") = 1) <=> q
      /\ (get_flag(s.F, "Z") = 1) <=> z
  BY <1>3, Kept
<1>5. v \in U16
  <2>1. hl + w \in Int
    BY <1>1, InWord
  <2>2. QED
    BY <2>1, Sizes, InWords
<1> HIDE DEF alu, z, h, q, v
<1>6. Flags(s, z, FALSE, h, q) = Showing(s, up) /\ up \in SUBSET FlagNames
  BY FlagsShown
<1>7. ("Z" \in up <=> z) /\ "N" \notin up /\ ("H" \in up <=> h) /\ ("C" \in up <=> q)
  BY DEF Raised, FlagNames
<1> HIDE DEF up
<1>8. /\ flags_src_value(ADD_16_FLAGS_SRC[1], get_flag(s.F, "Z"), get_flag(alu.flags, "Z")) <=> "Z" \in up
      /\ flags_src_value(ADD_16_FLAGS_SRC[2], get_flag(s.F, "N"), get_flag(alu.flags, "N")) <=> "N" \in up
      /\ flags_src_value(ADD_16_FLAGS_SRC[3], get_flag(s.F, "H"), get_flag(alu.flags, "H")) <=> "H" \in up
      /\ flags_src_value(ADD_16_FLAGS_SRC[4], get_flag(s.F, "C"), get_flag(alu.flags, "C")) <=> "C" \in up
  BY <1>4, <1>7 DEF flags_src_value, ADD_16_FLAGS_SRC
<1>9. cpu_combine_alu_flags(s, ADD_16_FLAGS_SRC, alu.flags) = Showing(s, up)
  BY <1>6, <1>8, CombinedShown
<1>10. Showing(s, up) \in Still(s)
  BY <1>6, StillMachines, ShowingStill
<1>11. Set16(Showing(s, up), "HL", v) \in Still(s)
  BY <1>5, <1>10, WidePairs DEF Wide16
<1>12. cpu_reg_pair_set(Showing(s, up), "HL", v) = Set16(Showing(s, up), "HL", v)
  BY DEF Set16
<1>13. QED
  BY <1>1, <1>2, <1>4, <1>6, <1>9, <1>11, <1>12 DEF alu

LEMMA AddsPairsAsNamed ==
  ASSUME FullWidth, NEW s \in Tidy, NEW row, NEW p \in Wide16, R16SPAt[extract_reg_pair(row.opcode) + 1] = p,
         row.family[1] = "ADD_HL_R16SP", row.name = <<"ADD", "HL", p>>
  PROVE  Done(s, row)
<1> DEFINE w == Get16(s, p)
           t == AddPair(s, w)
           code == extract_reg_pair(row.opcode)
           alu(x) == alu_add16_high(HLOf(s), x)
<1>1. w \in U16
  BY StillMachines, WidePairs
<1>2. Executed(s, row) = cpu_reg_pair_set(cpu_combine_alu_flags(s, ADD_16_FLAGS_SRC, alu(cpu_reg_pair_SP_get(s, code)).flags),
                                          "HL", alu(cpu_reg_pair_SP_get(s, code)).value)
  <2>1. Executed(s, row) = cpu_dispatch_alu(s, row)
    BY ByFamily DEF AluFamilies
  <2>2. cpu_dispatch_alu(s, row)
          = cpu_reg_pair_set(cpu_combine_alu_flags(s, ADD_16_FLAGS_SRC, alu(cpu_reg_pair_SP_get(s, code)).flags),
                             "HL", alu(cpu_reg_pair_SP_get(s, code)).value)
    BY DEF cpu_dispatch_alu
  <2>3. QED
    BY <2>1, <2>2
<1>3. cpu_reg_pair_SP_get(s, code) = w
  BY PairsByCode
<1>4. Does(s, row.name) = t
  BY DEF Does
<1> HIDE DEF w, code
<1>5. cpu_reg_pair_set(cpu_combine_alu_flags(s, ADD_16_FLAGS_SRC, alu(w).flags), "HL", alu(w).value) = t /\ t \in Still(s)
  BY <1>1, AddsPairs
<1> HIDE DEF t, alu
<1>6. QED
  BY <1>2, <1>3, <1>4, <1>5, DoneStill

\* INC rr and DEC rr: the first goes through the ALU and drops its flags.
LEMMA CountsPairsAsNamed ==
  ASSUME FullWidth, NEW s \in Tidy, NEW row, NEW p \in Wide16, R16SPAt[extract_reg_pair(row.opcode) + 1] = p,
         row.family[2] = "R16SP",
         \/ row.name = <<"INC", p, "-">> /\ row.family[1] = "INC"
         \/ row.name = <<"DEC", p, "-">> /\ row.family[1] = "DEC"
  PROVE  Done(s, row)
<1> DEFINE w == Get16(s, p)
           code == extract_reg_pair(row.opcode)
<1>1. w \in U16
  BY StillMachines, WidePairs
<1>2. cpu_reg_pair_SP_get(s, code) = w /\ \A v : cpu_reg_pair_SP_set(s, code, v) = Set16(s, p, v)
  BY PairsByCode
<1>3. Executed(s, row) = cpu_dispatch_alu(s, row)
  BY ByFamily DEF AluFamilies
<1>4. \A v \in U16 : Set16(s, p, v) \in Still(s)
  BY StillMachines, WidePairs
<1>5. (w + 1) % 65536 \in U16 /\ (w + -1) % 65536 \in U16
  <2>1. w + 1 \in Int /\ w + -1 \in Int
    BY <1>1, InWord
  <2>2. QED
    BY <2>1, Sizes, InWords
<1>6. CASE row.name = <<"INC", p, "-">> /\ row.family[1] = "INC"
  <2>1. cpu_dispatch_alu(s, row) = cpu_reg_pair_SP_set(s, code, alu_add16_high(cpu_reg_pair_SP_get(s, code), 1).value)
    BY <1>6 DEF cpu_dispatch_alu
  <2>2. Does(s, row.name) = Set16(s, p, (w + 1) % 65536)
    BY <1>6 DEF Does
  <2> HIDE DEF w, code
  <2>3. alu_add16_high(w, 1).value = (w + 1) % 65536
    <3>1. 1 \in U16
      BY InWord
    <3>2. QED
      BY <1>1, <3>1, WordSumIs
  <2>4. QED
    BY <1>2, <1>3, <1>4, <1>5, <2>1, <2>2, <2>3, DoneStill
<1>7. CASE row.name = <<"DEC", p, "-">> /\ row.family[1] = "DEC"
  <2>1. cpu_dispatch_alu(s, row) = cpu_reg_pair_SP_set(s, code, (cpu_reg_pair_SP_get(s, code) - 1) % Word)
    BY <1>7 DEF cpu_dispatch_alu, cpu_dispatch_alu_ext
  <2>2. Does(s, row.name) = Set16(s, p, (w + -1) % 65536)
    BY <1>7 DEF Does
  <2> HIDE DEF w, code
  <2>3. (w - 1) % Word = (w + -1) % 65536
    <3>1. w - 1 = w + -1 /\ Word = 65536
      BY <1>1, InWord, Sizes
    <3>2. QED
      BY <3>1
  <2>4. QED
    BY <1>2, <1>3, <1>4, <1>5, <2>1, <2>2, <2>3, DoneStill
<1>8. QED
  BY <1>6, <1>7

\* ADD SP,n and LD HL,SP+n: a signed sum with the flags of an unsigned one.
LEMMA Displaces ==
  ASSUME FullWidth, NEW s \in Tidy
  PROVE  LET n8      == cpu_read_data_after_opcode(s)
             sum     == (s.SP + Signed8(n8)) % Word
             flagged == cpu_combine_alu_flags(s, <<"CLEAR", "CLEAR", "ALU", "ALU">>, alu_add8(lsb8(s.SP), n8, 0).flags)
         IN  /\ cpu_reg_pair_set(flagged, "HL", sum) = Displaced(s, "HL")
             /\ [flagged EXCEPT !.SP = sum] = Displaced(s, "SP")
             /\ Displaced(s, "HL") \in Still(s) /\ Displaced(s, "SP") \in Still(s)
<1> DEFINE b   == cpu_read_data_after_opcode(s)
           l   == s.SP % 256
           w   == (s.SP + IF b > 127 THEN b - 256 ELSE b) % 65536
           h   == (s.SP % 16) + (b % 16) > 15
           q   == (s.SP % 256) + b > 255
           up  == Raised(FALSE, FALSE, h, q)
           src == <<"CLEAR", "CLEAR", "ALU", "ALU">>
           alu == alu_add8(l, b, 0)
<1>1. s.SP \in U16 /\ b \in U8 /\ Following(s) = b
  BY StillMachines, Follows, FollowingIs, Fields
<1>2. /\ Displaced(s, "HL") = Set16(Flags(s, FALSE, FALSE, h, q), "HL", w)
      /\ Displaced(s, "SP") = Set16(Flags(s, FALSE, FALSE, h, q), "SP", w)
  BY <1>1 DEF Displaced
<1> HIDE DEF b
<1>3. lsb8(s.SP) = l /\ l \in U8
  BY <1>1, Sizes, SplitBytes DEF lsb8
<1>4. b \in Int /\ 0 <= b /\ b < 256 /\ s.SP \in Int /\ 0 <= s.SP /\ s.SP < 65536
  BY <1>1, InByte, InWord
<1>5. (s.SP + Signed8(b)) % Word = w /\ w \in U16
  <2>1. Signed8(b) = IF b > 127 THEN b - 256 ELSE b
    BY <1>4 DEF Signed8
  <2>2. s.SP + (IF b > 127 THEN b - 256 ELSE b) \in Int
    BY <1>4
  <2>3. QED
    BY <2>1, <2>2, Sizes, InWords
<1>6. l % 16 = s.SP % 16
  BY <1>4
<1>7. /\ alu_add8(l, b, 0).value = (l + b + 0) % 256
      /\ (get_flag(alu_add8(l, b, 0).flags, "Z") = 1) <=> (l + b + 0) % 256 = 0
      /\ (get_flag(alu_add8(l, b, 0).flags, "H") = 1) <=> (l % 16) + (b % 16) + 0 > 15
      /\ (get_flag(alu_add8(l, b, 0).flags, "C") = 1) <=> l + b + 0 > 255
  <2>1. 0 \in 0 .. 1
    OBVIOUS
  <2> HIDE DEF l
  <2>2. QED
    BY <1>1, <1>3, <2>1, SumIs
<1>8. ((get_flag(alu.flags, "H") = 1) <=> h) /\ ((get_flag(alu.flags, "C") = 1) <=> q)
  BY <1>4, <1>6, <1>7
<1>9. src[1] = "CLEAR" /\ src[2] = "CLEAR" /\ src[3] = "ALU" /\ src[4] = "ALU"
  OBVIOUS
<1> HIDE DEF alu, h, q, w, l, src
<1>10. Flags(s, FALSE, FALSE, h, q) = Showing(s, up) /\ up \in SUBSET FlagNames
  BY FlagsShown
<1>11. "Z" \notin up /\ "N" \notin up /\ ("H" \in up <=> h) /\ ("C" \in up <=> q)
  BY DEF Raised, FlagNames
<1> HIDE DEF up
<1>12. /\ flags_src_value(src[1], get_flag(s.F, "Z"), get_flag(alu.flags, "Z")) <=> "Z" \in up
       /\ flags_src_value(src[2], get_flag(s.F, "N"), get_flag(alu.flags, "N")) <=> "N" \in up
       /\ flags_src_value(src[3], get_flag(s.F, "H"), get_flag(alu.flags, "H")) <=> "H" \in up
       /\ flags_src_value(src[4], get_flag(s.F, "C"), get_flag(alu.flags, "C")) <=> "C" \in up
  BY <1>8, <1>9, <1>11 DEF flags_src_value
<1>13. cpu_combine_alu_flags(s, src, alu.flags) = Showing(s, up)
  BY <1>10, <1>12, CombinedShown
<1>14. Showing(s, up) \in Still(s)
  BY <1>10, StillMachines, ShowingStill
<1>15. Set16(Showing(s, up), "HL", w) \in Still(s) /\ Set16(Showing(s, up), "SP", w) \in Still(s)
  BY <1>5, <1>14, WidePairs DEF Wide16
<1>16. /\ cpu_reg_pair_set(Showing(s, up), "HL", w) = Set16(Showing(s, up), "HL", w)
       /\ [Showing(s, up) EXCEPT !.SP = w] = Set16(Showing(s, up), "SP", w)
  BY DEF Set16
<1>17. cpu_combine_alu_flags(s, <<"CLEAR", "CLEAR", "ALU", "ALU">>, alu_add8(lsb8(s.SP), b, 0).flags) = Showing(s, up)
  BY <1>3, <1>13 DEF src, alu
<1>18. QED
  BY <1>2, <1>5, <1>10, <1>15, <1>16, <1>17 DEF b

LEMMA DisplacesAsNamed ==
  ASSUME FullWidth, NEW s \in Tidy, NEW row, row.family[1] = "LD_HLSP_S8",
         \/ row.name = <<"ADD", "SP", "N">> /\ bit(row.opcode, 4) = 0
         \/ row.name = <<"LD", "HL", "SP_N8">> /\ bit(row.opcode, 4) = 1
  PROVE  Done(s, row)
<1> DEFINE n8      == cpu_read_data_after_opcode(s)
           sum     == (s.SP + Signed8(n8)) % Word
           flagged == cpu_combine_alu_flags(s, <<"CLEAR", "CLEAR", "ALU", "ALU">>, alu_add8(lsb8(s.SP), n8, 0).flags)
<1>1. Executed(s, row) = IF bit(row.opcode, 4) = 1 THEN cpu_reg_pair_set(flagged, "HL", sum)
                         ELSE [flagged EXCEPT !.SP = sum]
  <2>1. Executed(s, row) = cpu_dispatch_alu(s, row)
    BY ByFamily DEF AluFamilies
  <2>2. cpu_dispatch_alu(s, row) = IF bit(row.opcode, 4) = 1 THEN cpu_reg_pair_set(flagged, "HL", sum)
                                   ELSE [flagged EXCEPT !.SP = sum]
    BY DEF cpu_dispatch_alu, cpu_dispatch_alu_ext
  <2>3. QED
    BY <2>1, <2>2
<1>2. /\ cpu_reg_pair_set(flagged, "HL", sum) = Displaced(s, "HL")
      /\ [flagged EXCEPT !.SP = sum] = Displaced(s, "SP")
      /\ Displaced(s, "HL") \in Still(s) /\ Displaced(s, "SP") \in Still(s)
  BY Displaces
<1>3. row.name = <<"ADD", "SP", "N">> => Does(s, row.name) = Displaced(s, "SP")
  BY DEF Does
<1>4. row.name = <<"LD", "HL", "SP_N8">> => Does(s, row.name) = Displaced(s, "HL")
  <2>1. row.name = <<"LD", "HL", "SP_N8">> => Does(s, row.name) = Loaded(s, "HL", "SP_N8")
    BY DEF Does
  <2>2. Loaded(s, "HL", "SP_N8") = Displaced(s, "HL")
    BY DEF Loaded, Wide16
  <2>3. QED
    BY <2>1, <2>2
<1> HIDE DEF flagged, sum
<1>5. QED
  BY <1>1, <1>2, <1>3, <1>4, DoneStill

-------------------------------------------------------------------------------
(* Loads, stores and the stack *)

\* The operands of a load that need no word and do not move HL.
Bytewise == R8s \cup {"HLR", "N8", "BCR", "DER", "CR", "N16R", "N8R"}

\* LD between any two operands of a byte.
LEMMA LoadsBytes ==
  ASSUME NEW s, NEW to \in Bytewise, NEW from \in Bytewise, NEW row, row.name = <<"LD", to, from>>
  PROVE  Does(s, row.name) = Set8(s, to, Get8(s, from))
<1>1. /\ to \notin Wide16 /\ from \notin Wide16 /\ from # "SP" /\ from # "SP_N8" /\ from # "N16"
      /\ {"HLRI", "HLRD"} \cap {to, from} = {}
  BY DEF Bytewise, Wide16, R8s
<1>2. Does(s, row.name) = Loaded(s, to, from)
  BY DEF Does
<1>3. Loaded(s, to, from) = Move(s, to, from)
  BY <1>1 DEF Loaded
<1>4. Move(s, to, from) = Set8(s, to, Get8(s, from))
  BY <1>1 DEF Move
<1>5. QED
  BY <1>2, <1>3, <1>4

\* Where the operands in parentheses are, as cpu-storage.c finds them.
LEMMA Places8 ==
  ASSUME FullWidth, NEW s \in Tidy
  PROVE  /\ Place8(s, "HLR") = HLOf(s) /\ Place8(s, "HLRI") = HLOf(s) /\ Place8(s, "HLRD") = HLOf(s)
         /\ Place8(s, "BCR") = cpu_reg_pair_get(s, "BC") /\ Place8(s, "DER") = cpu_reg_pair_get(s, "DE")
         /\ Place8(s, "CR") = REGISTERS_START + s.reg["C"]
         /\ Place8(s, "N8R") = REGISTERS_START + cpu_read_data_after_opcode(s)
         /\ Place8(s, "N16R") = cpu_read_addr_after_opcode(s)
         /\ \A x \in {"HLR", "HLRI", "HLRD", "BCR", "DER", "CR", "N8R", "N16R"} : Place8(s, x) \in U16
<1>1. /\ Place8(s, "HLR") = HLOf(s) /\ Place8(s, "HLRI") = HLOf(s) /\ Place8(s, "HLRD") = HLOf(s)
  BY DEF Place8, Get16, HLOf
<1>2. Place8(s, "BCR") = cpu_reg_pair_get(s, "BC") /\ Place8(s, "DER") = cpu_reg_pair_get(s, "DE")
  BY DEF Place8, Get16
<1>3. Place8(s, "CR") = REGISTERS_START + s.reg["C"]
  BY DEF Place8, REGISTERS_START
<1>4. Place8(s, "N8R") = REGISTERS_START + cpu_read_data_after_opcode(s)
  BY FollowingIs DEF Place8, REGISTERS_START
<1>5. Place8(s, "N16R") = cpu_read_addr_after_opcode(s)
  BY FollowingIs DEF Place8
<1>6. /\ HLOf(s) \in U16 /\ cpu_reg_pair_get(s, "BC") \in U16 /\ cpu_reg_pair_get(s, "DE") \in U16
      /\ cpu_read_addr_after_opcode(s) \in U16
  BY StillMachines, HLIsWord, PairsGet, Follows
<1>7. \A b \in U8 : REGISTERS_START + b \in U16
  BY InByte, InWord DEF REGISTERS_START
<1>8. s.reg["C"] \in U8 /\ cpu_read_data_after_opcode(s) \in U8
  BY StillMachines, RegisterIsByte, Follows, NoRegister
<1>9. QED
  BY <1>1, <1>2, <1>3, <1>4, <1>5, <1>6, <1>7, <1>8

LEMMA Bytes8 ==
  ASSUME FullWidth, NEW s \in Tidy
  PROVE  /\ \A x \in R8s : Get8(s, x) = s.reg[x]
         /\ Get8(s, "N8") = cpu_read_data_after_opcode(s)
         /\ \A x \in {"HLR", "HLRI", "HLRD", "BCR", "DER", "CR", "N8R", "N16R"} :
               Get8(s, x) = cpu_read_at_idx(s, Place8(s, x))
         /\ \A x \in Bytewise \cup {"HLRI", "HLRD"} : Get8(s, x) \in U8
<1>1. \A x \in R8s : Get8(s, x) = s.reg[x]
  BY NoRegister DEF Get8
<1>2. Get8(s, "N8") = cpu_read_data_after_opcode(s)
  BY FollowingIs
<1>3. \A x \in {"HLR", "HLRI", "HLRD", "BCR", "DER", "CR", "N8R", "N16R"} :
         Get8(s, x) = cpu_read_at_idx(s, Place8(s, x))
  BY NoRegister DEF Get8
<1>4. /\ \A a : cpu_read_at_idx(s, a) \in U8
      /\ \A x \in R8s : s.reg[x] \in U8
      /\ cpu_read_data_after_opcode(s) \in U8
  BY StillMachines, Reads, RegisterIsByte, Follows
<1>5. QED
  BY <1>1, <1>2, <1>3, <1>4 DEF Bytewise

\* LD r,n and LD r,(nn) and their like.
LEMMA LoadsAsNamed ==
  ASSUME FullWidth, NEW s \in Tidy, NEW to \in R8s, NEW from \in Bytewise, NEW row, row.name = <<"LD", to, from>>,
         Executed(s, row) = cpu_reg_set(s, to, Get8(s, from))
  PROVE  Done(s, row)
<1>1. to \in Bytewise
  BY DEF Bytewise
<1>2. Does(s, row.name) = Set8(s, to, Get8(s, from))
  BY <1>1, LoadsBytes
<1>3. Set8(s, to, Get8(s, from)) = cpu_reg_set(s, to, Get8(s, from))
  BY DEF Set8, cpu_reg_set
<1>4. cpu_reg_set(s, to, Get8(s, from)) \in Still(s)
  BY Bytes8, StillMachines, RegisterStill
<1>5. QED
  BY <1>2, <1>3, <1>4, DoneStill

\* LD to memory: the store, or its failure.
LEMMA StoresAsNamed ==
  ASSUME FullWidth, NEW s \in Tidy, NEW to \in {"HLR", "BCR", "DER", "CR", "N8R", "N16R"}, NEW from \in R8s \cup {"N8"},
         NEW row, row.name = <<"LD", to, from>>,
         Executed(s, row) = cpu_write_at_idx(s, Place8(s, to), Get8(s, from))
  PROVE  Done(s, row)
<1>1. to \in Bytewise /\ from \in Bytewise /\ to \notin R8s
  BY NoRegister DEF Bytewise
<1>2. Does(s, row.name) = Set8(s, to, Get8(s, from))
  BY <1>1, LoadsBytes
<1>3. Set8(s, to, Get8(s, from)) = cpu_write_at_idx(s, Place8(s, to), Get8(s, from))
  BY <1>1 DEF Set8
<1>4. Place8(s, to) \in U16 /\ Get8(s, from) \in U8
  BY <1>1, Places8, Bytes8
<1>5. cpu_write_at_idx(s, Place8(s, to), Get8(s, from)) \in Ended(s)
  BY <1>4, StillMachines, WrittenStill DEF Ended
<1>6. QED
  BY <1>2, <1>3, <1>5 DEF Done

\* LD A,(BC), LD (BC),A and the other four places.
LEMMA LoadsFromPlaces ==
  ASSUME FullWidth, NEW s \in Tidy, NEW row,
         \/ row.family[1] = "LD_A_BCR" /\ row.name = <<"LD", "A", "BCR">>
         \/ row.family[1] = "LD_A_DER" /\ row.name = <<"LD", "A", "DER">>
         \/ row.family[1] = "LD_A_CR" /\ row.name = <<"LD", "A", "CR">>
         \/ row.family[1] = "LD_A_N16R" /\ row.name = <<"LD", "A", "N16R">>
         \/ row.family[1] = "LD_A_N8R" /\ row.name = <<"LD", "A", "N8R">>
  PROVE  Done(s, row)
<1>1. PICK x \in {"BCR", "DER", "CR", "N16R", "N8R"} : row.name = <<"LD", "A", x>> /\ Executed(s, row) = Load(s, "A", Place8(s, x))
  <2>1. CASE row.family[1] = "LD_A_BCR" /\ row.name = <<"LD", "A", "BCR">>
    <3>1. Executed(s, row) = cpu_dispatch_storage(s, row)
      BY <2>1, ByFamily DEF StorageFamilies
    <3>2. cpu_dispatch_storage(s, row) = Load(s, "A", cpu_reg_pair_get(s, "BC"))
      BY <2>1 DEF cpu_dispatch_storage
    <3>3. QED
      BY <2>1, <3>1, <3>2, Places8
  <2>2. CASE row.family[1] = "LD_A_DER" /\ row.name = <<"LD", "A", "DER">>
    <3>1. Executed(s, row) = cpu_dispatch_storage(s, row)
      BY <2>2, ByFamily DEF StorageFamilies
    <3>2. cpu_dispatch_storage(s, row) = Load(s, "A", cpu_reg_pair_get(s, "DE"))
      BY <2>2 DEF cpu_dispatch_storage
    <3>3. QED
      BY <2>2, <3>1, <3>2, Places8
  <2>3. CASE row.family[1] = "LD_A_CR" /\ row.name = <<"LD", "A", "CR">>
    <3>1. Executed(s, row) = cpu_dispatch_storage(s, row)
      BY <2>3, ByFamily DEF StorageFamilies
    <3>2. cpu_dispatch_storage(s, row) = Load(s, "A", REGISTERS_START + s.reg["C"])
      BY <2>3 DEF cpu_dispatch_storage
    <3>3. QED
      BY <2>3, <3>1, <3>2, Places8
  <2>4. CASE row.family[1] = "LD_A_N16R" /\ row.name = <<"LD", "A", "N16R">>
    <3>1. Executed(s, row) = cpu_dispatch_storage(s, row)
      BY <2>4, ByFamily DEF StorageFamilies
    <3>2. cpu_dispatch_storage(s, row) = Load(s, "A", cpu_read_addr_after_opcode(s))
      BY <2>4 DEF cpu_dispatch_storage
    <3>3. QED
      BY <2>4, <3>1, <3>2, Places8
  <2>5. CASE row.family[1] = "LD_A_N8R" /\ row.name = <<"LD", "A", "N8R">>
    <3>1. Executed(s, row) = cpu_dispatch_storage(s, row)
      BY <2>5, ByFamily DEF StorageFamilies
    <3>2. cpu_dispatch_storage(s, row) = Load(s, "A", REGISTERS_START + cpu_read_data_after_opcode(s))
      BY <2>5 DEF cpu_dispatch_storage
    <3>3. QED
      BY <2>5, <3>1, <3>2, Places8
  <2>6. QED
    BY <2>1, <2>2, <2>3, <2>4, <2>5
<1>2. Load(s, "A", Place8(s, x)) = cpu_reg_set(s, "A", Get8(s, x))
  BY Bytes8 DEF Load
<1>3. QED
  BY <1>1, <1>2, NoRegister, LoadsAsNamed DEF Bytewise

LEMMA StoresToPlaces ==
  ASSUME FullWidth, NEW s \in Tidy, NEW row,
         \/ row.family[1] = "LD_BCR_A" /\ row.name = <<"LD", "BCR", "A">>
         \/ row.family[1] = "LD_DER_A" /\ row.name = <<"LD", "DER", "A">>
         \/ row.family[1] = "LD_CR_A" /\ row.name = <<"LD", "CR", "A">>
         \/ row.family[1] = "LD_N16R_A" /\ row.name = <<"LD", "N16R", "A">>
         \/ row.family[1] = "LD_N8R_A" /\ row.name = <<"LD", "N8R", "A">>
  PROVE  Done(s, row)
<1>1. PICK x \in {"BCR", "DER", "CR", "N16R", "N8R"} : row.name = <<"LD", x, "A">> /\ Executed(s, row) = Store(s, "A", Place8(s, x))
  <2>1. CASE row.family[1] = "LD_BCR_A" /\ row.name = <<"LD", "BCR", "A">>
    <3>1. Executed(s, row) = cpu_dispatch_storage(s, row)
      BY <2>1, ByFamily DEF StorageFamilies
    <3>2. cpu_dispatch_storage(s, row) = Store(s, "A", cpu_reg_pair_get(s, "BC"))
      BY <2>1 DEF cpu_dispatch_storage
    <3>3. QED
      BY <2>1, <3>1, <3>2, Places8
  <2>2. CASE row.family[1] = "LD_DER_A" /\ row.name = <<"LD", "DER", "A">>
    <3>1. Executed(s, row) = cpu_dispatch_storage(s, row)
      BY <2>2, ByFamily DEF StorageFamilies
    <3>2. cpu_dispatch_storage(s, row) = Store(s, "A", cpu_reg_pair_get(s, "DE"))
      BY <2>2 DEF cpu_dispatch_storage
    <3>3. QED
      BY <2>2, <3>1, <3>2, Places8
  <2>3. CASE row.family[1] = "LD_CR_A" /\ row.name = <<"LD", "CR", "A">>
    <3>1. Executed(s, row) = cpu_dispatch_storage(s, row)
      BY <2>3, ByFamily DEF StorageFamilies
    <3>2. cpu_dispatch_storage(s, row) = Store(s, "A", REGISTERS_START + s.reg["C"])
      BY <2>3 DEF cpu_dispatch_storage
    <3>3. QED
      BY <2>3, <3>1, <3>2, Places8
  <2>4. CASE row.family[1] = "LD_N16R_A" /\ row.name = <<"LD", "N16R", "A">>
    <3>1. Executed(s, row) = cpu_dispatch_storage(s, row)
      BY <2>4, ByFamily DEF StorageFamilies
    <3>2. cpu_dispatch_storage(s, row) = Store(s, "A", cpu_read_addr_after_opcode(s))
      BY <2>4 DEF cpu_dispatch_storage
    <3>3. QED
      BY <2>4, <3>1, <3>2, Places8
  <2>5. CASE row.family[1] = "LD_N8R_A" /\ row.name = <<"LD", "N8R", "A">>
    <3>1. Executed(s, row) = cpu_dispatch_storage(s, row)
      BY <2>5, ByFamily DEF StorageFamilies
    <3>2. cpu_dispatch_storage(s, row) = Store(s, "A", REGISTERS_START + cpu_read_data_after_opcode(s))
      BY <2>5 DEF cpu_dispatch_storage
    <3>3. QED
      BY <2>5, <3>1, <3>2, Places8
  <2>6. QED
    BY <2>1, <2>2, <2>3, <2>4, <2>5
<1>2. Store(s, "A", Place8(s, x)) = cpu_write_at_idx(s, Place8(s, x), Get8(s, "A"))
  BY Bytes8, NoRegister DEF Store
<1>3. QED
  BY <1>1, <1>2, NoRegister, StoresAsNamed

\* Loads of and between the registers, and with the byte at HL.
LEMMA LoadsOfRegisters ==
  ASSUME FullWidth, NEW s \in Tidy, NEW row, NEW r \in R8s,
         \/ row.family[1] = "LD_R8_HLR" /\ row.name = <<"LD", r, "HLR">> /\ extract_reg(row.opcode, 3) = r
         \/ row.family[1] = "LD_R8_N8" /\ row.name = <<"LD", r, "N8">> /\ extract_reg(row.opcode, 3) = r
         \/ row.family[1] = "LD_HLR_R8" /\ row.name = <<"LD", "HLR", r>> /\ extract_reg(row.opcode, 0) = r
         \/ row.family[1] = "LD_HLR_N8" /\ row.name = <<"LD", "HLR", "N8">>
  PROVE  Done(s, row)
<1>1. CASE row.family[1] = "LD_R8_HLR" /\ row.name = <<"LD", r, "HLR">> /\ extract_reg(row.opcode, 3) = r
  <2>1. Executed(s, row) = cpu_dispatch_storage(s, row)
    BY <1>1, ByFamily DEF StorageFamilies
  <2>2. cpu_dispatch_storage(s, row) = Load(s, r, HLOf(s))
    BY <1>1 DEF cpu_dispatch_storage
  <2>3. Load(s, r, HLOf(s)) = cpu_reg_set(s, r, Get8(s, "HLR"))
    BY Bytes8, Places8 DEF Load
  <2>4. QED
    BY <1>1, <2>1, <2>2, <2>3, LoadsAsNamed DEF Bytewise
<1>2. CASE row.family[1] = "LD_R8_N8" /\ row.name = <<"LD", r, "N8">> /\ extract_reg(row.opcode, 3) = r
  <2>1. Executed(s, row) = cpu_dispatch_storage(s, row)
    BY <1>2, ByFamily DEF StorageFamilies
  <2>2. cpu_dispatch_storage(s, row) = cpu_reg_set(s, r, cpu_read_data_after_opcode(s))
    BY <1>2 DEF cpu_dispatch_storage
  <2>3. QED
    BY <1>2, <2>1, <2>2, Bytes8, LoadsAsNamed DEF Bytewise
<1>3. CASE row.family[1] = "LD_HLR_R8" /\ row.name = <<"LD", "HLR", r>> /\ extract_reg(row.opcode, 0) = r
  <2>1. Executed(s, row) = cpu_dispatch_storage(s, row)
    BY <1>3, ByFamily DEF StorageFamilies
  <2>2. cpu_dispatch_storage(s, row) = Store(s, r, HLOf(s))
    BY <1>3 DEF cpu_dispatch_storage
  <2>3. Store(s, r, HLOf(s)) = cpu_write_at_idx(s, Place8(s, "HLR"), Get8(s, r))
    BY Bytes8, Places8 DEF Store
  <2>4. QED
    BY <1>3, <2>1, <2>2, <2>3, StoresAsNamed
<1>4. CASE row.family[1] = "LD_HLR_N8" /\ row.name = <<"LD", "HLR", "N8">>
  <2>1. Executed(s, row) = cpu_dispatch_storage(s, row)
    BY <1>4, ByFamily DEF StorageFamilies
  <2>2. cpu_dispatch_storage(s, row) = cpu_write_at_idx(s, HLOf(s), cpu_read_data_after_opcode(s))
    BY <1>4 DEF cpu_dispatch_storage
  <2>3. cpu_dispatch_storage(s, row) = cpu_write_at_idx(s, Place8(s, "HLR"), Get8(s, "N8"))
    BY <2>2, Bytes8, Places8
  <2>4. QED
    BY <1>4, <2>1, <2>3, StoresAsNamed
<1>5. QED
  BY <1>1, <1>2, <1>3, <1>4

\* A register to another one; to itself it is a NOP.
LEMMA CopiesAsNamed ==
  ASSUME FullWidth, NEW s \in Tidy, NEW row, NEW r \in R8s, NEW q \in R8s, row.name = <<"LD", r, q>>,
         \/ row.family[1] = "NOP" /\ r = q
         \/ row.family[1] = "LD_R8_R8" /\ r # q /\ extract_reg(row.opcode, 3) = r /\ extract_reg(row.opcode, 0) = q
  PROVE  Done(s, row)
<1>1. Executed(s, row) = cpu_reg_set(s, r, s.reg[q])
  <2>1. CASE row.family[1] = "NOP" /\ r = q
    <3>1. Executed(s, row) = s
      BY <2>1 DEF Executed, AluFamilies, StorageFamilies
    <3>2. s.reg \in Files /\ s \in Machines
      BY StillMachines, Fields
    <3>3. [s.reg EXCEPT ![r] = s.reg[r]] = s.reg
      BY <3>2 DEF Files
    <3>4. [s EXCEPT !.reg = s.reg] = s
      BY <3>2 DEF Machines
    <3>5. cpu_reg_set(s, r, s.reg[r]) = [s EXCEPT !.reg = [s.reg EXCEPT ![r] = s.reg[r]]]
      BY DEF cpu_reg_set
    <3>6. QED
      BY <2>1, <3>1, <3>3, <3>4, <3>5
  <2>2. CASE row.family[1] = "LD_R8_R8" /\ r # q /\ extract_reg(row.opcode, 3) = r /\ extract_reg(row.opcode, 0) = q
    <3>1. Executed(s, row) = cpu_dispatch_storage(s, row)
      BY <2>2, ByFamily DEF StorageFamilies
    <3>2. cpu_dispatch_storage(s, row) = cpu_reg_set(s, r, s.reg[q])
      BY <2>2 DEF cpu_dispatch_storage
    <3>3. QED
      BY <3>1, <3>2
  <2>3. QED
    BY <2>1, <2>2
<1>2. Get8(s, q) = s.reg[q] /\ q \in Bytewise
  BY Bytes8 DEF Bytewise
<1>3. QED
  BY <1>1, <1>2, LoadsAsNamed

\* HL follows an access that is made, and only then.
LEMMA HLFollows ==
  ASSUME FullWidth, NEW s \in Tidy, NEW op, NEW x, NEW to, NEW from, NEW t,
         t = Set8(s, to, Get8(s, from)), t \in Ended(s),
         \/ bit(op, 4) = 1 /\ x = "HLRD"
         \/ bit(op, 4) = 0 /\ x = "HLRI",
         \/ to = "A" /\ from = x
         \/ to = x /\ from = "A"
  PROVE  /\ Move(s, to, from) = IF Fine(t) THEN cpu_reg_pair_set(t, "HL", (HLOf(t) + extract_HL_increment(op)) % Word) ELSE t
         /\ Move(s, to, from) \in Ended(s)
<1> DEFINE by == IF "HLRI" \in {to, from} THEN 1 ELSE -1
           w  == (Get16(t, "HL") + by) % 65536
<1>1. by = extract_HL_increment(op) /\ by \in Int /\ {"HLRI", "HLRD"} \cap {to, from} # {}
  <2>1. x \in {"HLRI", "HLRD"} /\ x \in {to, from}
    OBVIOUS
  <2>2. {"HLRI", "HLRD"} \cap {to, from} # {}
    BY <2>1
  <2>3. "HLRI" \in {to, from} <=> x = "HLRI"
    OBVIOUS
  <2>4. bit(op, 4) = 1 <=> x = "HLRD"
    OBVIOUS
  <2>5. by = extract_HL_increment(op) /\ by \in Int
    <3>1. CASE x = "HLRD"
      <4>1. "HLRI" \notin {to, from} /\ bit(op, 4) = 1
        BY <2>3, <2>4, <3>1
      <4>2. by = -1 /\ extract_HL_increment(op) = -1
        BY <4>1 DEF extract_HL_increment
      <4>3. QED
        BY <4>2
    <3>2. CASE x = "HLRI"
      <4>1. "HLRI" \in {to, from} /\ bit(op, 4) # 1
        BY <2>3, <2>4, <3>2
      <4>2. by = 1 /\ extract_HL_increment(op) = 1
        BY <4>1 DEF extract_HL_increment
      <4>3. QED
        BY <4>2
    <3>3. QED
      BY <2>1, <3>1, <3>2
  <2>6. QED
    BY <2>2, <2>5
<1>2. Move(s, to, from) = IF Fine(t) THEN Set16(t, "HL", w) ELSE t
  BY <1>1 DEF Move
<1>3. HLOf(t) = Get16(t, "HL") /\ Set16(t, "HL", w) = cpu_reg_pair_set(t, "HL", w)
  BY DEF HLOf, Get16, Set16
<1>4. w = (HLOf(t) + extract_HL_increment(op)) % Word
  BY <1>1, <1>3, Sizes
<1>5. CASE t \in Still(s)
  <2>1. Get16(t, "HL") \in U16
    BY <1>5, WidePairs DEF Wide16
  <2>2. w \in U16
    <3>1. Get16(t, "HL") + by \in Int
      BY <1>1, <2>1, InWord
    <3>2. QED
      BY <3>1, Sizes, InWords
  <2> HIDE DEF w
  <2>3. Set16(t, "HL", w) \in Still(s)
    BY <1>5, <2>2, WidePairs DEF Wide16
  <2>4. QED
    BY <1>2, <1>3, <1>4, <1>5, <2>3 DEF Ended
<1>6. CASE t \notin Still(s)
  <2>1. ~Fine(t)
    BY <1>6, StillMachines, Failing DEF Ended
  <2>2. QED
    BY <1>2, <2>1
<1>7. QED
  BY <1>5, <1>6

\* LD A,(HL+), LD A,(HL-), LD (HL+),A and LD (HL-),A.
LEMMA FollowsAsNamed ==
  ASSUME FullWidth, NEW s \in Tidy, NEW row, NEW x,
         \/ bit(row.opcode, 4) = 1 /\ x = "HLRD"
         \/ bit(row.opcode, 4) = 0 /\ x = "HLRI",
         \/ row.family[1] = "LD_A_HLRU" /\ row.name = <<"LD", "A", x>>
         \/ row.family[1] = "LD_HLRU_A" /\ row.name = <<"LD", x, "A">>
  PROVE  Done(s, row)
<1>0. x \in {"HLRI", "HLRD"} /\ Place8(s, x) = HLOf(s) /\ HLOf(s) \in U16 /\ Get8(s, x) = cpu_read_at_idx(s, HLOf(s))
      /\ Get8(s, x) \in U8 /\ Get8(s, "A") = s.reg["A"] /\ s.reg["A"] \in U8
  BY Places8, Bytes8, NoRegister, AIsByte
<1>1. CASE row.family[1] = "LD_A_HLRU" /\ row.name = <<"LD", "A", x>>
  <2> DEFINE t == Set8(s, "A", Get8(s, x))
  <2>1. Executed(s, row) = cpu_dispatch_storage(s, row)
    BY <1>1, ByFamily DEF StorageFamilies
  <2>2. cpu_dispatch_storage(s, row) = MoveHL(Load(s, "A", HLOf(s)), row)
    BY <1>1 DEF cpu_dispatch_storage
  <2>3. t = Load(s, "A", HLOf(s)) /\ t \in Still(s)
    BY <1>0, NoRegister, StillMachines, RegisterStill DEF Load, Set8, cpu_reg_set
  <2>4. Does(s, row.name) = Move(s, "A", x)
    <3>1. Does(s, row.name) = Loaded(s, "A", x)
      BY <1>1 DEF Does
    <3>2. QED
      BY <1>0, <3>1 DEF Loaded, Wide16
  <2>5. t \in Ended(s)
    BY <2>3 DEF Ended
  <2> HIDE DEF t
  <2>6. /\ Move(s, "A", x) = IF Fine(t) THEN cpu_reg_pair_set(t, "HL", (HLOf(t) + extract_HL_increment(row.opcode)) % Word) ELSE t
        /\ Move(s, "A", x) \in Ended(s)
    BY <2>5, HLFollows DEF t
  <2>7. QED
    BY <2>1, <2>2, <2>3, <2>4, <2>6 DEF Done, MoveHL
<1>2. CASE row.family[1] = "LD_HLRU_A" /\ row.name = <<"LD", x, "A">>
  <2> DEFINE t == Set8(s, x, Get8(s, "A"))
  <2>1. Executed(s, row) = cpu_dispatch_storage(s, row)
    BY <1>2, ByFamily DEF StorageFamilies
  <2>2. cpu_dispatch_storage(s, row) = MoveHL(Store(s, "A", HLOf(s)), row)
    BY <1>2 DEF cpu_dispatch_storage
  <2>3. t = Store(s, "A", HLOf(s))
    BY <1>0, NoRegister DEF Store, Set8
  <2>4. t \in Ended(s)
    BY <1>0, <2>3, StillMachines, WrittenStill DEF Store, Ended
  <2>5. Does(s, row.name) = Move(s, x, "A")
    <3>1. Does(s, row.name) = Loaded(s, x, "A")
      BY <1>2 DEF Does
    <3>2. QED
      BY <1>0, <3>1 DEF Loaded, Wide16
  <2> HIDE DEF t
  <2>6. /\ Move(s, x, "A") = IF Fine(t) THEN cpu_reg_pair_set(t, "HL", (HLOf(t) + extract_HL_increment(row.opcode)) % Word) ELSE t
        /\ Move(s, x, "A") \in Ended(s)
    BY <2>4, HLFollows DEF t
  <2>7. QED
    BY <2>1, <2>2, <2>3, <2>5, <2>6 DEF Done, MoveHL
<1>3. QED
  BY <1>1, <1>2
\* A word written is a step of the memory alone, or nothing.
LEMMA WordWrittenStill ==
  ASSUME FullWidth, NEW s \in Tidy, NEW t \in Still(s), NEW a \in U16, NEW w \in U16
  PROVE  cpu_write16_at_idx(t, a, w) \in Still(s) \cup {Fail(t, "ERR_BAD_PARAMETER")}
<1> DEFINE upper == Written(t.mem, a + 1, msb8(w))
           both == Written(upper, a, lsb8(w))
<1>0. t \in Running
  BY StillMachines
<1>1. a \in 0 .. Word /\ a + 1 \in 0 .. Word /\ msb8(w) \in U8 /\ lsb8(w) \in U8
  BY Addresses, SplitBytes
<1>2. upper \in Memories
  BY <1>0, <1>1, Fields, MemoryWritten DEF Running
<1> HIDE DEF upper
<1>3. both \in Memories
  BY <1>1, <1>2, MemoryWritten
<1> HIDE DEF both
<1>4. [t EXCEPT !.mem = both, !.write_listener = a] \in Still(s)
  BY <1>3, StillOneField
<1>5. QED
  BY <1>4 DEF cpu_write16_at_idx, both, upper

\* The push of the code, which lowers SP first and puts it back, is the push by name.
LEMMA PushesAs ==
  ASSUME FullWidth, NEW s \in Tidy, NEW t \in Still(s), NEW w \in U16
  PROVE  /\ cpu_SP_push(t, w) = Push(t, w)
         /\ Push(t, w) \in Still(s) \cup {Fail(t, "ERR_BAD_PARAMETER")}
<1> DEFINE below == (t.SP - 2) % 65536
           down  == [t EXCEPT !.SP = below]
           both  == Written(Written(t.mem, below + 1, msb8(w)), below, lsb8(w))
           code  == "ERR_BAD_PARAMETER"
<1>1. t \in Running /\ t \in Machines /\ t.SP \in U16 /\ Fine(t) /\ t \in Tidy /\ Still(t) = Still(s)
  BY StillMachines, Fields DEF Running
<1>2. below \in U16 /\ (t.SP - 2) % Word = below
  <2>1. t.SP - 2 \in Int
    BY <1>1, InWord
  <2>2. QED
    BY <2>1, Sizes, InWords
<1> HIDE DEF below
<1>3. down.SP = below /\ down.mem = t.mem /\ down.gap = t.gap /\ down.err = t.err
  BY <1>1 DEF Machines
<1>4. cpu_SP_push(t, w) = LET done == cpu_write16_at_idx(down, below, w) IN IF Fine(done) THEN done ELSE [done EXCEPT !.SP = t.SP]
  BY <1>2, <1>3 DEF cpu_SP_push
<1>5. Push(t, w) = LET done == cpu_write16_at_idx(t, below, w) IN IF Fine(done) THEN [done EXCEPT !.SP = below] ELSE done
  BY DEF Push, below
<1>6. CASE below \in t.gap
  <2>1. code \in Codes
    BY DEF Codes
  <2>2. cpu_write16_at_idx(t, below, w) = Fail(t, code) /\ cpu_write16_at_idx(down, below, w) = Fail(down, code)
    BY <1>3, <1>6 DEF cpu_write16_at_idx
  <2>3. ~Fine(Fail(t, code)) /\ ~Fine(Fail(down, code))
    BY <1>1 DEF Fail, Fine, Machines
  <2> HIDE DEF code
  <2>4. [Fail(down, code) EXCEPT !.SP = t.SP] = Fail(t, code)
    BY <2>1, <1>1, <1>2 DEF Fail, Machines
  <2>5. cpu_SP_push(t, w) = Fail(t, code) /\ Push(t, w) = Fail(t, code)
    BY <1>4, <1>5, <2>2, <2>3, <2>4
  <2>6. QED
    BY <2>5 DEF code
<1>7. CASE below \notin t.gap
  <2> DEFINE done == [t EXCEPT !.mem = both, !.write_listener = below]
  <2>1. cpu_write16_at_idx(t, below, w) = done
    BY <1>7 DEF cpu_write16_at_idx
  <2>2. cpu_write16_at_idx(down, below, w) = [down EXCEPT !.mem = both, !.write_listener = below]
    BY <1>3, <1>7 DEF cpu_write16_at_idx
  <2>3. done \in Still(s)
    <3>1. cpu_write16_at_idx(t, below, w) # Fail(t, code)
      BY <1>1, <2>1 DEF Fail, Fine, Machines
    <3>2. QED
      BY <1>2, <2>1, <3>1, WordWrittenStill
  <2> HIDE DEF both
  <2>4. [down EXCEPT !.mem = both, !.write_listener = below] = [done EXCEPT !.SP = below]
    BY <1>1, <1>2 DEF Machines
  <2> DEFINE e == [done EXCEPT !.SP = below]
  <2> HIDE DEF done
  <2>5. e \in Still(s)
    BY <1>2, <2>3, StillOneField
  <2> HIDE DEF e
  <2>6. Fine(done) /\ Fine(e)
    BY <2>3, <2>5, StillMachines
  <2>7. cpu_SP_push(t, w) = e /\ Push(t, w) = e
    BY <1>4, <1>5, <2>1, <2>2, <2>4, <2>6 DEF e
  <2>8. QED
    BY <2>5, <2>7
<1>8. QED
  BY <1>6, <1>7

\* POP and PUSH.
LEMMA PopStill ==
  ASSUME FullWidth, NEW s \in Tidy
  PROVE  AfterPop(s) = [s EXCEPT !.SP = (@ + 2) % 65536] /\ AfterPop(s) \in Still(s)
<1> DEFINE n == (s.SP + 2) % Word
<1>1. s.SP + 2 \in Int
  BY StillMachines, Fields, InWord
<1>2. n \in U16
  BY <1>1, InWords
<1>3. AfterPop(s) = [s EXCEPT !.SP = n] /\ n = (s.SP + 2) % 65536
  BY Sizes DEF AfterPop
<1> HIDE DEF n
<1>4. [s EXCEPT !.SP = n] \in Still(s)
  BY <1>2, StillMachines, StillOneField
<1>5. QED
  BY <1>3, <1>4

\* The pair that PUSH and POP find in an opcode.
LEMMA StackPairs ==
  ASSUME NEW t, NEW p, p # "SP"
  PROVE  /\ cpu_reg_pair_get(t, p) = Get16(t, p)
         /\ \A w : cpu_reg_pair_set(t, p, w) = Set16(t, p, w)
BY DEF Get16, Set16

LEMMA StacksAsNamed ==
  ASSUME FullWidth, NEW s \in Tidy, NEW row, NEW p \in {"BC", "DE", "HL", "AF"}, R16At[extract_reg_pair(row.opcode) + 1] = p,
         \/ row.family[1] = "POP_R16" /\ row.name = <<"POP", p, "-">>
         \/ row.family[1] = "PUSH_R16" /\ row.name = <<"PUSH", p, "-">>
  PROVE  Done(s, row)
<1>0. p # "SP" /\ p \in Wide16
  BY DEF Wide16
<1>1. CASE row.family[1] = "POP_R16" /\ row.name = <<"POP", p, "-">>
  <2> DEFINE t == AfterPop(s)
             w == cpu_read16_at_idx(s, s.SP)
  <2>1. Executed(s, row) = cpu_dispatch_storage(s, row)
    BY <1>1, ByFamily DEF StorageFamilies
  <2>2. cpu_dispatch_storage(s, row) = cpu_reg_pair_set(t, p, w)
    BY <1>1 DEF cpu_dispatch_storage, Popped
  <2>3. t = [s EXCEPT !.SP = (@ + 2) % 65536] /\ t \in Still(s)
    BY PopStill
  <2>4. w \in U16
    BY StillMachines, Reads
  <2>5. Does(s, row.name) = Set16([s EXCEPT !.SP = (@ + 2) % 65536], p, w)
    BY <1>1 DEF Does
  <2> HIDE DEF t, w
  <2>6. cpu_reg_pair_set(t, p, w) = Set16(t, p, w) /\ Set16(t, p, w) \in Still(s)
    BY <1>0, <2>3, <2>4, StackPairs, WidePairs
  <2>7. QED
    BY <2>1, <2>2, <2>3, <2>5, <2>6, DoneStill
<1>2. CASE row.family[1] = "PUSH_R16" /\ row.name = <<"PUSH", p, "-">>
  <2>1. Executed(s, row) = cpu_dispatch_storage(s, row)
    BY <1>2, ByFamily DEF StorageFamilies
  <2>2. cpu_dispatch_storage(s, row) = cpu_SP_push(s, cpu_reg_pair_get(s, p))
    BY <1>2 DEF cpu_dispatch_storage
  <2>3. Does(s, row.name) = Push(s, Get16(s, p))
    BY <1>2 DEF Does
  <2>4. cpu_reg_pair_get(s, p) = Get16(s, p) /\ Get16(s, p) \in U16
    BY <1>0, StillMachines, StackPairs, WidePairs
  <2>5. cpu_SP_push(s, Get16(s, p)) = Push(s, Get16(s, p)) /\ Push(s, Get16(s, p)) \in Ended(s)
    BY <2>4, StillMachines, PushesAs DEF Ended
  <2>6. QED
    BY <2>1, <2>2, <2>3, <2>4, <2>5 DEF Done
<1>3. QED
  BY <1>1, <1>2

\* LD (nn),SP, LD rr,nn and LD SP,HL.
LEMMA LoadsOfWords ==
  ASSUME FullWidth, NEW s \in Tidy, NEW row, NEW p \in {"BC", "DE", "HL", "SP"},
         \/ row.family[1] = "LD_N16R_SP" /\ row.name = <<"LD", "N16R", "SP">>
         \/ row.family[1] = "LD_R16SP_N16" /\ row.name = <<"LD", p, "N16">> /\ R16SPAt[extract_reg_pair(row.opcode) + 1] = p
         \/ row.family[1] = "LD_SP_HL" /\ row.name = <<"LD", "SP", "HL">>
  PROVE  Done(s, row)
<1>0. /\ cpu_read_addr_after_opcode(s) \in U16 /\ FollowingWord(s) = cpu_read_addr_after_opcode(s)
      /\ s.SP \in U16 /\ p \in Wide16 /\ Place8(s, "N16R") = cpu_read_addr_after_opcode(s)
  BY StillMachines, Follows, FollowingIs, Fields, Places8 DEF Wide16
<1>1. CASE row.family[1] = "LD_N16R_SP" /\ row.name = <<"LD", "N16R", "SP">>
  <2>1. Executed(s, row) = cpu_dispatch_storage(s, row)
    BY <1>1, ByFamily DEF StorageFamilies
  <2>2. cpu_dispatch_storage(s, row) = cpu_write16_at_idx(s, cpu_read_addr_after_opcode(s), s.SP)
    BY <1>1 DEF cpu_dispatch_storage
  <2>3. Does(s, row.name) = Loaded(s, "N16R", "SP")
    BY <1>1 DEF Does
  <2>4. Loaded(s, "N16R", "SP") = cpu_write16_at_idx(s, Place8(s, "N16R"), s.SP)
    BY DEF Loaded, Wide16
  <2>5. cpu_write16_at_idx(s, cpu_read_addr_after_opcode(s), s.SP) \in Ended(s)
    BY <1>0, StillMachines, WordWrittenStill DEF Ended
  <2>6. QED
    BY <1>0, <2>1, <2>2, <2>3, <2>4, <2>5 DEF Done
<1>2. CASE row.family[1] = "LD_R16SP_N16" /\ row.name = <<"LD", p, "N16">> /\ R16SPAt[extract_reg_pair(row.opcode) + 1] = p
  <2>1. Executed(s, row) = cpu_dispatch_storage(s, row)
    BY <1>2, ByFamily DEF StorageFamilies
  <2>2. cpu_dispatch_storage(s, row) = cpu_reg_pair_SP_set(s, extract_reg_pair(row.opcode), cpu_read_addr_after_opcode(s))
    BY <1>2 DEF cpu_dispatch_storage
  <2>3. Does(s, row.name) = Loaded(s, p, "N16")
    BY <1>2 DEF Does
  <2>4. Loaded(s, p, "N16") = Set16(s, p, FollowingWord(s))
    BY DEF Loaded, Wide16
  <2>5. cpu_reg_pair_SP_set(s, extract_reg_pair(row.opcode), cpu_read_addr_after_opcode(s)) = Set16(s, p, FollowingWord(s))
    BY <1>0, <1>2, PairsByCode
  <2>6. Set16(s, p, FollowingWord(s)) \in Still(s)
    BY <1>0, StillMachines, WidePairs
  <2>7. QED
    BY <2>1, <2>2, <2>3, <2>4, <2>5, <2>6, DoneStill
<1>3. CASE row.family[1] = "LD_SP_HL" /\ row.name = <<"LD", "SP", "HL">>
  <2>1. Executed(s, row) = cpu_dispatch_storage(s, row)
    BY <1>3, ByFamily DEF StorageFamilies
  <2>2. cpu_dispatch_storage(s, row) = [s EXCEPT !.SP = HLOf(s)]
    BY <1>3 DEF cpu_dispatch_storage
  <2>3. Does(s, row.name) = Loaded(s, "SP", "HL")
    BY <1>3 DEF Does
  <2>4. Loaded(s, "SP", "HL") = Set16(s, "SP", Get16(s, "HL"))
    BY DEF Loaded, Wide16
  <2>5. Set16(s, "SP", Get16(s, "HL")) = [s EXCEPT !.SP = HLOf(s)]
    BY DEF Set16, Get16, HLOf
  <2>6. [s EXCEPT !.SP = HLOf(s)] \in Still(s)
    BY StillMachines, HLIsWord, StillOneField
  <2>7. QED
    BY <2>1, <2>2, <2>3, <2>4, <2>5, <2>6, DoneStill
<1>4. QED
  BY <1>1, <1>2, <1>3

\* What these do is nothing but to move PC, and SP where the stack is used.
LEMMA OthersStay ==
  ASSUME NEW s, NEW name, name[1] \in {"NOP", "STOP", "JP", "JR", "CALL", "RET", "RST"}
  PROVE  Does(s, name) = s
<1>1. name[1] = "NOP" => Does(s, name) = s
  BY DEF Does
<1>2. name[1] = "STOP" => Does(s, name) = s
  BY DEF Does
<1>3. name[1] = "JP" => Does(s, name) = s
  BY DEF Does
<1>4. name[1] = "JR" => Does(s, name) = s
  BY DEF Does
<1>5. name[1] = "CALL" => Does(s, name) = s
  BY DEF Does
<1>6. name[1] = "RET" => Does(s, name) = s
  BY DEF Does
<1>7. name[1] = "RST" => Does(s, name) = s
  BY DEF Does
<1>8. QED
  BY <1>1, <1>2, <1>3, <1>4, <1>5, <1>6, <1>7

\* DI, EI, HALT, STOP and NOP.
LEMMA SwitchesAsNamed ==
  ASSUME FullWidth, NEW s \in Tidy, NEW row,
         \/ row.family[1] = "EDI" /\ row.name = <<"DI", "-", "-">> /\ bit(row.opcode, 3) = 0
         \/ row.family[1] = "EDI" /\ row.name = <<"EI", "-", "-">> /\ bit(row.opcode, 3) = 1
         \/ row.family[1] = "HALT" /\ row.name = <<"HALT", "-", "-">>
         \/ row.family[1] = "STOP" /\ row.name = <<"STOP", "-", "-">>
         \/ row.family[1] = "NOP" /\ row.name = <<"NOP", "-", "-">>
  PROVE  Done(s, row)
<1>0. /\ s \in Still(s) /\ 0 \in Switches /\ 1 \in Switches
  BY StillMachines DEF Switches
<1>1. \A i \in Switches : [s EXCEPT !.IME = i] \in Still(s) /\ [s EXCEPT !.HALT = i] \in Still(s)
  BY <1>0, StillOneField
<1>2. CASE row.family[1] = "EDI" /\ row.name = <<"DI", "-", "-">> /\ bit(row.opcode, 3) = 0
  <2>1. Executed(s, row) = [s EXCEPT !.IME = 0]
    BY <1>2 DEF Executed, AluFamilies, StorageFamilies, extract_ime
  <2>2. Does(s, row.name) = [s EXCEPT !.IME = 0]
    BY <1>2 DEF Does
  <2>3. QED
    BY <1>0, <1>1, <2>1, <2>2, DoneStill
<1>3. CASE row.family[1] = "EDI" /\ row.name = <<"EI", "-", "-">> /\ bit(row.opcode, 3) = 1
  <2>1. Executed(s, row) = [s EXCEPT !.IME = 1]
    BY <1>3 DEF Executed, AluFamilies, StorageFamilies, extract_ime
  <2>2. Does(s, row.name) = [s EXCEPT !.IME = 1]
    BY <1>3 DEF Does
  <2>3. QED
    BY <1>0, <1>1, <2>1, <2>2, DoneStill
<1>4. CASE row.family[1] = "HALT" /\ row.name = <<"HALT", "-", "-">>
  <2>1. Executed(s, row) = [s EXCEPT !.HALT = 1]
    BY <1>4 DEF Executed, AluFamilies, StorageFamilies
  <2>2. Does(s, row.name) = [s EXCEPT !.HALT = 1]
    BY <1>4 DEF Does
  <2>3. QED
    BY <1>0, <1>1, <2>1, <2>2, DoneStill
<1>5. CASE row.family[1] \in {"STOP", "NOP"} /\ row.name \in {<<"STOP", "-", "-">>, <<"NOP", "-", "-">>}
  <2>1. Executed(s, row) = s
    BY <1>5 DEF Executed, AluFamilies, StorageFamilies
  <2>2. Does(s, row.name) = s
    BY <1>5, OthersStay
  <2>3. QED
    BY <1>0, <2>1, <2>2, DoneStill
<1>6. QED
  BY <1>2, <1>3, <1>4, <1>5
-------------------------------------------------------------------------------
(* The instruction as a whole: PC and time *)

\* The code and the name lead to the same machine, and the low nibble of F stays clear.
Agrees(s, row) == cpu_dispatch(s, row) = Meaning(s, row) /\ cpu_dispatch(s, row).F.low = 0
\* Where the next instruction is.
After(s, row) == (s.PC + Length(row)) % 65536

\* PC and the time of a step by name.
LEMMA Settled ==
  ASSUME NEW s \in Tidy, NEW t \in Still(s), NEW pc, NEW i
  PROVE  [t EXCEPT !.PC = pc, !.idle_time = i].F.low = 0
<1>1. t \in Machines /\ t.F.low = 0
  BY StillMachines
<1>2. [t EXCEPT !.PC = pc, !.idle_time = i].F = t.F
  BY <1>1 DEF Machines
<1>3. QED
  BY <1>1, <1>2

\* What an instruction that fails leaves.
LEMMA Failed ==
  ASSUME NEW s \in Tidy, NEW t \in {Fail(s, "ERR_BAD_PARAMETER"), Fail(s, "ERR_INSTR")}
  PROVE  ~Fine(t) /\ t.F.low = 0 /\ Fail(s, t.err) = t
<1>1. s \in Running /\ s \in Machines /\ s.F.low = 0
  BY StillMachines
<1>2. PICK code \in {"ERR_BAD_PARAMETER", "ERR_INSTR"} : t = Fail(s, code)
  OBVIOUS
<1>3. ~Fine(t) /\ t.err = code
  BY <1>1, <1>2, Failing
<1>4. t.F = s.F
  BY <1>1, <1>2 DEF Fail, Machines
<1>5. QED
  BY <1>1, <1>2, <1>3, <1>4

\* What does not jump.
LEMMA StraightAgrees ==
  ASSUME FullWidth, NEW s \in Tidy, NEW row, Done(s, row),
         row.family[1] \notin JumpFamilies, row.family[1] \notin ConditionalFamilies, row.name[1] \notin Jumps,
         row.bytes = Length(row), row.xtra_cycles = 0
  PROVE  Agrees(s, row)
<1> DEFINE t    == Executed(s, row)
           idle == (t.idle_time + row.cycles + 0) % 256
<1>1. t = Does(s, row.name) /\ t \in Ended(s)
  BY DEF Done
<1>2. cpu_dispatch(s, row) = IF ~Fine(t) THEN t ELSE [t EXCEPT !.PC = (t.PC + row.bytes) % Word, !.idle_time = idle]
  BY DEF cpu_dispatch
<1>3. Meaning(s, row) = IF ~Fine(t) THEN Fail(s, t.err) ELSE [t EXCEPT !.PC = After(s, row), !.idle_time = idle]
  <2>1. ~Taken(s, row.name)
    BY DEF Taken
  <2>2. QED
    BY <1>1, <2>1 DEF Meaning, After
<1> HIDE DEF t, idle
<1>4. CASE t \in Still(s)
  <2>1. Fine(t) /\ t.PC = s.PC
    BY <1>4, StillMachines
  <2>2. (t.PC + row.bytes) % Word = After(s, row)
    BY <2>1, Sizes DEF After
  <2> DEFINE u == [t EXCEPT !.PC = After(s, row), !.idle_time = idle]
  <2>3. cpu_dispatch(s, row) = u /\ Meaning(s, row) = u
    BY <1>2, <1>3, <2>1, <2>2
  <2>4. u.F.low = 0
    BY <1>4, Settled
  <2> HIDE DEF u
  <2>5. QED
    BY <2>3, <2>4 DEF Agrees
<1>5. CASE t \in {Fail(s, "ERR_BAD_PARAMETER"), Fail(s, "ERR_INSTR")}
  BY <1>2, <1>3, <1>5, Failed DEF Agrees
<1>6. QED
  BY <1>1, <1>4, <1>5 DEF Ended

\* How an instruction by name ends: with the error, or with PC and the time as given.
Concluded(s, t, pc, idle) ==
  IF ~Fine(t) THEN Fail(s, t.err) ELSE [t EXCEPT !.PC = pc, !.idle_time = idle]

\* The parts of Meaning, for an instruction that jumps.
LEMMA MeaningTaken ==
  ASSUME NEW s, NEW row, Taken(s, row.name), NEW done, NEW target, NEW idle,
         Stacked(Does(s, row.name), row.name, After(s, row)) = done,
         Target(s, done, row.name, After(s, row)) = target,
         (done.idle_time + row.cycles + row.xtra_cycles) % 256 = idle
  PROVE  Meaning(s, row) = Concluded(s, done, target, idle)
<1> DEFINE d == Stacked(Does(s, row.name), row.name, After(s, row))
           a == Target(s, d, row.name, After(s, row))
           i == (d.idle_time + row.cycles + row.xtra_cycles) % 256
<1>1. Meaning(s, row) = Concluded(s, d, a, i)
  BY Taken(s, row.name) DEF Meaning, After, Concluded
<1>2. d = done
  OBVIOUS
<1> HIDE DEF d
<1>3. a = target /\ i = idle
  BY <1>2
<1> HIDE DEF a, i
<1>4. QED
  BY <1>1, <1>2, <1>3

\* What jumps: done is the machine with its stack as it will be, p where PC is put.
LEMMA JumpAgrees ==
  ASSUME FullWidth, NEW s \in Tidy, NEW row, row.name[1] \in Jumps, row.bytes = Length(row),
         row.family[1] \in ConditionalFamilies => (check_cc(s, row) <=> Holds(s, row.name[2])) /\ Does(s, row.name) = s,
         row.family[1] \notin ConditionalFamilies => Holds(s, row.name[2]),
         NEW done, done = Stacked(Does(s, row.name), row.name, After(s, row)), NEW p,
         \/ /\ done \in Still(s) /\ Executed(s, row) = [done EXCEPT !.PC = p]
            /\ (IF row.family[1] \in JumpFamilies THEN p ELSE (p + row.bytes) % Word) = Target(s, done, row.name, After(s, row))
         \/ done = Fail(s, "ERR_BAD_PARAMETER") /\ Executed(s, row) = done
  PROVE  Agrees(s, row)
<1>1. CASE row.family[1] \in ConditionalFamilies /\ ~check_cc(s, row)
  <2> DEFINE idle == (s.idle_time + row.cycles + 0) % 256
  <2>1. cpu_dispatch(s, row) = IF ~Fine(s) THEN s ELSE [s EXCEPT !.PC = (s.PC + row.bytes) % Word, !.idle_time = idle]
    BY <1>1 DEF cpu_dispatch
  <2>2. Meaning(s, row) = IF ~Fine(s) THEN Fail(s, s.err) ELSE [s EXCEPT !.PC = After(s, row), !.idle_time = idle]
    <3>1. ~Taken(s, row.name) /\ Does(s, row.name) = s
      BY <1>1 DEF Taken
    <3>2. QED
      BY <3>1 DEF Meaning, After
  <2> HIDE DEF idle
  <2>3. Fine(s) /\ s \in Still(s)
    BY StillMachines
  <2>4. (s.PC + row.bytes) % Word = After(s, row)
    BY Sizes DEF After
  <2> DEFINE u == [s EXCEPT !.PC = After(s, row), !.idle_time = idle]
  <2>5. cpu_dispatch(s, row) = u /\ Meaning(s, row) = u
    BY <2>1, <2>2, <2>3, <2>4
  <2>6. u.F.low = 0
    BY <2>3, Settled
  <2> HIDE DEF u
  <2>7. QED
    BY <2>5, <2>6 DEF Agrees
<1>2. CASE row.family[1] \in ConditionalFamilies => check_cc(s, row)
  <2> DEFINE t == Executed(s, row)
             idle == (t.idle_time + row.cycles + row.xtra_cycles) % 256
             target == Target(s, done, row.name, After(s, row))
             i == (done.idle_time + row.cycles + row.xtra_cycles) % 256
  <2>1. cpu_dispatch(s, row) = IF ~Fine(t) THEN t
                               ELSE [t EXCEPT !.PC = IF row.family[1] \in JumpFamilies THEN t.PC ELSE (t.PC + row.bytes) % Word,
                                              !.idle_time = idle]
    BY <1>2 DEF cpu_dispatch
  <2>2. Meaning(s, row) = Concluded(s, done, target, i)
    <3>1. Taken(s, row.name)
      BY <1>2 DEF Taken
    <3>2. Stacked(Does(s, row.name), row.name, After(s, row)) = done
      OBVIOUS
    <3>3. Target(s, done, row.name, After(s, row)) = target /\ (done.idle_time + row.cycles + row.xtra_cycles) % 256 = i
      OBVIOUS
    <3> HIDE DEF target, i
    <3>4. QED
      BY <3>1, <3>2, <3>3, MeaningTaken
  <2>3. CASE /\ done \in Still(s) /\ t = [done EXCEPT !.PC = p]
             /\ (IF row.family[1] \in JumpFamilies THEN p ELSE (p + row.bytes) % Word) = target
    <3> HIDE DEF t, target
    <3>1. Fine(done) /\ done \in Machines
      BY <2>3, StillMachines
    <3>2. t.PC = p /\ t.idle_time = done.idle_time /\ t.err = done.err
      BY <2>3, <3>1 DEF Machines
    <3>3. Fine(t)
      BY <3>1, <3>2 DEF Fine
    <3>4. cpu_dispatch(s, row) = [t EXCEPT !.PC = target, !.idle_time = idle]
      BY <2>1, <2>3, <3>2, <3>3
    <3>5. Meaning(s, row) = [done EXCEPT !.PC = target, !.idle_time = idle]
      <4>1. i = idle
        BY <3>2
      <4> HIDE DEF i, idle
      <4>2. QED
        BY <2>2, <3>1, <4>1 DEF Concluded
    <3> HIDE DEF idle
    <3>6. [t EXCEPT !.PC = target, !.idle_time = idle] = [done EXCEPT !.PC = target, !.idle_time = idle]
      BY <2>3, <3>1 DEF Machines
    <3>7. QED
      BY <2>3, <3>4, <3>5, <3>6, Settled DEF Agrees
  <2>4. CASE done = Fail(s, "ERR_BAD_PARAMETER") /\ t = done
    <3> HIDE DEF t
    <3>1. ~Fine(done) /\ done.F.low = 0 /\ Fail(s, done.err) = done
      BY <2>4, Failed
    <3>2. QED
      BY <2>1, <2>2, <2>4, <3>1 DEF Agrees, Concluded
  <2>5. QED
    BY <2>3, <2>4
<1>3. QED
  BY <1>1, <1>2
\* A target is a word already.
LEMMA GoneTo == ASSUME FullWidth, NEW t, NEW a \in U16 PROVE Goto(t, a) = [t EXCEPT !.PC = a]
<1>1. a % Word = a
  BY InWord, Sizes
<1>2. QED
  BY <1>1 DEF Goto

\* The condition in the opcode is the one in the name.
LEMMA ConditionsHold ==
  ASSUME NEW s \in Tidy, NEW row, NEW c \in Coded(Conditions), extract_cc(row.opcode) = c.code
  PROVE  check_cc(s, row) <=> Holds(s, c.x)
<1> DEFINE z == get_flag(s.F, "Z")
           q == get_flag(s.F, "C")
<1>1. z \in 0 .. 1 /\ q \in 0 .. 1 /\ (z = 1 <=> Up(s, "Z")) /\ (q = 1 <=> Up(s, "C"))
  BY Flag, Kept
<1>2. \/ c.code = 0 /\ c.x = "NZ"
      \/ c.code = 1 /\ c.x = "Z"
      \/ c.code = 2 /\ c.x = "NC"
      \/ c.code = 3 /\ c.x = "C"
  BY DEF Coded, Conditions
<1>3. check_cc(s, row) <=> (IF c.code < 2 THEN z ELSE q) = c.code % 2
  BY <1>2 DEF check_cc
<1>4. /\ Holds(s, "NZ") <=> ~Up(s, "Z")
      /\ Holds(s, "Z") <=> Up(s, "Z")
      /\ Holds(s, "NC") <=> ~Up(s, "C")
      /\ Holds(s, "C") <=> Up(s, "C")
  BY DEF Holds
<1> HIDE DEF z, q
<1>5. CASE c.code = 0 /\ c.x = "NZ"
  BY <1>1, <1>3, <1>4, <1>5
<1>6. CASE c.code = 1 /\ c.x = "Z"
  BY <1>1, <1>3, <1>4, <1>6
<1>7. CASE c.code = 2 /\ c.x = "NC"
  BY <1>1, <1>3, <1>4, <1>7
<1>8. CASE c.code = 3 /\ c.x = "C"
  BY <1>1, <1>3, <1>4, <1>8
<1>9. QED
  BY <1>2, <1>5, <1>6, <1>7, <1>8

\* Jumps, calls and returns, with a condition or without.
LEMMA AlwaysHold ==
  ASSUME NEW s, NEW x, x \notin {"NZ", "Z", "NC", "C"}
  PROVE  Holds(s, x)
BY DEF Holds

\* A row whose condition, where it has one, is in its name.
Conditioned(s, row) ==
  /\ row.family[1] \in ConditionalFamilies => (check_cc(s, row) <=> Holds(s, row.name[2]))
  /\ row.family[1] \notin ConditionalFamilies => Holds(s, row.name[2])

LEMMA JPAgrees ==
  ASSUME FullWidth, NEW s \in Tidy, NEW row, Conditioned(s, row), row.bytes = Length(row), row.name[1] = "JP",
         \/ row.family[1] \in {"JP_N16", "JP_CC_N16"} /\ row.name[2] # "HL"
         \/ row.family[1] = "JP_HL" /\ row.name[2] = "HL"
  PROVE  Agrees(s, row)
<1> DEFINE a == IF row.family[1] = "JP_HL" THEN HLOf(s) ELSE cpu_read_addr_after_opcode(s)
           next == After(s, row)
<1>1. Does(s, row.name) = s /\ row.name[1] \in Jumps /\ s \in Still(s)
  BY OthersStay, StillMachines DEF Jumps
<1>2. Stacked(s, row.name, next) = s
  BY DEF Stacked
<1>3. Executed(s, row) = Goto(s, a)
  BY DEF Executed, AluFamilies, StorageFamilies
<1>4. a \in U16
  BY StillMachines, HLIsWord, Follows
<1>5. Target(s, s, row.name, next) = a
  <2>1. CASE row.family[1] = "JP_HL" /\ row.name[2] = "HL"
    BY <2>1 DEF Target, Get16, HLOf
  <2>2. CASE row.family[1] \in {"JP_N16", "JP_CC_N16"} /\ row.name[2] # "HL"
    BY <2>2, FollowingIs DEF Target
  <2>3. QED
    BY <2>1, <2>2
<1>6. row.family[1] \in JumpFamilies
  BY DEF JumpFamilies
<1> HIDE DEF a, next
<1>7. Executed(s, row) = [s EXCEPT !.PC = a]
  BY <1>3, <1>4, GoneTo
<1>8. (IF row.family[1] \in JumpFamilies THEN a ELSE (a + row.bytes) % Word) = Target(s, s, row.name, next)
  BY <1>5, <1>6
<1>9. QED
  BY <1>1, <1>2, <1>7, <1>8, JumpAgrees DEF Conditioned, next

LEMMA JRAgrees ==
  ASSUME FullWidth, NEW s \in Tidy, NEW row, Conditioned(s, row), row.bytes = Length(row), row.bytes \in Nat, row.name[1] = "JR",
         row.family[1] \in {"JR_E8", "JR_CC_E8"}
  PROVE  Agrees(s, row)
<1> DEFINE b == cpu_read_data_after_opcode(s)
           d == IF b > 127 THEN b - 256 ELSE b
           p == (s.PC + d) % 65536
           n == row.bytes
           next == After(s, row)
<1>1. Does(s, row.name) = s /\ row.name[1] \in Jumps /\ s \in Still(s)
  BY OthersStay, StillMachines DEF Jumps
<1>2. Stacked(s, row.name, next) = s
  BY DEF Stacked
<1>3. Executed(s, row) = Goto(s, s.PC + Signed8(b))
  BY DEF Executed, AluFamilies, StorageFamilies
<1>4. b \in Int /\ 0 <= b /\ b < 256 /\ s.PC \in Int /\ Following(s) = b
  BY StillMachines, Follows, InByte, Fields, WordIsInt, FollowingIs
<1>5. next = (s.PC + n) % 65536
  BY DEF After
<1>6. Target(s, s, row.name, next) = (next + d) % 65536
  <2>1. Target(s, s, row.name, next) = (next + IF Following(s) > 127 THEN Following(s) - 256 ELSE Following(s)) % 65536
    BY DEF Target
  <2> HIDE DEF b, next
  <2>2. QED
    BY <1>4, <2>1
<1> HIDE DEF b
<1>7. Signed8(b) = d /\ d \in Int
  BY <1>4 DEF Signed8
<1> HIDE DEF d
<1>8. Executed(s, row) = [s EXCEPT !.PC = p]
  BY <1>3, <1>7, Sizes DEF Goto
<1>9. (p + n) % 65536 = (next + d) % 65536
  <2> DEFINE pc == s.PC
  <2>1. pc \in Int /\ d \in Int /\ n \in Int
    BY <1>4, <1>7
  <2>2. p = (pc + d) % 65536 /\ next = (pc + n) % 65536
    BY <1>5
  <2> HIDE DEF pc, n, p, next
  <2>3. (((pc + d) % 65536) + n) % 65536 = (((pc + n) % 65536) + d) % 65536
    BY <2>1
  <2>4. QED
    BY <2>2, <2>3
<1>10. row.family[1] \notin JumpFamilies
  BY DEF JumpFamilies
<1> HIDE DEF p, next
<1>11. (IF row.family[1] \in JumpFamilies THEN p ELSE (p + row.bytes) % Word) = Target(s, s, row.name, next)
  BY <1>6, <1>9, <1>10, Sizes
<1>12. QED
  BY <1>1, <1>2, <1>8, <1>11, JumpAgrees DEF Conditioned, next
\* The target of a CALL is read once the return address is pushed.
LEMMA CALLAgrees ==
  ASSUME FullWidth, NEW s \in Tidy, NEW row, Conditioned(s, row), row.bytes = Length(row), row.bytes \in Nat, row.name[1] = "CALL",
         row.family[1] \in {"CALL_N16", "CALL_CC_N16"}
  PROVE  Agrees(s, row)
<1> DEFINE next == After(s, row)
           done == Push(s, next)
           a    == cpu_read_addr_after_opcode(done)
<1>1. Does(s, row.name) = s /\ row.name[1] \in Jumps /\ s \in Still(s)
  BY OthersStay, StillMachines DEF Jumps
<1>2. next = (s.PC + row.bytes) % Word
  BY Sizes DEF After
<1>3. next \in U16
  <2>1. s.PC + row.bytes \in Int
    BY StillMachines, Fields, InWord
  <2> HIDE DEF next
  <2>2. QED
    BY <1>2, <2>1, InWords
<1>4. Executed(s, row) = Call(s, row)
  BY DEF Executed, AluFamilies, StorageFamilies
<1>5. Stacked(s, row.name, next) = done
  BY DEF Stacked
<1>6. row.family[1] \in JumpFamilies
  BY DEF JumpFamilies
<1> HIDE DEF next
<1>7. cpu_SP_push(s, next) = done /\ done \in Still(s) \cup {Fail(s, "ERR_BAD_PARAMETER")}
  BY <1>1, <1>3, PushesAs
<1>8. Call(s, row) = IF Fine(done) THEN Goto(done, a) ELSE done
  BY <1>2, <1>7 DEF Call
<1>9. Target(s, done, row.name, next) = a
  BY FollowingIs DEF Target
<1> HIDE DEF done
<1>10. CASE done \in Still(s)
  <2>1. Fine(done) /\ a \in U16
    BY <1>10, StillMachines, Follows
  <2> HIDE DEF a
  <2>2. Executed(s, row) = [done EXCEPT !.PC = a]
    BY <1>4, <1>8, <2>1, GoneTo
  <2>3. (IF row.family[1] \in JumpFamilies THEN a ELSE (a + row.bytes) % Word) = Target(s, done, row.name, next)
    BY <1>6, <1>9
  <2>4. QED
    BY <1>1, <1>5, <1>10, <2>2, <2>3, JumpAgrees DEF Conditioned, next
<1>11. CASE done = Fail(s, "ERR_BAD_PARAMETER")
  <2>1. ~Fine(done)
    BY <1>11, Failed
  <2>2. Executed(s, row) = done
    BY <1>4, <1>8, <2>1
  <2>3. QED
    BY <1>1, <1>5, <1>11, <2>2, JumpAgrees DEF Conditioned, next
<1>12. QED
  BY <1>7, <1>10, <1>11

LEMMA RETAgrees ==
  ASSUME FullWidth, NEW s \in Tidy, NEW row, Conditioned(s, row), row.bytes = Length(row),
         \/ row.family[1] \in {"RET", "RET_CC"} /\ row.name[1] = "RET"
         \/ row.family[1] = "RETI" /\ row.name[1] = "RETI"
  PROVE  Agrees(s, row)
<1> DEFINE u    == IF row.name[1] = "RETI" THEN [s EXCEPT !.IME = 1] ELSE s
           next == After(s, row)
           done == AfterPop(u)
           a    == Popped(u)
<1>1. Does(s, row.name) = u /\ row.name[1] \in Jumps
  <2>1. CASE row.name[1] = "RET"
    BY <2>1, OthersStay DEF Jumps
  <2>2. CASE row.name[1] = "RETI"
    BY <2>2 DEF Does, Jumps
  <2>3. QED
    BY <2>1, <2>2
<1>2. u \in Still(s)
  <2>1. 1 \in Switches
    BY DEF Switches
  <2>2. s \in Still(s) /\ [s EXCEPT !.IME = 1] \in Still(s)
    BY <2>1, StillMachines, StillOneField
  <2>3. QED
    BY <2>2
<1>3. Executed(s, row) = Return(u)
  <2>1. CASE row.family[1] \in {"RET", "RET_CC"} /\ row.name[1] = "RET"
    BY <2>1 DEF Executed, AluFamilies, StorageFamilies
  <2>2. CASE row.family[1] = "RETI" /\ row.name[1] = "RETI"
    BY <2>2 DEF Executed, AluFamilies, StorageFamilies
  <2>3. QED
    BY <2>1, <2>2
<1>4. u.SP = s.SP /\ u.mem = s.mem /\ u.gap = s.gap
  BY StillMachines DEF Machines
<1>5. a = cpu_read16_at_idx(s, s.SP)
  BY <1>4 DEF Popped, cpu_read16_at_idx, ByteAt
<1>6. Target(s, done, row.name, next) = a
  <2>1. Target(s, done, row.name, next) = cpu_read16_at_idx(s, s.SP)
    BY DEF Target
  <2>2. QED
    BY <1>5, <2>1
<1>7. row.family[1] \in ConditionalFamilies => row.name[1] = "RET"
  BY DEF ConditionalFamilies
<1>8. row.family[1] \in JumpFamilies
  BY DEF JumpFamilies
<1>9. row.name[1] = "RET" => u = s
  OBVIOUS
<1> HIDE DEF u
<1>10. u \in Tidy /\ Still(u) = Still(s)
  BY <1>2, StillMachines
<1>11. done = [u EXCEPT !.SP = (@ + 2) % 65536] /\ done \in Still(s)
  BY <1>10, PopStill
<1>12. Stacked(u, row.name, next) = done
  BY <1>11 DEF Stacked
<1>13. a \in U16
  BY <1>10, StillMachines, Pops
<1>14. Return(u) = Goto(done, a)
  BY DEF Return
<1> HIDE DEF done, a
<1>15. Executed(s, row) = [done EXCEPT !.PC = a]
  BY <1>3, <1>13, <1>14, GoneTo
<1>16. (IF row.family[1] \in JumpFamilies THEN a ELSE (a + row.bytes) % Word) = Target(s, done, row.name, next)
  BY <1>6, <1>8
<1>17. Stacked(Does(s, row.name), row.name, After(s, row)) = done
  BY <1>1, <1>12
<1>18. row.family[1] \in ConditionalFamilies => (check_cc(s, row) <=> Holds(s, row.name[2])) /\ Does(s, row.name) = s
  BY <1>1, <1>7, <1>9 DEF Conditioned
<1>19. row.family[1] \notin ConditionalFamilies => Holds(s, row.name[2])
  BY DEF Conditioned
<1>20. done \in Still(s)
  BY <1>11
<1>21. QED
  BY <1>1, <1>20, <1>15, <1>16, <1>17, <1>18, <1>19, JumpAgrees

\* RST goes on where its return address cannot be pushed.
LEMMA RSTAgrees ==
  ASSUME FullWidth, NEW s \in Tidy, NEW row, Conditioned(s, row), row.bytes = Length(row), row.bytes = 1, row.name[1] = "RST",
         row.family[1] = "RST_U3", NEW i \in 0 .. 7, extract_n3(row.opcode) = i, Digit(row.name[2]) = i
  PROVE  Agrees(s, row)
<1> DEFINE next == After(s, row)
           done == Unchecked(Push(s, next))
           a    == 8 * i
<1>1. Does(s, row.name) = s /\ row.name[1] \in Jumps /\ s \in Still(s)
  BY OthersStay, StillMachines DEF Jumps
<1>2. next = (s.PC + 1) % Word
  BY Sizes DEF After
<1>3. next \in U16
  <2>1. s.PC + 1 \in Int
    BY StillMachines, Fields, InWord
  <2> HIDE DEF next
  <2>2. QED
    BY <1>2, <2>1, InWords
<1>4. Executed(s, row) = Restart(s, row)
  BY DEF Executed, AluFamilies, StorageFamilies
<1>5. Stacked(s, row.name, next) = done
  BY DEF Stacked
<1>6. row.family[1] \in JumpFamilies
  BY DEF JumpFamilies
<1>7. Target(s, done, row.name, next) = a
  BY DEF Target
<1> HIDE DEF next
<1>8. cpu_SP_push(s, next) = Push(s, next) /\ Push(s, next) \in Still(s) \cup {Fail(s, "ERR_BAD_PARAMETER")}
  BY <1>1, <1>3, PushesAs
<1>9. done \in Still(s)
  <2>1. CASE Push(s, next) \in Still(s)
    BY <2>1, StillMachines, NothingUnchecked
  <2>2. CASE Push(s, next) = Fail(s, "ERR_BAD_PARAMETER")
    BY <1>1, <2>2, StillMachines, Failing
  <2>3. QED
    BY <1>8, <2>1, <2>2
<1>10. Restart(s, row) = Goto(done, a)
  BY <1>2, <1>8 DEF Restart
<1>11. a \in U16
  BY InWord
<1> HIDE DEF done, a
<1>12. Executed(s, row) = [done EXCEPT !.PC = a]
  BY <1>4, <1>10, <1>11, GoneTo
<1>13. (IF row.family[1] \in JumpFamilies THEN a ELSE (a + row.bytes) % Word) = Target(s, done, row.name, next)
  BY <1>6, <1>7
<1>14. QED
  BY <1>1, <1>5, <1>9, <1>12, <1>13, JumpAgrees DEF Conditioned, next

-------------------------------------------------------------------------------
(* The rows of opcode.h: their lengths and their parts *)

Short == {"N8", "E8", "N8R", "N", "SP_N8"}
Long == {"N16", "N16R"}
Spanned(x, y) ==
  1 + (IF x \in Short \/ y \in Short THEN 1 ELSE 0) + (IF x \in Long \/ y \in Long THEN 2 ELSE 0)

\* The length of an instruction by the operands it has.
LEMMA LengthSpans ==
  ASSUME NEW row
  PROVE  /\ row.kind = "PREFIXED" => Length(row) = 2
         /\ row.kind = "DIRECT" => Length(row) = Spanned(row.name[2], row.name[3])
<1> DEFINE x == row.name[2]
           y == row.name[3]
<1>1. (Short \cap {x, y} # {}) <=> x \in Short \/ y \in Short
  OBVIOUS
<1>2. (Long \cap {x, y} # {}) <=> x \in Long \/ y \in Long
  OBVIOUS
<1>3. Length(row) = IF row.kind = "PREFIXED" THEN 2
                    ELSE 1 + (IF Short \cap {x, y} # {} THEN 1 ELSE 0) + (IF Long \cap {x, y} # {} THEN 2 ELSE 0)
  BY DEF Length, Short, Long
<1> HIDE DEF x, y
<1>4. QED
  <2>1. Spanned(x, y) = 1 + (IF Short \cap {x, y} # {} THEN 1 ELSE 0) + (IF Long \cap {x, y} # {} THEN 2 ELSE 0)
    BY <1>1, <1>2 DEF Spanned
  <2>2. QED
    BY <1>3, <2>1 DEF x, y

\* The parts of a row.
LEMMA RowIs ==
  ASSUME NEW kind, NEW verb, NEW x, NEW y, NEW family, NEW form, NEW opcode, NEW bytes, NEW cycles, NEW xtra,
         NEW row, row = INSTR_DFX(kind, <<verb, x, y>>, <<family, form>>, opcode, bytes, cycles, xtra)
  PROVE  /\ row.kind = kind /\ row.opcode = opcode /\ row.bytes = bytes /\ row.xtra_cycles = xtra
         /\ row.name = <<verb, x, y>> /\ row.name[1] = verb /\ row.name[2] = x /\ row.name[3] = y
         /\ row.family[1] = family /\ row.family[2] = form
BY DEF INSTR_DFX

\* What the name, the code and the length of a row have to do with each other, whatever
\* the row does: the row is as long as its name says, and ends in the same time always.
Even(row) == row.bytes = Length(row) /\ row.xtra_cycles = 0
Onward(row) == /\ row.family[1] \notin JumpFamilies /\ row.family[1] \notin ConditionalFamilies
               /\ row.name[1] \notin Jumps

\* A row whose length is that of its operands.
LEMMA EvenDirect ==
  ASSUME NEW verb, NEW x, NEW y, NEW family, NEW form, NEW opcode, NEW bytes, NEW cycles, bytes = Spanned(x, y),
         NEW row, row = INSTR_DFX("DIRECT", <<verb, x, y>>, <<family, form>>, opcode, bytes, cycles, 0)
  PROVE  Even(row)
<1>1. /\ row.kind = "DIRECT" /\ row.bytes = bytes /\ row.xtra_cycles = 0
      /\ row.name[2] = x /\ row.name[3] = y
  BY RowIs
<1>2. QED
  BY <1>1, LengthSpans DEF Even

LEMMA EvenPrefixed ==
  ASSUME NEW verb, NEW x, NEW y, NEW family, NEW form, NEW opcode, NEW cycles,
         NEW row, row = INSTR_DFX("PREFIXED", <<verb, x, y>>, <<family, form>>, opcode, 2, cycles, 0)
  PROVE  Even(row)
<1>1. row.kind = "PREFIXED" /\ row.bytes = 2 /\ row.xtra_cycles = 0
  BY RowIs
<1>2. QED
  BY <1>1, LengthSpans DEF Even

\* An instruction that goes on to the next one.
LEMMA OnwardAgrees ==
  ASSUME FullWidth, NEW s \in Tidy, NEW row, Done(s, row), Even(row), Onward(row)
  PROVE  Agrees(s, row)
BY StraightAgrees DEF Even, Onward

\* The codes of the registers.
LEMMA RegisterCodes ==
  /\ REG("B") = 0 /\ REG("C") = 1 /\ REG("D") = 2 /\ REG("E") = 3
  /\ REG("H") = 4 /\ REG("L") = 5 /\ REG("HLR") = 6 /\ REG("A") = 7
<1>1. \A i \in 1 .. 8 : CodeOf(R8At, R8At[i]) = i - 1
  BY DEF CodeOf, R8At
<1>2. QED
  BY <1>1 DEF REG, R8At

\* A row of the ALU: where its operand is, and that bit 3 of its opcode is that of the verb.
LEMMA AccumulatorParts ==
  ASSUME NEW verb, NEW family, family \notin {"INC", "DEC"}, NEW q \in 16 .. 23,
         NEW row \in Accumulator(verb, family, 8 * q)
  PROVE  \E x \in R8s \cup {"HLR", "N8"} :
           /\ Takes(row, x) /\ row.name = <<verb, "A", x>> /\ row.family[1] = family
           /\ row.kind = "DIRECT" /\ Even(row) /\ bit(row.opcode, 3) = q % 2
           /\ row.opcode = 8 * q + (IF x = "N8" THEN 70 ELSE REG(x))
<1>1. CASE \E r \in R8s : row = INSTR_FORM(<<verb, "A", r>>, family, "R8", 8 * q + REG(r), 1, 1)
  <2>1. PICK r \in R8s : row = INSTR_FORM(<<verb, "A", r>>, family, "R8", 8 * q + REG(r), 1, 1)
    BY <1>1
  <2>2. row = INSTR_DFX("DIRECT", <<verb, "A", r>>, <<family, "R8">>, 8 * q + REG(r), 1, 1, 0)
    BY <2>1 DEF INSTR_FORM
  <2>3. /\ row.kind = "DIRECT" /\ row.opcode = 8 * q + REG(r) /\ row.name = <<verb, "A", r>>
        /\ row.family[1] = family /\ row.family[2] = "R8"
    BY <2>2, RowIs
  <2>4. REG(r) \in 0 .. 7 /\ extract_reg(8 * q + REG(r), 0) = r
    BY Registers, RegisterCoded
  <2>5. Takes(row, r)
    BY <2>3, <2>4 DEF Takes, PlaceOf
  <2>6. Spanned("A", r) = 1 /\ r # "N8"
    BY DEF Spanned, Short, Long, R8s
  <2>7. Even(row)
    BY <2>2, <2>6, EvenDirect
  <2>8. bit(row.opcode, 3) = q % 2
    BY <2>3, <2>4 DEF bit
  <2>9. QED
    BY <2>3, <2>5, <2>6, <2>7, <2>8
<1>2. CASE row = INSTR_FORM(<<verb, "A", "HLR">>, family, "HLR", 8 * q + 6, 1, 2)
  <2>1. row = INSTR_DFX("DIRECT", <<verb, "A", "HLR">>, <<family, "HLR">>, 8 * q + 6, 1, 2, 0)
    BY <1>2 DEF INSTR_FORM
  <2>2. /\ row.kind = "DIRECT" /\ row.opcode = 8 * q + REG("HLR") /\ row.name = <<verb, "A", "HLR">>
        /\ row.family[1] = family /\ row.family[2] = "HLR"
    BY <2>1, RowIs, RegisterCodes
  <2>3. Takes(row, "HLR")
    BY <2>2 DEF Takes
  <2>4. Spanned("A", "HLR") = 1
    BY DEF Spanned, Short, Long
  <2>5. Even(row)
    BY <2>1, <2>4, EvenDirect
  <2>6. bit(row.opcode, 3) = q % 2
    BY <2>2, RegisterCodes DEF bit
  <2>7. QED
    BY <2>2, <2>3, <2>5, <2>6
<1>3. CASE row = INSTR_FORM(<<verb, "A", "N8">>, family, "N8", 8 * q + 70, 2, 2)
  <2>1. row = INSTR_DFX("DIRECT", <<verb, "A", "N8">>, <<family, "N8">>, 8 * q + 70, 2, 2, 0)
    BY <1>3 DEF INSTR_FORM
  <2>2. /\ row.kind = "DIRECT" /\ row.opcode = 8 * q + 70 /\ row.name = <<verb, "A", "N8">>
        /\ row.family[1] = family /\ row.family[2] = "N8"
    BY <2>1, RowIs
  <2>3. Takes(row, "N8")
    BY <2>2 DEF Takes
  <2>4. Spanned("A", "N8") = 2
    BY DEF Spanned, Short, Long
  <2>5. Even(row)
    BY <2>1, <2>4, EvenDirect
  <2>6. bit(row.opcode, 3) = q % 2
    BY <2>2 DEF bit
  <2>7. QED
    BY <2>2, <2>3, <2>5, <2>6
<1>4. QED
  BY <1>1, <1>2, <1>3 DEF Accumulator

\* The rows of a group, in parts: family, form, operand and length.
LEMMA CountedParts ==
  ASSUME NEW verb, NEW family \in {"INC", "DEC"}, NEW z \in {4, 5}, NEW row \in Counted(verb, family, z)
  PROVE  \E x \in R8s \cup {"HLR"} :
           /\ Takes(row, x) /\ row.name = <<verb, x, "-">> /\ row.family[1] = family
           /\ row.family[2] \in {"R8", "HLR"}
           /\ row.kind = "DIRECT" /\ Even(row) /\ row.opcode = z + 8 * REG(x)
<1>1. CASE \E r \in R8s : row = INSTR_FORM(<<verb, r, "-">>, family, "R8", z + 8 * REG(r), 1, 1)
  <2>1. PICK r \in R8s : row = INSTR_FORM(<<verb, r, "-">>, family, "R8", z + 8 * REG(r), 1, 1)
    BY <1>1
  <2>2. row = INSTR_DFX("DIRECT", <<verb, r, "-">>, <<family, "R8">>, z + 8 * REG(r), 1, 1, 0)
    BY <2>1 DEF INSTR_FORM
  <2>3. /\ row.kind = "DIRECT" /\ row.opcode = z + 8 * REG(r) /\ row.name = <<verb, r, "-">>
        /\ row.family[1] = family /\ row.family[2] = "R8"
    BY <2>2, RowIs
  <2>4. extract_reg(64 * 0 + 8 * REG(r) + z, 3) = r
    BY HighRegisterCoded
  <2>5. 64 * 0 + 8 * REG(r) + z = z + 8 * REG(r)
    BY Registers
  <2>6. Takes(row, r)
    BY <2>3, <2>4, <2>5 DEF Takes, PlaceOf
  <2>7. Spanned(r, "-") = 1
    BY DEF Spanned, Short, Long, R8s
  <2>8. Even(row)
    BY <2>2, <2>7, EvenDirect
  <2>9. QED
    BY <2>3, <2>6, <2>8
<1>2. CASE row = INSTR_FORM(<<verb, "HLR", "-">>, family, "HLR", z + 48, 1, 3)
  <2>1. row = INSTR_DFX("DIRECT", <<verb, "HLR", "-">>, <<family, "HLR">>, z + 48, 1, 3, 0)
    BY <1>2 DEF INSTR_FORM
  <2>2. /\ row.kind = "DIRECT" /\ row.opcode = z + 48 /\ row.name = <<verb, "HLR", "-">>
        /\ row.family[1] = family /\ row.family[2] = "HLR"
    BY <2>1, RowIs
  <2>3. Takes(row, "HLR")
    BY <2>2 DEF Takes
  <2>4. Spanned("HLR", "-") = 1
    BY DEF Spanned, Short, Long
  <2>5. Even(row)
    BY <2>1, <2>4, EvenDirect
  <2>6. row.opcode = z + 8 * REG("HLR")
    BY <2>2, RegisterCodes
  <2>7. QED
    BY <2>2, <2>3, <2>5, <2>6
<1>3. QED
  BY <1>1, <1>2 DEF Counted

LEMMA ShiftedParts ==
  ASSUME NEW verb, NEW family, family \notin {"INC", "DEC"}, NEW q \in 0 .. 7, NEW row \in Shifted(verb, family, 8 * q)
  PROVE  \E x \in R8s \cup {"HLR"} :
           /\ Takes(row, x) /\ row.name = <<verb, x, "-">> /\ row.family[1] = family
           /\ row.family[2] \in {"R8", "HLR"} /\ bit(row.opcode, 3) = q % 2
           /\ row.kind = "PREFIXED" /\ Even(row) /\ row.opcode = 8 * q + REG(x)
<1>1. CASE \E r \in R8s : row = INSTR_PRE(<<verb, r, "-">>, family, "R8", 8 * q + REG(r), 2)
  <2>1. PICK r \in R8s : row = INSTR_PRE(<<verb, r, "-">>, family, "R8", 8 * q + REG(r), 2)
    BY <1>1
  <2>2. row = INSTR_DFX("PREFIXED", <<verb, r, "-">>, <<family, "R8">>, 8 * q + REG(r), 2, 2, 0)
    BY <2>1 DEF INSTR_PRE
  <2>3. /\ row.kind = "PREFIXED" /\ row.opcode = 8 * q + REG(r) /\ row.name = <<verb, r, "-">>
        /\ row.family[1] = family /\ row.family[2] = "R8"
    BY <2>2, RowIs
  <2>4. REG(r) \in 0 .. 7 /\ extract_reg(8 * q + REG(r), 0) = r
    BY Registers, RegisterCoded
  <2>5. Takes(row, r)
    BY <2>3, <2>4 DEF Takes, PlaceOf
  <2>6. Even(row)
    BY <2>2, EvenPrefixed
  <2>7. bit(row.opcode, 3) = q % 2
    BY <2>3, <2>4 DEF bit
  <2>8. QED
    BY <2>3, <2>5, <2>6, <2>7
<1>2. CASE row = INSTR_PRE(<<verb, "HLR", "-">>, family, "HLR", 8 * q + 6, 4)
  <2>1. row = INSTR_DFX("PREFIXED", <<verb, "HLR", "-">>, <<family, "HLR">>, 8 * q + 6, 2, 4, 0)
    BY <1>2 DEF INSTR_PRE
  <2>2. /\ row.kind = "PREFIXED" /\ row.opcode = 8 * q + REG("HLR") /\ row.name = <<verb, "HLR", "-">>
        /\ row.family[1] = family /\ row.family[2] = "HLR"
    BY <2>1, RowIs, RegisterCodes
  <2>3. Takes(row, "HLR")
    BY <2>2 DEF Takes
  <2>4. Even(row)
    BY <2>1, EvenPrefixed
  <2>5. bit(row.opcode, 3) = q % 2
    BY <2>2, RegisterCodes DEF bit
  <2>6. QED
    BY <2>2, <2>3, <2>4, <2>5
<1>3. QED
  BY <1>1, <1>2 DEF Shifted

\* The code of one of the operands of a table of operands.
LEMMA CodedIs ==
  ASSUME NEW at \in {R16At, R16SPAt, Conditions, U3At}, NEW p \in Coded(at)
  PROVE  /\ p.x = at[p.code + 1] /\ p.code + 1 \in DOMAIN at
         /\ p.code \in 0 .. (IF at = U3At THEN 7 ELSE 3)
<1>1. PICK i \in DOMAIN at : p = [x |-> at[i], code |-> i - 1]
  BY DEF Coded
<1>2. /\ DOMAIN R16SPAt = 1 .. 4 /\ DOMAIN R16At = 1 .. 4 /\ DOMAIN Conditions = 1 .. 4 /\ DOMAIN U3At = 1 .. 8
  BY DEF R16SPAt, R16At, Conditions, U3At
<1>3. i \in 1 .. (IF at = U3At THEN 8 ELSE 4)
  BY <1>2
<1>4. p.x = at[i] /\ p.code = i - 1
  BY <1>1
<1>5. i = p.code + 1
  BY <1>3, <1>4
<1>6. QED
  BY <1>3, <1>4, <1>5

\* The digits of U3At.
LEMMA DigitIs == ASSUME NEW i \in 0 .. 7 PROVE Digit(U3At[i + 1]) = i
BY DEF Digit, U3At

\* What is cut out of the opcode of BIT, RES and SET.
LEMMA PlacedBits ==
  ASSUME NEW q \in {8, 16, 24}, NEW i \in 0 .. 7, NEW k \in 0 .. 7, NEW op, op = 8 * q + 8 * i + k
  PROVE  extract_n3(op) = i /\ bit(op, 6) = (q \div 8) % 2
<1>1. CASE q = 8
  <2>1. (op \div 8) % 8 = i /\ (op \div 64) % 2 = 1 /\ op \in Int
    BY <1>1
  <2>2. 2 ^ 6 = 64 /\ (q \div 8) % 2 = 1
    BY <1>1
  <2>3. QED
    BY <2>1, <2>2 DEF extract_n3, bit
<1>2. CASE q = 16
  <2>1. (op \div 8) % 8 = i /\ (op \div 64) % 2 = 0 /\ op \in Int
    BY <1>2
  <2>2. 2 ^ 6 = 64 /\ (q \div 8) % 2 = 0
    BY <1>2
  <2>3. QED
    BY <2>1, <2>2 DEF extract_n3, bit
<1>3. CASE q = 24
  <2>1. (op \div 8) % 8 = i /\ (op \div 64) % 2 = 1 /\ op \in Int
    BY <1>3
  <2>2. 2 ^ 6 = 64 /\ (q \div 8) % 2 = 1
    BY <1>3
  <2>3. QED
    BY <2>1, <2>2 DEF extract_n3, bit
<1>4. QED
  BY <1>1, <1>2, <1>3

\* A row of BIT, RES or SET.
PlacedAs(row, verb, family, q) ==
  \E x \in R8s \cup {"HLR"}, i \in 0 .. 7 :
    /\ Takes(row, x) /\ row.name = <<verb, U3At[i + 1], x>> /\ row.family[1] = family
    /\ row.family[2] \in {"R8", "HLR"} /\ extract_n3(row.opcode) = i /\ bit(row.opcode, 6) = (q \div 8) % 2
    /\ row.kind = "PREFIXED" /\ Even(row) /\ row.opcode = 8 * q + 8 * i + REG(x)

LEMMA PlacedParts ==
  ASSUME NEW verb, NEW family, family \notin {"INC", "DEC"}, NEW q \in {8, 16, 24}, NEW cycles,
         NEW row \in Placed(verb, family, 8 * q, cycles)
  PROVE  PlacedAs(row, verb, family, q)
<1>1. CASE \E u \in Coded(U3At), r \in R8s :
             row = INSTR_PRE(<<verb, u.x, r>>, family, "R8", 8 * q + 8 * u.code + REG(r), 2)
  <2>1. PICK u \in Coded(U3At), r \in R8s :
          row = INSTR_PRE(<<verb, u.x, r>>, family, "R8", 8 * q + 8 * u.code + REG(r), 2)
    BY <1>1
  <2>2. u.code \in 0 .. 7 /\ u.x = U3At[u.code + 1]
    BY CodedIs
  <2>3. row = INSTR_DFX("PREFIXED", <<verb, u.x, r>>, <<family, "R8">>, 8 * q + 8 * u.code + REG(r), 2, 2, 0)
    BY <2>1 DEF INSTR_PRE
  <2>4. /\ row.kind = "PREFIXED" /\ row.opcode = 8 * q + 8 * u.code + REG(r) /\ row.name = <<verb, u.x, r>>
        /\ row.family[1] = family /\ row.family[2] = "R8"
    BY <2>3, RowIs
  <2>5. q + u.code \in 0 .. 31
    BY <2>2
  <2>6. REG(r) \in 0 .. 7 /\ extract_reg(8 * (q + u.code) + REG(r), 0) = r
    BY <2>5, Registers, RegisterCoded
  <2>7. 8 * (q + u.code) + REG(r) = row.opcode
    BY <2>2, <2>4, <2>6
  <2>8. Takes(row, r)
    BY <2>4, <2>6, <2>7 DEF Takes, PlaceOf
  <2>9. extract_n3(row.opcode) = u.code /\ bit(row.opcode, 6) = (q \div 8) % 2
    BY <2>2, <2>4, <2>6, PlacedBits
  <2>10. Even(row)
    BY <2>3, EvenPrefixed
  <2>11. QED
    BY <2>2, <2>4, <2>8, <2>9, <2>10 DEF PlacedAs
<1>2. CASE \E u \in Coded(U3At) :
             row = INSTR_PRE(<<verb, u.x, "HLR">>, family, "HLR", 8 * q + 8 * u.code + 6, cycles)
  <2>1. PICK u \in Coded(U3At) :
          row = INSTR_PRE(<<verb, u.x, "HLR">>, family, "HLR", 8 * q + 8 * u.code + 6, cycles)
    BY <1>2
  <2>2. u.code \in 0 .. 7 /\ u.x = U3At[u.code + 1]
    BY CodedIs
  <2>3. row = INSTR_DFX("PREFIXED", <<verb, u.x, "HLR">>, <<family, "HLR">>, 8 * q + 8 * u.code + 6, 2, cycles, 0)
    BY <2>1 DEF INSTR_PRE
  <2>4. /\ row.kind = "PREFIXED" /\ row.opcode = 8 * q + 8 * u.code + REG("HLR") /\ row.name = <<verb, u.x, "HLR">>
        /\ row.family[1] = family /\ row.family[2] = "HLR"
    BY <2>3, RowIs, RegisterCodes
  <2>5. Takes(row, "HLR")
    BY <2>4 DEF Takes
  <2>6. extract_n3(row.opcode) = u.code /\ bit(row.opcode, 6) = (q \div 8) % 2
    BY <2>2, <2>4, RegisterCodes, PlacedBits
  <2>7. Even(row)
    BY <2>3, EvenPrefixed
  <2>8. QED
    BY <2>2, <2>4, <2>5, <2>6, <2>7 DEF PlacedAs
<1>3. QED
  <2>1. \/ row \in {INSTR_PRE(<<verb, u.x, r>>, family, "R8", 8 * q + 8 * u.code + REG(r), 2) :
                     u \in Coded(U3At), r \in R8s}
        \/ row \in {INSTR_PRE(<<verb, u.x, "HLR">>, family, "HLR", 8 * q + 8 * u.code + 6, cycles) :
                     u \in Coded(U3At)}
    BY DEF Placed
  <2>2. (\E u \in Coded(U3At), r \in R8s :
             row = INSTR_PRE(<<verb, u.x, r>>, family, "R8", 8 * q + 8 * u.code + REG(r), 2))
        \/ (\E u \in Coded(U3At) :
             row = INSTR_PRE(<<verb, u.x, "HLR">>, family, "HLR", 8 * q + 8 * u.code + 6, cycles))
    BY <2>1
  <2>3. QED
    BY <2>2, <1>1, <1>2

\* The pair that is cut out of an opcode.
LEMMA PairCut ==
  ASSUME NEW z \in {1, 3, 9, 11, 193, 197}, NEW i \in 0 .. 3
  PROVE  extract_reg_pair(z + 16 * i) = i
<1>1. CASE z \in {1, 3, 9, 11}
  <2>1. (z + 16 * i) \div 16 = i
    BY <1>1
  <2>2. QED
    BY <2>1 DEF extract_reg_pair
<1>2. CASE z \in {193, 197}
  <2>1. (z + 16 * i) \div 16 = 12 + i
    BY <1>2
  <2>2. (12 + i) % 4 = i
    OBVIOUS
  <2>3. QED
    BY <2>1, <2>2 DEF extract_reg_pair
<1>3. QED
  BY <1>1, <1>2

LEMMA Pairs ==
  ASSUME NEW i \in 0 .. 3
  PROVE  R16SPAt[i + 1] \in {"BC", "DE", "HL", "SP"} /\ R16At[i + 1] \in {"BC", "DE", "HL", "AF"}
BY DEF R16SPAt, R16At

LEMMA WideParts ==
  ASSUME NEW verb, NEW family, NEW z \in {3, 11}, NEW row \in Wide(verb, family, z)
  PROVE  \E i \in 0 .. 3 :
           /\ row.name = <<verb, R16SPAt[i + 1], "-">> /\ row.family[1] = family /\ row.family[2] = "R16SP"
           /\ row.kind = "DIRECT" /\ Even(row) /\ row.opcode = z + 16 * i
<1>1. PICK p \in Coded(R16SPAt) : row = INSTR_FORM(<<verb, p.x, "-">>, family, "R16SP", z + 16 * p.code, 1, 2)
  BY DEF Wide
<1>2. p.code \in 0 .. 3 /\ p.x = R16SPAt[p.code + 1]
  <2>1. R16SPAt # U3At
    <3>1. R16SPAt[1] = "BC" /\ U3At[1] = "0"
      BY DEF R16SPAt, U3At
    <3>2. QED
      BY <3>1
  <2>2. QED
    BY <2>1, CodedIs
<1>3. row = INSTR_DFX("DIRECT", <<verb, p.x, "-">>, <<family, "R16SP">>, z + 16 * p.code, 1, 2, 0)
  BY <1>1 DEF INSTR_FORM
<1>4. /\ row.kind = "DIRECT" /\ row.opcode = z + 16 * p.code /\ row.name = <<verb, p.x, "-">>
      /\ row.family[1] = family /\ row.family[2] = "R16SP"
  BY <1>3, RowIs
<1>5. Spanned(p.x, "-") = 1
  <2>1. p.x \in {"BC", "DE", "HL", "SP"}
    BY <1>2, Pairs
  <2>2. QED
    BY <2>1 DEF Spanned, Short, Long
<1>6. Even(row)
  BY <1>3, <1>5, EvenDirect
<1>7. QED
  BY <1>2, <1>4, <1>6

\* The condition that is cut out of an opcode.
LEMMA ConditionCut ==
  ASSUME NEW base \in {32, 192, 194, 196}, NEW i \in 0 .. 3
  PROVE  extract_cc(base + 8 * i) = i
<1>1. (base + 8 * i) \div 8 = base \div 8 + i /\ base \div 8 \in {4, 24}
  <2>1. CASE base = 32
    BY <2>1
  <2>2. CASE base = 192
    BY <2>2
  <2>3. CASE base = 194
    BY <2>3
  <2>4. CASE base = 196
    BY <2>4
  <2>5. QED
    BY <2>1, <2>2, <2>3, <2>4
<1>2. (4 + i) % 4 = i /\ (24 + i) % 4 = i
  OBVIOUS
<1>3. QED
  BY <1>1, <1>2 DEF extract_cc

\* A conditional row, and that the code of its condition is the condition of its name.
ConditionedAs(row, verb, to, family, base, bytes) ==
  \E i \in 0 .. 3 :
    /\ row.name = <<verb, Conditions[i + 1], to>> /\ row.family[1] = family
    /\ row.kind = "DIRECT" /\ row.bytes = bytes /\ row.bytes = Length(row) /\ row.opcode = base + 8 * i
    /\ \A s \in Tidy : check_cc(s, row) <=> Holds(s, Conditions[i + 1])

\* The rows of the four conditions: the condition cut out of the opcode is the one named.
LEMMA ConditionalParts ==
  ASSUME NEW verb, NEW to \in {"-", "N16", "E8"}, NEW family, NEW base \in {32, 192, 194, 196}, NEW bytes, NEW cycles, NEW xtra,
         bytes = Spanned("-", to), NEW row \in Conditional(verb, to, family, base, bytes, cycles, xtra)
  PROVE  ConditionedAs(row, verb, to, family, base, bytes)
<1>1. PICK c \in Coded(Conditions) :
        row = INSTR_DFX("DIRECT", <<verb, c.x, to>>, <<family, "-">>, base + 8 * c.code, bytes, cycles, xtra)
  BY DEF Conditional
<1>2. c.code \in 0 .. 3 /\ c.x = Conditions[c.code + 1]
  <2>1. Conditions # U3At
    <3>1. Conditions[1] = "NZ" /\ U3At[1] = "0"
      BY DEF Conditions, U3At
    <3>2. QED
      BY <3>1
  <2>2. QED
    BY <2>1, CodedIs
<1>3. /\ row.kind = "DIRECT" /\ row.opcode = base + 8 * c.code /\ row.name = <<verb, c.x, to>>
      /\ row.family[1] = family /\ row.bytes = bytes /\ row.name[2] = c.x /\ row.name[3] = to
  BY <1>1, RowIs
<1>4. c.x \in {"NZ", "Z", "NC", "C"}
  BY <1>2 DEF Conditions
<1>5. Spanned(c.x, to) = Spanned("-", to)
  <2>1. c.x \notin Short /\ "-" \notin Short /\ c.x \notin Long /\ "-" \notin Long
    BY <1>4 DEF Short, Long
  <2>2. QED
    BY <2>1 DEF Spanned
<1>6. row.bytes = Length(row)
  BY <1>3, <1>5, LengthSpans
<1>7. ASSUME NEW s \in Tidy PROVE check_cc(s, row) <=> Holds(s, c.x)
  <2>1. extract_cc(row.opcode) = c.code
    BY <1>2, <1>3, ConditionCut
  <2>2. QED
    BY <2>1, ConditionsHold
<1>8. QED
  BY <1>2, <1>3, <1>6, <1>7 DEF ConditionedAs
-------------------------------------------------------------------------------
(* The opcode that belongs to a name *)

SumAt(verb) ==
  CASE verb = "ADD" -> 16 [] verb = "ADC" -> 17 [] verb = "SUB" -> 18 [] verb = "SBC" -> 19
    [] verb = "AND" -> 20 [] verb = "XOR" -> 21 [] verb = "OR" -> 22 [] verb = "CP" -> 23
TurnAt(verb) ==
  CASE verb = "RLC" -> 0 [] verb = "RRC" -> 1 [] verb = "RL" -> 2 [] verb = "RR" -> 3
    [] verb = "SLA" -> 4 [] verb = "SRA" -> 5 [] verb = "SWAP" -> 6 [] verb = "SRL" -> 7
SpotAt(verb) == CASE verb = "BIT" -> 64 [] verb = "RES" -> 128 [] verb = "SET" -> 192
PairAt(x) == CASE x = "BC" -> 0 [] x = "DE" -> 1 [] x = "HL" -> 2 [] x \in {"SP", "AF"} -> 3
ConditionAt(x) == CASE x = "NZ" -> 0 [] x = "Z" -> 1 [] x = "NC" -> 2 [] x = "C" -> 3
AloneAt(verb) ==
  CASE verb = "CCF" -> 63 [] verb = "CPL" -> 47 [] verb = "DAA" -> 39 [] verb = "DI" -> 243
    [] verb = "EI" -> 251 [] verb = "HALT" -> 118 [] verb = "NOP" -> 0 [] verb = "SCF" -> 55
    [] verb = "STOP" -> 16 [] verb = "RETI" -> 217 [] verb = "RLCA" -> 7 [] verb = "RRCA" -> 15
    [] verb = "RLA" -> 23 [] verb = "RRA" -> 31
PlaceAt(x, y) ==
  CASE x = "A" /\ y = "BCR" -> 10 [] x = "A" /\ y = "DER" -> 26 [] x = "A" /\ y = "HLRI" -> 42
    [] x = "A" /\ y = "HLRD" -> 58 [] x = "A" /\ y = "CR" -> 242 [] x = "A" /\ y = "N16R" -> 250
    [] x = "A" /\ y = "N8R" -> 240 [] x = "BCR" -> 2 [] x = "DER" -> 18
    [] x = "HLRI" -> 34 [] x = "HLRD" -> 50 [] x = "CR" -> 226
    [] x = "N16R" /\ y = "A" -> 234 [] x = "N8R" -> 224 [] x = "N16R" /\ y = "SP" -> 8
    [] x = "HL" -> 248 [] x = "SP" -> 249
LoadAt(x, y) ==
  CASE x \in R8s \cup {"HLR"} /\ y \in R8s \cup {"HLR"} -> 64 + 8 * REG(x) + REG(y)
    [] y = "N8" -> 6 + 8 * REG(x)
    [] y = "N16" -> 1 + 16 * PairAt(x)
    [] OTHER -> PlaceAt(x, y)
ConditionNames == {"NZ", "Z", "NC", "C"}
JumpAt(verb, x) ==
  CASE verb = "JP" -> IF x \in ConditionNames THEN 194 + 8 * ConditionAt(x) ELSE IF x = "HL" THEN 233 ELSE 195
    [] verb = "JR" -> IF x \in ConditionNames THEN 32 + 8 * ConditionAt(x) ELSE 24
    [] verb = "CALL" -> IF x \in ConditionNames THEN 196 + 8 * ConditionAt(x) ELSE 205
    [] verb = "RET" -> IF x \in ConditionNames THEN 192 + 8 * ConditionAt(x) ELSE 201
    [] verb = "RST" -> 199 + 8 * Digit(x)
    [] verb = "POP" -> 193 + 16 * PairAt(x)
    [] verb = "PUSH" -> 197 + 16 * PairAt(x)
CountAt(verb, x) ==
  CASE verb = "INC" -> IF x \in Wide16 THEN 3 + 16 * PairAt(x) ELSE 4 + 8 * REG(x)
    [] verb = "DEC" -> IF x \in Wide16 THEN 11 + 16 * PairAt(x) ELSE 5 + 8 * REG(x)

SumVerbs == {"ADD", "ADC", "SUB", "SBC", "AND", "XOR", "OR", "CP"}
TurnVerbs == {"RLC", "RRC", "RL", "RR", "SLA", "SRA", "SWAP", "SRL"}
SpotVerbs == {"BIT", "RES", "SET"}
CodeNamed(name) ==
  LET verb == name[1]
      x == name[2]
      y == name[3]
  IN  CASE verb \in SumVerbs /\ x = "A" -> 8 * SumAt(verb) + (IF y = "N8" THEN 70 ELSE REG(y))
        [] verb = "ADD" /\ x = "HL" -> 9 + 16 * PairAt(y)
        [] verb = "ADD" /\ x = "SP" -> 232
        [] verb \in TurnVerbs -> 8 * TurnAt(verb) + REG(x)
        [] verb \in SpotVerbs -> SpotAt(verb) + 8 * Digit(x) + REG(y)
        [] verb \in {"INC", "DEC"} -> CountAt(verb, x)
        [] verb = "LD" -> LoadAt(x, y)
        [] verb \in {"JP", "JR", "CALL", "RET", "RST", "POP", "PUSH"} -> JumpAt(verb, x)
        [] OTHER -> AloneAt(verb)
KindNamed(name) == IF name[1] \in TurnVerbs \cup SpotVerbs THEN "PREFIXED" ELSE "DIRECT"

\* The code of each group of names.
LEMMA SumCodes ==
  ASSUME NEW verb \in SumVerbs, NEW y
  PROVE  /\ CodeNamed(<<verb, "A", y>>) = 8 * SumAt(verb) + (IF y = "N8" THEN 70 ELSE REG(y))
         /\ KindNamed(<<verb, "A", y>>) = "DIRECT"
<1>1. CodeNamed(<<verb, "A", y>>) = 8 * SumAt(verb) + (IF y = "N8" THEN 70 ELSE REG(y))
  BY DEF CodeNamed, SumVerbs, TurnVerbs, SpotVerbs
<1>2. KindNamed(<<verb, "A", y>>) = "DIRECT"
  BY DEF KindNamed, SumVerbs, TurnVerbs, SpotVerbs
<1>3. QED
  BY <1>1, <1>2

LEMMA TurnCodes ==
  ASSUME NEW verb \in TurnVerbs, NEW x, NEW y
  PROVE  CodeNamed(<<verb, x, y>>) = 8 * TurnAt(verb) + REG(x) /\ KindNamed(<<verb, x, y>>) = "PREFIXED"
<1>1. CodeNamed(<<verb, x, y>>) = 8 * TurnAt(verb) + REG(x)
  BY DEF CodeNamed, SumVerbs, TurnVerbs, SpotVerbs
<1>2. KindNamed(<<verb, x, y>>) = "PREFIXED"
  BY DEF KindNamed
<1>3. QED
  BY <1>1, <1>2

LEMMA SpotCodes ==
  ASSUME NEW verb \in SpotVerbs, NEW x, NEW y
  PROVE  /\ CodeNamed(<<verb, x, y>>) = SpotAt(verb) + 8 * Digit(x) + REG(y)
         /\ KindNamed(<<verb, x, y>>) = "PREFIXED"
<1>1. CodeNamed(<<verb, x, y>>) = SpotAt(verb) + 8 * Digit(x) + REG(y)
  BY DEF CodeNamed, SumVerbs, TurnVerbs, SpotVerbs
<1>2. KindNamed(<<verb, x, y>>) = "PREFIXED"
  BY DEF KindNamed
<1>3. QED
  BY <1>1, <1>2

LEMMA PairSumCodes ==
  ASSUME NEW y
  PROVE  CodeNamed(<<"ADD", "HL", y>>) = 9 + 16 * PairAt(y) /\ KindNamed(<<"ADD", "HL", y>>) = "DIRECT"
<1>1. CodeNamed(<<"ADD", "HL", y>>) = 9 + 16 * PairAt(y)
  BY DEF CodeNamed, SumVerbs, TurnVerbs, SpotVerbs
<1>2. KindNamed(<<"ADD", "HL", y>>) = "DIRECT"
  BY DEF KindNamed, SumVerbs, TurnVerbs, SpotVerbs
<1>3. QED
  BY <1>1, <1>2

LEMMA DisplacedCodes ==
  ASSUME NEW y
  PROVE  CodeNamed(<<"ADD", "SP", y>>) = 232 /\ KindNamed(<<"ADD", "SP", y>>) = "DIRECT"
<1>1. CodeNamed(<<"ADD", "SP", y>>) = 232
  BY DEF CodeNamed, SumVerbs, TurnVerbs, SpotVerbs
<1>2. KindNamed(<<"ADD", "SP", y>>) = "DIRECT"
  BY DEF KindNamed, SumVerbs, TurnVerbs, SpotVerbs
<1>3. QED
  BY <1>1, <1>2

LEMMA CountCodes ==
  ASSUME NEW verb \in {"INC", "DEC"}, NEW x, NEW y
  PROVE  CodeNamed(<<verb, x, y>>) = CountAt(verb, x) /\ KindNamed(<<verb, x, y>>) = "DIRECT"
<1>1. CodeNamed(<<verb, x, y>>) = CountAt(verb, x)
  BY DEF CodeNamed, SumVerbs, TurnVerbs, SpotVerbs
<1>2. KindNamed(<<verb, x, y>>) = "DIRECT"
  BY DEF KindNamed, SumVerbs, TurnVerbs, SpotVerbs
<1>3. QED
  BY <1>1, <1>2

LEMMA LoadCodes ==
  ASSUME NEW x, NEW y
  PROVE  CodeNamed(<<"LD", x, y>>) = LoadAt(x, y) /\ KindNamed(<<"LD", x, y>>) = "DIRECT"
<1>1. CodeNamed(<<"LD", x, y>>) = LoadAt(x, y)
  BY DEF CodeNamed, SumVerbs, TurnVerbs, SpotVerbs
<1>2. KindNamed(<<"LD", x, y>>) = "DIRECT"
  BY DEF KindNamed, SumVerbs, TurnVerbs, SpotVerbs
<1>3. QED
  BY <1>1, <1>2

LEMMA JumpCodes ==
  ASSUME NEW verb \in {"JP", "JR", "CALL", "RET", "RST", "POP", "PUSH"}, NEW x, NEW y
  PROVE  CodeNamed(<<verb, x, y>>) = JumpAt(verb, x) /\ KindNamed(<<verb, x, y>>) = "DIRECT"
<1>1. CodeNamed(<<verb, x, y>>) = JumpAt(verb, x)
  BY DEF CodeNamed, SumVerbs, TurnVerbs, SpotVerbs
<1>2. KindNamed(<<verb, x, y>>) = "DIRECT"
  BY DEF KindNamed, SumVerbs, TurnVerbs, SpotVerbs
<1>3. QED
  BY <1>1, <1>2

Alones == {"CCF", "CPL", "DAA", "DI", "EI", "HALT", "NOP", "SCF", "STOP", "RETI", "RLCA", "RRCA", "RLA", "RRA"}
LEMMA AloneCodes ==
  ASSUME NEW verb \in Alones, NEW x, NEW y
  PROVE  CodeNamed(<<verb, x, y>>) = AloneAt(verb) /\ KindNamed(<<verb, x, y>>) = "DIRECT"
<1>1. CodeNamed(<<verb, x, y>>) = AloneAt(verb)
  BY DEF CodeNamed, SumVerbs, TurnVerbs, SpotVerbs, Alones
<1>2. KindNamed(<<verb, x, y>>) = "DIRECT"
  BY DEF KindNamed, SumVerbs, TurnVerbs, SpotVerbs, Alones
<1>3. QED
  BY <1>1, <1>2
-------------------------------------------------------------------------------
(* The rows of opcode.h: each stands at the code of its name, and does what it is called *)

\* The opcodes no direct row carries.
Unwritten == {203, 211, 219, 221, 227, 228, 235, 236, 237, 244, 252, 253}
Sits(row) == /\ row.kind = KindNamed(row.name) /\ row.opcode = CodeNamed(row.name) /\ row.name # None
             /\ row.kind = "DIRECT" => row.opcode \notin Unwritten
Right(row) == Sits(row) /\ \A s \in Tidy : Agrees(s, row)

\* Only OP_UNKOWN has no name.
LEMMA NotNone ==
  ASSUME NEW verb, verb # "UNKN", NEW x, NEW y
  PROVE  <<verb, x, y>> # None
BY DEF None

\* The groups of rows, each right.
LEMMA AccumulatorRight ==
  ASSUME FullWidth, NEW verb, NEW family, NEW q,
         \/ verb = "ADD" /\ family = "ADD_A" /\ q = 16
         \/ verb = "ADC" /\ family = "ADD_A" /\ q = 17
         \/ verb = "SUB" /\ family = "SUB_A" /\ q = 18
         \/ verb = "SBC" /\ family = "SUB_A" /\ q = 19
         \/ verb = "AND" /\ family = "AND_A" /\ q = 20
         \/ verb = "XOR" /\ family = "XOR_A" /\ q = 21
         \/ verb = "OR" /\ family = "OR_A" /\ q = 22
         \/ verb = "CP" /\ family = "CP_A" /\ q = 23,
         NEW row \in Accumulator(verb, family, 8 * q)
  PROVE  Right(row)
<1>1. verb \in SumVerbs /\ q = SumAt(verb) /\ q \in 16 .. 23 /\ family \notin {"INC", "DEC"}
  BY DEF SumAt, SumVerbs
<1>2. PICK x \in R8s \cup {"HLR", "N8"} :
        /\ Takes(row, x) /\ row.name = <<verb, "A", x>> /\ row.family[1] = family
        /\ row.kind = "DIRECT" /\ Even(row) /\ bit(row.opcode, 3) = q % 2
        /\ row.opcode = 8 * q + (IF x = "N8" THEN 70 ELSE REG(x))
  BY <1>1, AccumulatorParts
<1>3. Sits(row)
  <2>1. row.opcode = CodeNamed(row.name) /\ row.kind = KindNamed(row.name)
    BY <1>1, <1>2, SumCodes
  <2>2. row.name # None
    BY <1>1, <1>2, NotNone DEF SumVerbs
  <2>3. row.opcode \notin Unwritten
    <3>1. REG(x) \in 0 .. 7 \/ x = "N8"
      BY Registers, RegisterCodes
    <3>2. q \in 16 .. 23 /\ (row.opcode = 8 * q + 70 \/ \E k \in 0 .. 7 : row.opcode = 8 * q + k)
      BY <1>1, <1>2, <3>1
    <3>3. QED
      BY <3>2 DEF Unwritten
  <2>4. QED
    BY <2>1, <2>2, <2>3 DEF Sits
<1>4. ASSUME NEW s \in Tidy PROVE Agrees(s, row)
  <2>1. Onward(row)
    <3>1. /\ family \in {"ADD_A", "SUB_A", "AND_A", "OR_A", "XOR_A", "CP_A"}
          /\ row.name[1] \in SumVerbs
      BY <1>1, <1>2
    <3>2. QED
      BY <1>2, <3>1 DEF Onward, JumpFamilies, ConditionalFamilies, Jumps, SumVerbs
  <2>2. 16 % 2 = 0 /\ 17 % 2 = 1 /\ 18 % 2 = 0 /\ 19 % 2 = 1
    OBVIOUS
  <2>3. verb \in {"ADD", "ADC"} => Done(s, row)
    BY <1>1, <1>2, <2>2, AddsAsNamed
  <2>4. verb \in {"SUB", "SBC"} => Done(s, row)
    BY <1>1, <1>2, <2>2, SubtractsAsNamed
  <2>5. verb \in {"AND", "XOR", "OR"} => Done(s, row)
    BY <1>1, <1>2, CombinesAsNamed
  <2>6. verb = "CP" => Done(s, row)
    BY <1>1, <1>2, ComparesAsNamed
  <2>7. QED
    BY <1>1, <1>2, <2>1, <2>3, <2>4, <2>5, <2>6, OnwardAgrees DEF SumVerbs
<1>5. QED
  BY <1>3, <1>4 DEF Right

LEMMA CountedRight ==
  ASSUME FullWidth, NEW verb, NEW z, (verb = "INC" /\ z = 4) \/ (verb = "DEC" /\ z = 5),
         NEW row \in Counted(verb, verb, z)
  PROVE  Right(row)
<1>1. PICK x \in R8s \cup {"HLR"} :
        /\ Takes(row, x) /\ row.name = <<verb, x, "-">> /\ row.family[1] = verb
        /\ row.family[2] \in {"R8", "HLR"}
        /\ row.kind = "DIRECT" /\ Even(row) /\ row.opcode = z + 8 * REG(x)
  BY CountedParts
<1>2. Sits(row)
  <2>1. x \notin Wide16 /\ REG(x) \in 0 .. 7
    BY Registers, RegisterCodes DEF R8s, Wide16
  <2>2. CodeNamed(row.name) = CountAt(verb, x) /\ KindNamed(row.name) = "DIRECT"
    BY <1>1, CountCodes
  <2>3. CountAt(verb, x) = z + 8 * REG(x)
    BY <2>1 DEF CountAt
  <2>4. row.name # None
    BY <1>1, NotNone
  <2>5. row.opcode \notin Unwritten
    BY <1>1, <2>1 DEF Unwritten
  <2>6. QED
    BY <1>1, <2>2, <2>3, <2>4, <2>5 DEF Sits
<1>3. ASSUME NEW s \in Tidy PROVE Agrees(s, row)
  <2>1. Onward(row)
    BY <1>1 DEF Onward, JumpFamilies, ConditionalFamilies, Jumps
  <2>2. Done(s, row)
    BY <1>1, CountsAsNamed
  <2>3. QED
    BY <1>1, <2>1, <2>2, OnwardAgrees
<1>4. QED
  BY <1>2, <1>3 DEF Right

\* The shifts and rotations of the prefixed table.
LEMMA ShiftedRight ==
  ASSUME FullWidth, NEW verb, NEW family, NEW q,
         \/ verb = "RLC" /\ family = "ROTC" /\ q = 0
         \/ verb = "RRC" /\ family = "ROTC" /\ q = 1
         \/ verb = "RL" /\ family = "ROT" /\ q = 2
         \/ verb = "RR" /\ family = "ROT" /\ q = 3
         \/ verb = "SLA" /\ family = "SLA" /\ q = 4
         \/ verb = "SRA" /\ family = "SRA" /\ q = 5
         \/ verb = "SWAP" /\ family = "SWAP" /\ q = 6
         \/ verb = "SRL" /\ family = "SRL" /\ q = 7,
         NEW row \in Shifted(verb, family, 8 * q)
  PROVE  Right(row)
<1>1. verb \in TurnVerbs /\ q = TurnAt(verb) /\ q \in 0 .. 7 /\ family \notin {"INC", "DEC"}
  BY DEF TurnAt, TurnVerbs
<1>2. PICK x \in R8s \cup {"HLR"} :
        /\ Takes(row, x) /\ row.name = <<verb, x, "-">> /\ row.family[1] = family
        /\ row.family[2] \in {"R8", "HLR"} /\ bit(row.opcode, 3) = q % 2
        /\ row.kind = "PREFIXED" /\ Even(row) /\ row.opcode = 8 * q + REG(x)
  BY <1>1, ShiftedParts
<1>3. Sits(row)
  <2>1. row.opcode = CodeNamed(row.name) /\ row.kind = KindNamed(row.name) /\ row.kind # "DIRECT"
    BY <1>1, <1>2, TurnCodes
  <2>2. row.name # None
    BY <1>1, <1>2, NotNone DEF TurnVerbs
  <2>3. QED
    BY <2>1, <2>2 DEF Sits
<1>4. ASSUME NEW s \in Tidy PROVE Agrees(s, row)
  <2>1. Onward(row)
    <3>1. family \in {"ROTC", "ROT", "SLA", "SRA", "SWAP", "SRL"} /\ row.name[1] \in TurnVerbs
      BY <1>1, <1>2
    <3>2. QED
      BY <1>2, <3>1 DEF Onward, JumpFamilies, ConditionalFamilies, Jumps, TurnVerbs
  <2>2. 0 % 2 = 0 /\ 1 % 2 = 1 /\ 2 % 2 = 0 /\ 3 % 2 = 1
    OBVIOUS
  <2>3. verb = "RLC" => Done(s, row)
    BY <1>2, <2>2, RLCAsNamed
  <2>4. verb = "RRC" => Done(s, row)
    BY <1>2, <2>2, RRCAsNamed
  <2>5. verb = "RL" => Done(s, row)
    BY <1>2, <2>2, RLAsNamed
  <2>6. verb = "RR" => Done(s, row)
    BY <1>2, <2>2, RRAsNamed
  <2>7. verb = "SLA" => Done(s, row)
    BY <1>2, SLAAsNamed
  <2>8. verb = "SRA" => Done(s, row)
    BY <1>2, SRAAsNamed
  <2>9. verb = "SWAP" => Done(s, row)
    BY <1>2, SWAPAsNamed
  <2>10. verb = "SRL" => Done(s, row)
    BY <1>2, SRLAsNamed
  <2>11. QED
    BY <1>1, <1>2, <2>1, <2>3, <2>4, <2>5, <2>6, <2>7, <2>8, <2>9, <2>10, OnwardAgrees DEF TurnVerbs
<1>5. QED
  BY <1>3, <1>4 DEF Right

LEMMA PlacedRight ==
  ASSUME FullWidth, NEW verb, NEW family, NEW q, NEW cycles,
         \/ verb = "BIT" /\ family = "BIT_U3" /\ q = 8
         \/ verb = "RES" /\ family = "CHG_U3" /\ q = 16
         \/ verb = "SET" /\ family = "CHG_U3" /\ q = 24,
         NEW row \in Placed(verb, family, 8 * q, cycles)
  PROVE  Right(row)
<1>1. PICK x \in R8s \cup {"HLR"}, i \in 0 .. 7 :
        /\ Takes(row, x) /\ row.name = <<verb, U3At[i + 1], x>> /\ row.family[1] = family
        /\ row.family[2] \in {"R8", "HLR"} /\ extract_n3(row.opcode) = i /\ bit(row.opcode, 6) = (q \div 8) % 2
        /\ row.kind = "PREFIXED" /\ Even(row) /\ row.opcode = 8 * q + 8 * i + REG(x)
  <2>1. q \in {8, 16, 24} /\ family \notin {"INC", "DEC"}
    OBVIOUS
  <2>2. PlacedAs(row, verb, family, q)
    BY <2>1, PlacedParts
  <2>3. QED
    BY <2>2 DEF PlacedAs
<1>2. Digit(U3At[i + 1]) = i
  BY DigitIs
<1>3. Sits(row)
  <2>1. verb \in SpotVerbs /\ SpotAt(verb) = 8 * q
    BY DEF SpotVerbs, SpotAt
  <2>2. CodeNamed(row.name) = 8 * q + 8 * i + REG(x) /\ KindNamed(row.name) = "PREFIXED"
    BY <1>1, <1>2, <2>1, SpotCodes
  <2>3. row.name # None
    BY <1>1, NotNone
  <2>4. QED
    BY <1>1, <2>2, <2>3 DEF Sits
<1>4. ASSUME NEW s \in Tidy PROVE Agrees(s, row)
  <2>1. Onward(row)
    <3>1. family \in {"BIT_U3", "CHG_U3"} /\ row.name[1] \in {"BIT", "RES", "SET"}
      BY <1>1
    <3>2. QED
      BY <1>1, <3>1 DEF Onward, JumpFamilies, ConditionalFamilies, Jumps
  <2>2. CASE verb = "BIT"
    BY <1>1, <1>2, <2>1, <2>2, TestsAsNamed, OnwardAgrees
  <2>3. CASE verb = "RES"
    <3>1. extract_sr_bit(row.opcode) = 0
      BY <1>1, <2>3 DEF extract_sr_bit
    <3>2. QED
      BY <1>1, <1>2, <2>1, <2>3, <3>1, ChangesAsNamed, OnwardAgrees
  <2>4. CASE verb = "SET"
    <3>1. extract_sr_bit(row.opcode) = 1
      BY <1>1, <2>4 DEF extract_sr_bit
    <3>2. QED
      BY <1>1, <1>2, <2>1, <2>4, <3>1, ChangesAsNamed, OnwardAgrees
  <2>5. QED
    BY <2>2, <2>3, <2>4
<1>5. QED
  BY <1>3, <1>4 DEF Right

\* The operands of the pairs.
LEMMA PairCodes ==
  ASSUME NEW i \in 0 .. 3
  PROVE  /\ PairAt(R16SPAt[i + 1]) = i /\ PairAt(R16At[i + 1]) = i
         /\ ConditionAt(Conditions[i + 1]) = i /\ Conditions[i + 1] \in ConditionNames
BY DEF PairAt, R16SPAt, R16At, ConditionAt, Conditions, ConditionNames

LEMMA WideRight ==
  ASSUME FullWidth, NEW verb, NEW z, (verb = "INC" /\ z = 3) \/ (verb = "DEC" /\ z = 11),
         NEW row \in Wide(verb, verb, z)
  PROVE  Right(row)
<1>1. PICK i \in 0 .. 3 :
        /\ row.name = <<verb, R16SPAt[i + 1], "-">> /\ row.family[1] = verb /\ row.family[2] = "R16SP"
        /\ row.kind = "DIRECT" /\ Even(row) /\ row.opcode = z + 16 * i
  BY WideParts
<1>2. PICK p \in Wide16 : p = R16SPAt[i + 1] /\ PairAt(p) = i
  BY Pairs, PairCodes DEF Wide16
<1>3. Sits(row)
  <2>1. CodeNamed(row.name) = CountAt(verb, p) /\ KindNamed(row.name) = "DIRECT"
    BY <1>1, <1>2, CountCodes
  <2>2. CountAt(verb, p) = z + 16 * i
    BY <1>2 DEF CountAt
  <2>3. row.name # None
    BY <1>1, NotNone
  <2>4. row.opcode \notin Unwritten
    BY <1>1 DEF Unwritten
  <2>5. QED
    BY <1>1, <2>1, <2>2, <2>3, <2>4 DEF Sits
<1>4. ASSUME NEW s \in Tidy PROVE Agrees(s, row)
  <2>1. Onward(row)
    BY <1>1 DEF Onward, JumpFamilies, ConditionalFamilies, Jumps
  <2>2. R16SPAt[extract_reg_pair(row.opcode) + 1] = p
    <3>1. extract_reg_pair(row.opcode) = i
      BY <1>1, PairCut
    <3>2. QED
      BY <1>2, <3>1
  <2>3. Done(s, row)
    BY <1>1, <1>2, <2>2, CountsPairsAsNamed
  <2>4. QED
    BY <1>1, <2>1, <2>3, OnwardAgrees
<1>5. QED
  BY <1>3, <1>4 DEF Right

\* A row that is made of a name and a family: its length, and its place.
LEMMA DefinedIs ==
  ASSUME NEW verb, NEW x, NEW y, NEW family, NEW opcode, NEW bytes, NEW cycles,
         NEW row, row = INSTR_DEF(<<verb, x, y>>, family, opcode, bytes, cycles)
  PROVE  /\ row.kind = "DIRECT" /\ row.opcode = opcode /\ row.bytes = bytes /\ row.xtra_cycles = 0
         /\ row.name = <<verb, x, y>> /\ row.name[1] = verb /\ row.name[2] = x /\ row.name[3] = y
         /\ row.family[1] = family /\ row.family[2] = "-"
         /\ bytes = Spanned(x, y) => Even(row)
<1>1. row = INSTR_DFX("DIRECT", <<verb, x, y>>, <<family, "-">>, opcode, bytes, cycles, 0)
  BY DEF INSTR_DEF
<1>2. bytes = Spanned(x, y) => Even(row)
  BY <1>1, EvenDirect
<1>3. QED
  BY <1>1, <1>2 DEF INSTR_DFX

\* A row that goes on to the next one, once what it does is known.
LEMMA DefinedRight ==
  ASSUME FullWidth, NEW verb, NEW x, NEW y, NEW family, NEW opcode, NEW bytes, NEW cycles,
         NEW row, row = INSTR_DEF(<<verb, x, y>>, family, opcode, bytes, cycles),
         \A s \in Tidy : Done(s, row),
         bytes = Spanned(x, y), verb \notin Jumps, verb # "UNKN", family \notin JumpFamilies, family \notin ConditionalFamilies,
         KindNamed(<<verb, x, y>>) = "DIRECT", CodeNamed(<<verb, x, y>>) = opcode, opcode \notin Unwritten
  PROVE  Right(row)
<1>1. /\ row.kind = "DIRECT" /\ row.opcode = opcode /\ row.name = <<verb, x, y>> /\ row.name[1] = verb
      /\ row.family[1] = family /\ Even(row)
  BY DefinedIs
<1>2. Sits(row)
  BY <1>1, NotNone DEF Sits
<1>3. Onward(row)
  BY <1>1 DEF Onward
<1>4. \A s \in Tidy : Agrees(s, row)
  BY <1>1, <1>3, OnwardAgrees
<1>5. QED
  BY <1>2, <1>4 DEF Right

LEMMA AddHLRight ==
  ASSUME FullWidth, NEW p \in Coded(R16SPAt),
         NEW row, row = INSTR_FORM(<<"ADD", "HL", p.x>>, "ADD_HL_R16SP", "-", 9 + 16 * p.code, 1, 2)
  PROVE  Right(row)
<1>1. p.code \in 0 .. 3 /\ p.x = R16SPAt[p.code + 1] /\ p.x \in Wide16 /\ PairAt(p.x) = p.code
  <2>1. p.code \in 0 .. 3 /\ p.x = R16SPAt[p.code + 1]
    BY Codes4, CodedIs
  <2>2. QED
    BY <2>1, Pairs, PairCodes DEF Wide16
<1>2. row = INSTR_DEF(<<"ADD", "HL", p.x>>, "ADD_HL_R16SP", 9 + 16 * p.code, 1, 2)
  BY DEF INSTR_DEF, INSTR_FORM
<1>3. row.opcode = 9 + 16 * p.code /\ row.name = <<"ADD", "HL", p.x>> /\ row.family[1] = "ADD_HL_R16SP"
  BY <1>2 DEF INSTR_DEF, INSTR_DFX
<1>4. R16SPAt[extract_reg_pair(row.opcode) + 1] = p.x
  <2>1. extract_reg_pair(row.opcode) = p.code
    BY <1>1, <1>3, PairCut
  <2>2. QED
    BY <1>1, <2>1
<1>5. ASSUME NEW s \in Tidy PROVE Done(s, row)
  BY <1>1, <1>3, <1>4, AddsPairsAsNamed
<1>6. Spanned("HL", p.x) = 1
  BY <1>1 DEF Spanned, Short, Long, Wide16
<1>7. CodeNamed(<<"ADD", "HL", p.x>>) = 9 + 16 * p.code /\ KindNamed(<<"ADD", "HL", p.x>>) = "DIRECT"
  BY <1>1, PairSumCodes
<1>8. 9 + 16 * p.code \notin Unwritten
  BY <1>1 DEF Unwritten
<1>9. "ADD" \notin Jumps /\ "ADD_HL_R16SP" \notin JumpFamilies /\ "ADD_HL_R16SP" \notin ConditionalFamilies
  BY DEF Jumps, JumpFamilies, ConditionalFamilies
<1>10. QED
  BY <1>2, <1>5, <1>6, <1>7, <1>8, <1>9, DefinedRight

\* The code of LD by its operands.
LEMMA LoadsAt ==
  /\ \A x \in R8s \cup {"HLR"}, y \in R8s \cup {"HLR"} : LoadAt(x, y) = 64 + 8 * REG(x) + REG(y)
  /\ \A x : LoadAt(x, "N8") = 6 + 8 * REG(x)
  /\ \A x : LoadAt(x, "N16") = 1 + 16 * PairAt(x)
  /\ \A x, y : ~(x \in R8s \cup {"HLR"} /\ y \in R8s \cup {"HLR"}) /\ y \notin {"N8", "N16"} => LoadAt(x, y) = PlaceAt(x, y)
<1>1. "N8" \notin R8s \cup {"HLR"} /\ "N16" \notin R8s \cup {"HLR"}
  BY DEF R8s
<1>2. \A x \in R8s \cup {"HLR"}, y \in R8s \cup {"HLR"} : y # "N8" /\ y # "N16"
  BY <1>1
<1>3. \A x \in R8s \cup {"HLR"}, y \in R8s \cup {"HLR"} : LoadAt(x, y) = 64 + 8 * REG(x) + REG(y)
  BY <1>2 DEF LoadAt
<1>4. ASSUME NEW x PROVE LoadAt(x, "N8") = 6 + 8 * REG(x) /\ LoadAt(x, "N16") = 1 + 16 * PairAt(x)
  BY <1>1 DEF LoadAt
<1>5. ASSUME NEW x, NEW y, ~(x \in R8s \cup {"HLR"} /\ y \in R8s \cup {"HLR"}), y \notin {"N8", "N16"}
      PROVE  LoadAt(x, y) = PlaceAt(x, y)
  BY <1>5 DEF LoadAt
<1>6. QED
  BY <1>3, <1>4, <1>5

\* A row of LD, once what it does is known.
LEMMA LoadRight ==
  ASSUME FullWidth, NEW x, NEW y, NEW family \in StorageFamilies \cup {"NOP", "LD_HLSP_S8"}, NEW opcode, NEW bytes, NEW cycles,
         NEW row, row = INSTR_DEF(<<"LD", x, y>>, family, opcode, bytes, cycles),
         \A s \in Tidy : Done(s, row),
         bytes = Spanned(x, y), LoadAt(x, y) = opcode, opcode \notin Unwritten
  PROVE  Right(row)
<1>1. "LD" \notin Jumps /\ family \notin JumpFamilies /\ family \notin ConditionalFamilies /\ "LD" # "UNKN"
  BY DEF Jumps, JumpFamilies, ConditionalFamilies, StorageFamilies
<1>2. KindNamed(<<"LD", x, y>>) = "DIRECT" /\ CodeNamed(<<"LD", x, y>>) = opcode
  BY LoadCodes
<1>3. QED
  BY <1>1, <1>2, DefinedRight

LEMMA CopyRight ==
  ASSUME FullWidth, NEW r \in R8s, NEW q \in R8s,
         NEW row, row = INSTR_DEF(<<"LD", r, q>>, FamilyOfLD(r, q), 64 + 8 * REG(r) + REG(q), 1, 1)
  PROVE  Right(row)
<1>1. REG(r) \in 0 .. 7 /\ REG(q) \in 0 .. 7
  BY Registers
<1>2. row.opcode = 64 + 8 * REG(r) + REG(q) /\ row.name = <<"LD", r, q>> /\ row.family[1] = FamilyOfLD(r, q)
  BY DEF INSTR_DEF, INSTR_DFX
<1>3. extract_reg(row.opcode, 0) = q
  <2>1. 8 + REG(r) \in 0 .. 31 /\ 8 * (8 + REG(r)) + REG(q) = row.opcode
    BY <1>1, <1>2
  <2>2. extract_reg(8 * (8 + REG(r)) + REG(q), 0) = q
    BY <2>1, RegisterCoded
  <2>3. QED
    BY <2>1, <2>2
<1>4. extract_reg(row.opcode, 3) = r
  <2>1. extract_reg(64 * 1 + 8 * REG(r) + REG(q), 3) = r
    BY <1>1, HighRegisterCoded
  <2>2. 64 * 1 + 8 * REG(r) + REG(q) = row.opcode
    BY <1>1, <1>2
  <2>3. QED
    BY <2>1, <2>2
<1>5. ASSUME NEW s \in Tidy PROVE Done(s, row)
  <2>1. CASE r = q
    <3>1. row.family[1] = "NOP"
      BY <1>2, <2>1 DEF FamilyOfLD
    <3>2. QED
      BY <1>2, <2>1, <3>1, CopiesAsNamed
  <2>2. CASE r # q
    <3>1. row.family[1] = "LD_R8_R8"
      BY <1>2, <2>2 DEF FamilyOfLD
    <3>2. QED
      BY <1>2, <1>3, <1>4, <2>2, <3>1, CopiesAsNamed
  <2>3. QED
    BY <2>1, <2>2
<1>6. Spanned(r, q) = 1
  BY DEF Spanned, Short, Long, R8s
<1>7. LoadAt(r, q) = 64 + 8 * REG(r) + REG(q)
  BY LoadsAt
<1>8. 64 + 8 * REG(r) + REG(q) \notin Unwritten
  BY <1>1 DEF Unwritten
<1>9. FamilyOfLD(r, q) \in StorageFamilies \cup {"NOP", "LD_HLSP_S8"}
  BY DEF FamilyOfLD, StorageFamilies
<1>10. QED
  BY <1>5, <1>6, <1>7, <1>8, <1>9, LoadRight

LEMMA RegisterLoadsRight ==
  ASSUME FullWidth, NEW r \in R8s, NEW row,
         \/ row = INSTR_DEF(<<"LD", r, "HLR">>, "LD_R8_HLR", 70 + 8 * REG(r), 1, 2)
         \/ row = INSTR_DEF(<<"LD", r, "N8">>, "LD_R8_N8", 6 + 8 * REG(r), 2, 2)
         \/ row = INSTR_DEF(<<"LD", "HLR", r>>, "LD_HLR_R8", 112 + REG(r), 1, 2)
  PROVE  Right(row)
<1>1. REG(r) \in 0 .. 7
  BY Registers
<1>2. CASE row = INSTR_DEF(<<"LD", r, "HLR">>, "LD_R8_HLR", 70 + 8 * REG(r), 1, 2)
  <2>1. row.opcode = 70 + 8 * REG(r) /\ row.name = <<"LD", r, "HLR">> /\ row.family[1] = "LD_R8_HLR"
    BY <1>2 DEF INSTR_DEF, INSTR_DFX
  <2>2. extract_reg(row.opcode, 3) = r
    <3>1. extract_reg(64 * 1 + 8 * REG(r) + 6, 3) = r
      BY HighRegisterCoded
    <3>2. 64 * 1 + 8 * REG(r) + 6 = row.opcode
      BY <1>1, <2>1
    <3>3. QED
      BY <3>1, <3>2
  <2>3. \A s \in Tidy : Done(s, row)
    BY <2>1, <2>2, LoadsOfRegisters
  <2>4. Spanned(r, "HLR") = 1
    BY DEF Spanned, Short, Long, R8s
  <2>5. LoadAt(r, "HLR") = 70 + 8 * REG(r)
    BY <1>1, LoadsAt, RegisterCodes
  <2>6. 70 + 8 * REG(r) \notin Unwritten /\ "LD_R8_HLR" \in StorageFamilies \cup {"NOP", "LD_HLSP_S8"}
    BY <1>1 DEF Unwritten, StorageFamilies
  <2>7. QED
    BY <1>2, <2>3, <2>4, <2>5, <2>6, LoadRight
<1>3. CASE row = INSTR_DEF(<<"LD", r, "N8">>, "LD_R8_N8", 6 + 8 * REG(r), 2, 2)
  <2>1. row.opcode = 6 + 8 * REG(r) /\ row.name = <<"LD", r, "N8">> /\ row.family[1] = "LD_R8_N8"
    BY <1>3 DEF INSTR_DEF, INSTR_DFX
  <2>2. extract_reg(row.opcode, 3) = r
    <3>1. extract_reg(64 * 0 + 8 * REG(r) + 6, 3) = r
      BY HighRegisterCoded
    <3>2. 64 * 0 + 8 * REG(r) + 6 = row.opcode
      BY <1>1, <2>1
    <3>3. QED
      BY <3>1, <3>2
  <2>3. \A s \in Tidy : Done(s, row)
    BY <2>1, <2>2, LoadsOfRegisters
  <2>4. Spanned(r, "N8") = 2
    BY DEF Spanned, Short, Long, R8s
  <2>5. LoadAt(r, "N8") = 6 + 8 * REG(r)
    BY LoadsAt
  <2>6. 6 + 8 * REG(r) \notin Unwritten /\ "LD_R8_N8" \in StorageFamilies \cup {"NOP", "LD_HLSP_S8"}
    BY <1>1 DEF Unwritten, StorageFamilies
  <2>7. QED
    BY <1>3, <2>3, <2>4, <2>5, <2>6, LoadRight
<1>4. CASE row = INSTR_DEF(<<"LD", "HLR", r>>, "LD_HLR_R8", 112 + REG(r), 1, 2)
  <2>1. row.opcode = 112 + REG(r) /\ row.name = <<"LD", "HLR", r>> /\ row.family[1] = "LD_HLR_R8"
    BY <1>4 DEF INSTR_DEF, INSTR_DFX
  <2>2. extract_reg(row.opcode, 0) = r
    <3>1. extract_reg(8 * 14 + REG(r), 0) = r
      BY RegisterCoded
    <3>2. 8 * 14 + REG(r) = row.opcode
      BY <1>1, <2>1
    <3>3. QED
      BY <3>1, <3>2
  <2>3. \A s \in Tidy : Done(s, row)
    BY <2>1, <2>2, LoadsOfRegisters
  <2>4. Spanned("HLR", r) = 1
    BY DEF Spanned, Short, Long, R8s
  <2>5. LoadAt("HLR", r) = 112 + REG(r)
    BY <1>1, LoadsAt, RegisterCodes
  <2>6. 112 + REG(r) \notin Unwritten /\ "LD_HLR_R8" \in StorageFamilies \cup {"NOP", "LD_HLSP_S8"}
    BY <1>1 DEF Unwritten, StorageFamilies
  <2>7. QED
    BY <1>4, <2>3, <2>4, <2>5, <2>6, LoadRight
<1>5. QED
  BY <1>2, <1>3, <1>4

LEMMA LoadWordRight ==
  ASSUME FullWidth, NEW p \in Coded(R16SPAt),
         NEW row, row = INSTR_DEF(<<"LD", p.x, "N16">>, "LD_R16SP_N16", 1 + 16 * p.code, 3, 3)
  PROVE  Right(row)
<1>1. p.code \in 0 .. 3 /\ p.x = R16SPAt[p.code + 1] /\ p.x \in {"BC", "DE", "HL", "SP"} /\ PairAt(p.x) = p.code
  <2>1. p.code \in 0 .. 3 /\ p.x = R16SPAt[p.code + 1]
    BY Codes4, CodedIs
  <2>2. QED
    BY <2>1, Pairs, PairCodes
<1>2. row.opcode = 1 + 16 * p.code /\ row.name = <<"LD", p.x, "N16">> /\ row.family[1] = "LD_R16SP_N16"
  BY DEF INSTR_DEF, INSTR_DFX
<1>3. R16SPAt[extract_reg_pair(row.opcode) + 1] = p.x
  <2>1. extract_reg_pair(row.opcode) = p.code
    BY <1>1, <1>2, PairCut
  <2>2. QED
    BY <1>1, <2>1
<1>4. ASSUME NEW s \in Tidy PROVE Done(s, row)
  BY <1>1, <1>2, <1>3, LoadsOfWords
<1>5. Spanned(p.x, "N16") = 3
  BY <1>1 DEF Spanned, Short, Long
<1>6. LoadAt(p.x, "N16") = 1 + 16 * p.code
  BY <1>1, LoadsAt
<1>7. 1 + 16 * p.code \notin Unwritten /\ "LD_R16SP_N16" \in StorageFamilies \cup {"NOP", "LD_HLSP_S8"}
  BY <1>1 DEF Unwritten, StorageFamilies
<1>8. QED
  BY <1>4, <1>5, <1>6, <1>7, LoadRight

LEMMA StackRight ==
  ASSUME FullWidth, NEW p \in Coded(R16At), NEW row,
         \/ row = INSTR_DEF(<<"POP", p.x, "-">>, "POP_R16", 193 + 16 * p.code, 1, 3)
         \/ row = INSTR_DEF(<<"PUSH", p.x, "-">>, "PUSH_R16", 197 + 16 * p.code, 1, 4)
  PROVE  Right(row)
<1>1. p.code \in 0 .. 3 /\ p.x = R16At[p.code + 1] /\ p.x \in {"BC", "DE", "HL", "AF"} /\ PairAt(p.x) = p.code
  <2>1. p.code \in 0 .. 3 /\ p.x = R16At[p.code + 1]
    BY Codes4, CodedIs
  <2>2. QED
    BY <2>1, Pairs, PairCodes
<1>2. Spanned(p.x, "-") = 1
  BY <1>1 DEF Spanned, Short, Long
<1>3. CASE row = INSTR_DEF(<<"POP", p.x, "-">>, "POP_R16", 193 + 16 * p.code, 1, 3)
  <2>1. row.opcode = 193 + 16 * p.code /\ row.name = <<"POP", p.x, "-">> /\ row.family[1] = "POP_R16"
    BY <1>3 DEF INSTR_DEF, INSTR_DFX
  <2>2. R16At[extract_reg_pair(row.opcode) + 1] = p.x
    <3>1. extract_reg_pair(row.opcode) = p.code
      BY <1>1, <2>1, PairCut
    <3>2. QED
      BY <1>1, <3>1
  <2>3. ASSUME NEW s \in Tidy PROVE Done(s, row)
    BY <1>1, <2>1, <2>2, StacksAsNamed
  <2>4. CodeNamed(<<"POP", p.x, "-">>) = 193 + 16 * p.code /\ KindNamed(<<"POP", p.x, "-">>) = "DIRECT"
    <3>1. JumpAt("POP", p.x) = 193 + 16 * p.code
      BY <1>1 DEF JumpAt
    <3>2. QED
      BY <3>1, JumpCodes
  <2>5. 193 + 16 * p.code \notin Unwritten
    BY <1>1 DEF Unwritten
  <2>6. /\ "POP" \notin Jumps /\ "POP_R16" \notin JumpFamilies /\ "POP_R16" \notin ConditionalFamilies /\ "POP" # "UNKN"
    BY DEF Jumps, JumpFamilies, ConditionalFamilies
  <2>7. QED
    BY <1>2, <1>3, <2>3, <2>4, <2>5, <2>6, DefinedRight
<1>4. CASE row = INSTR_DEF(<<"PUSH", p.x, "-">>, "PUSH_R16", 197 + 16 * p.code, 1, 4)
  <2>1. row.opcode = 197 + 16 * p.code /\ row.name = <<"PUSH", p.x, "-">> /\ row.family[1] = "PUSH_R16"
    BY <1>4 DEF INSTR_DEF, INSTR_DFX
  <2>2. R16At[extract_reg_pair(row.opcode) + 1] = p.x
    <3>1. extract_reg_pair(row.opcode) = p.code
      BY <1>1, <2>1, PairCut
    <3>2. QED
      BY <1>1, <3>1
  <2>3. ASSUME NEW s \in Tidy PROVE Done(s, row)
    BY <1>1, <2>1, <2>2, StacksAsNamed
  <2>4. CodeNamed(<<"PUSH", p.x, "-">>) = 197 + 16 * p.code /\ KindNamed(<<"PUSH", p.x, "-">>) = "DIRECT"
    <3>1. JumpAt("PUSH", p.x) = 197 + 16 * p.code
      BY <1>1 DEF JumpAt
    <3>2. QED
      BY <3>1, JumpCodes
  <2>5. 197 + 16 * p.code \notin Unwritten
    BY <1>1 DEF Unwritten
  <2>6. /\ "PUSH" \notin Jumps /\ "PUSH_R16" \notin JumpFamilies /\ "PUSH_R16" \notin ConditionalFamilies /\ "PUSH" # "UNKN"
    BY DEF Jumps, JumpFamilies, ConditionalFamilies
  <2>7. QED
    BY <1>2, <1>4, <2>3, <2>4, <2>5, <2>6, DefinedRight
<1>5. QED
  BY <1>3, <1>4

\* What LD does between A and a place, and with SP.
LEMMA PlacesRight == ASSUME FullWidth, NEW row \in RowsLDPlaces PROVE Right(row)
<1>1. CASE row = INSTR_DEF(<<"LD", "HLR", "N8">>, "LD_HLR_N8", 54, 2, 3)
  <2>1. row.opcode = 54 /\ row.name = <<"LD", "HLR", "N8">> /\ row.family[1] = "LD_HLR_N8"
    BY <1>1 DEF INSTR_DEF, INSTR_DFX
  <2>2. ASSUME NEW s \in Tidy PROVE Done(s, row)
    <3>1. "A" \in R8s
      BY DEF R8s
    <3>2. QED
      BY <2>1, <3>1, LoadsOfRegisters
  <2>3. Spanned("HLR", "N8") = 2
    BY DEF Spanned, Short, Long
  <2>4. LoadAt("HLR", "N8") = 54
    BY LoadsAt, RegisterCodes
  <2>5. 54 \notin Unwritten /\ "LD_HLR_N8" \in StorageFamilies \cup {"NOP", "LD_HLSP_S8"}
    BY DEF Unwritten, StorageFamilies
  <2>6. QED
    BY <1>1, <2>2, <2>3, <2>4, <2>5, LoadRight
<1>2. CASE row = INSTR_DEF(<<"LD", "A", "BCR">>, "LD_A_BCR", 10, 1, 2)
  <2>1. row.opcode = 10 /\ row.name = <<"LD", "A", "BCR">> /\ row.family[1] = "LD_A_BCR"
    BY <1>2 DEF INSTR_DEF, INSTR_DFX
  <2>2. ASSUME NEW s \in Tidy PROVE Done(s, row)
    BY <2>1, LoadsFromPlaces
  <2>3. Spanned("A", "BCR") = 1
    BY DEF Spanned, Short, Long
  <2>4. LoadAt("A", "BCR") = 10
    <3>1. LoadAt("A", "BCR") = PlaceAt("A", "BCR")
      BY LoadsAt DEF R8s
    <3>2. QED
      BY <3>1 DEF PlaceAt
  <2>5. 10 \notin Unwritten /\ "LD_A_BCR" \in StorageFamilies \cup {"NOP", "LD_HLSP_S8"}
    BY DEF Unwritten, StorageFamilies
  <2>6. QED
    BY <1>2, <2>2, <2>3, <2>4, <2>5, LoadRight
<1>3. CASE row = INSTR_DEF(<<"LD", "A", "DER">>, "LD_A_DER", 26, 1, 2)
  <2>1. row.opcode = 26 /\ row.name = <<"LD", "A", "DER">> /\ row.family[1] = "LD_A_DER"
    BY <1>3 DEF INSTR_DEF, INSTR_DFX
  <2>2. ASSUME NEW s \in Tidy PROVE Done(s, row)
    BY <2>1, LoadsFromPlaces
  <2>3. Spanned("A", "DER") = 1
    BY DEF Spanned, Short, Long
  <2>4. LoadAt("A", "DER") = 26
    <3>1. LoadAt("A", "DER") = PlaceAt("A", "DER")
      BY LoadsAt DEF R8s
    <3>2. QED
      BY <3>1 DEF PlaceAt
  <2>5. 26 \notin Unwritten /\ "LD_A_DER" \in StorageFamilies \cup {"NOP", "LD_HLSP_S8"}
    BY DEF Unwritten, StorageFamilies
  <2>6. QED
    BY <1>3, <2>2, <2>3, <2>4, <2>5, LoadRight
<1>4. CASE row = INSTR_DEF(<<"LD", "A", "HLRI">>, "LD_A_HLRU", 42, 1, 2)
  <2>1. row.opcode = 42 /\ row.name = <<"LD", "A", "HLRI">> /\ row.family[1] = "LD_A_HLRU"
    BY <1>4 DEF INSTR_DEF, INSTR_DFX
  <2>2. bit(row.opcode, 4) = 0
    BY <2>1 DEF bit
  <2>3. ASSUME NEW s \in Tidy PROVE Done(s, row)
    BY <2>1, <2>2, FollowsAsNamed
  <2>4. Spanned("A", "HLRI") = 1
    BY DEF Spanned, Short, Long
  <2>5. LoadAt("A", "HLRI") = 42
    <3>1. LoadAt("A", "HLRI") = PlaceAt("A", "HLRI")
      BY LoadsAt DEF R8s
    <3>2. QED
      BY <3>1 DEF PlaceAt
  <2>6. 42 \notin Unwritten /\ "LD_A_HLRU" \in StorageFamilies \cup {"NOP", "LD_HLSP_S8"}
    BY DEF Unwritten, StorageFamilies
  <2>7. QED
    BY <1>4, <2>3, <2>4, <2>5, <2>6, LoadRight
<1>5. CASE row = INSTR_DEF(<<"LD", "A", "HLRD">>, "LD_A_HLRU", 58, 1, 2)
  <2>1. row.opcode = 58 /\ row.name = <<"LD", "A", "HLRD">> /\ row.family[1] = "LD_A_HLRU"
    BY <1>5 DEF INSTR_DEF, INSTR_DFX
  <2>2. bit(row.opcode, 4) = 1
    BY <2>1 DEF bit
  <2>3. ASSUME NEW s \in Tidy PROVE Done(s, row)
    BY <2>1, <2>2, FollowsAsNamed
  <2>4. Spanned("A", "HLRD") = 1
    BY DEF Spanned, Short, Long
  <2>5. LoadAt("A", "HLRD") = 58
    <3>1. LoadAt("A", "HLRD") = PlaceAt("A", "HLRD")
      BY LoadsAt DEF R8s
    <3>2. QED
      BY <3>1 DEF PlaceAt
  <2>6. 58 \notin Unwritten /\ "LD_A_HLRU" \in StorageFamilies \cup {"NOP", "LD_HLSP_S8"}
    BY DEF Unwritten, StorageFamilies
  <2>7. QED
    BY <1>5, <2>3, <2>4, <2>5, <2>6, LoadRight
<1>6. CASE row = INSTR_DEF(<<"LD", "A", "CR">>, "LD_A_CR", 242, 1, 2)
  <2>1. row.opcode = 242 /\ row.name = <<"LD", "A", "CR">> /\ row.family[1] = "LD_A_CR"
    BY <1>6 DEF INSTR_DEF, INSTR_DFX
  <2>2. ASSUME NEW s \in Tidy PROVE Done(s, row)
    BY <2>1, LoadsFromPlaces
  <2>3. Spanned("A", "CR") = 1
    BY DEF Spanned, Short, Long
  <2>4. LoadAt("A", "CR") = 242
    <3>1. LoadAt("A", "CR") = PlaceAt("A", "CR")
      BY LoadsAt DEF R8s
    <3>2. QED
      BY <3>1 DEF PlaceAt
  <2>5. 242 \notin Unwritten /\ "LD_A_CR" \in StorageFamilies \cup {"NOP", "LD_HLSP_S8"}
    BY DEF Unwritten, StorageFamilies
  <2>6. QED
    BY <1>6, <2>2, <2>3, <2>4, <2>5, LoadRight
<1>7. CASE row = INSTR_DEF(<<"LD", "A", "N16R">>, "LD_A_N16R", 250, 3, 4)
  <2>1. row.opcode = 250 /\ row.name = <<"LD", "A", "N16R">> /\ row.family[1] = "LD_A_N16R"
    BY <1>7 DEF INSTR_DEF, INSTR_DFX
  <2>2. ASSUME NEW s \in Tidy PROVE Done(s, row)
    BY <2>1, LoadsFromPlaces
  <2>3. Spanned("A", "N16R") = 3
    BY DEF Spanned, Short, Long
  <2>4. LoadAt("A", "N16R") = 250
    <3>1. LoadAt("A", "N16R") = PlaceAt("A", "N16R")
      BY LoadsAt DEF R8s
    <3>2. QED
      BY <3>1 DEF PlaceAt
  <2>5. 250 \notin Unwritten /\ "LD_A_N16R" \in StorageFamilies \cup {"NOP", "LD_HLSP_S8"}
    BY DEF Unwritten, StorageFamilies
  <2>6. QED
    BY <1>7, <2>2, <2>3, <2>4, <2>5, LoadRight
<1>8. CASE row = INSTR_DEF(<<"LD", "A", "N8R">>, "LD_A_N8R", 240, 2, 3)
  <2>1. row.opcode = 240 /\ row.name = <<"LD", "A", "N8R">> /\ row.family[1] = "LD_A_N8R"
    BY <1>8 DEF INSTR_DEF, INSTR_DFX
  <2>2. ASSUME NEW s \in Tidy PROVE Done(s, row)
    BY <2>1, LoadsFromPlaces
  <2>3. Spanned("A", "N8R") = 2
    BY DEF Spanned, Short, Long
  <2>4. LoadAt("A", "N8R") = 240
    <3>1. LoadAt("A", "N8R") = PlaceAt("A", "N8R")
      BY LoadsAt DEF R8s
    <3>2. QED
      BY <3>1 DEF PlaceAt
  <2>5. 240 \notin Unwritten /\ "LD_A_N8R" \in StorageFamilies \cup {"NOP", "LD_HLSP_S8"}
    BY DEF Unwritten, StorageFamilies
  <2>6. QED
    BY <1>8, <2>2, <2>3, <2>4, <2>5, LoadRight
<1>9. CASE row = INSTR_DEF(<<"LD", "BCR", "A">>, "LD_BCR_A", 2, 1, 2)
  <2>1. row.opcode = 2 /\ row.name = <<"LD", "BCR", "A">> /\ row.family[1] = "LD_BCR_A"
    BY <1>9 DEF INSTR_DEF, INSTR_DFX
  <2>2. ASSUME NEW s \in Tidy PROVE Done(s, row)
    BY <2>1, StoresToPlaces
  <2>3. Spanned("BCR", "A") = 1
    BY DEF Spanned, Short, Long
  <2>4. LoadAt("BCR", "A") = 2
    <3>1. LoadAt("BCR", "A") = PlaceAt("BCR", "A")
      BY LoadsAt DEF R8s
    <3>2. QED
      BY <3>1 DEF PlaceAt
  <2>5. 2 \notin Unwritten /\ "LD_BCR_A" \in StorageFamilies \cup {"NOP", "LD_HLSP_S8"}
    BY DEF Unwritten, StorageFamilies
  <2>6. QED
    BY <1>9, <2>2, <2>3, <2>4, <2>5, LoadRight
<1>10. CASE row = INSTR_DEF(<<"LD", "DER", "A">>, "LD_DER_A", 18, 1, 2)
  <2>1. row.opcode = 18 /\ row.name = <<"LD", "DER", "A">> /\ row.family[1] = "LD_DER_A"
    BY <1>10 DEF INSTR_DEF, INSTR_DFX
  <2>2. ASSUME NEW s \in Tidy PROVE Done(s, row)
    BY <2>1, StoresToPlaces
  <2>3. Spanned("DER", "A") = 1
    BY DEF Spanned, Short, Long
  <2>4. LoadAt("DER", "A") = 18
    <3>1. LoadAt("DER", "A") = PlaceAt("DER", "A")
      BY LoadsAt DEF R8s
    <3>2. QED
      BY <3>1 DEF PlaceAt
  <2>5. 18 \notin Unwritten /\ "LD_DER_A" \in StorageFamilies \cup {"NOP", "LD_HLSP_S8"}
    BY DEF Unwritten, StorageFamilies
  <2>6. QED
    BY <1>10, <2>2, <2>3, <2>4, <2>5, LoadRight
<1>11. CASE row = INSTR_DEF(<<"LD", "HLRI", "A">>, "LD_HLRU_A", 34, 1, 2)
  <2>1. row.opcode = 34 /\ row.name = <<"LD", "HLRI", "A">> /\ row.family[1] = "LD_HLRU_A"
    BY <1>11 DEF INSTR_DEF, INSTR_DFX
  <2>2. bit(row.opcode, 4) = 0
    BY <2>1 DEF bit
  <2>3. ASSUME NEW s \in Tidy PROVE Done(s, row)
    BY <2>1, <2>2, FollowsAsNamed
  <2>4. Spanned("HLRI", "A") = 1
    BY DEF Spanned, Short, Long
  <2>5. LoadAt("HLRI", "A") = 34
    <3>1. LoadAt("HLRI", "A") = PlaceAt("HLRI", "A")
      BY LoadsAt DEF R8s
    <3>2. QED
      BY <3>1 DEF PlaceAt
  <2>6. 34 \notin Unwritten /\ "LD_HLRU_A" \in StorageFamilies \cup {"NOP", "LD_HLSP_S8"}
    BY DEF Unwritten, StorageFamilies
  <2>7. QED
    BY <1>11, <2>3, <2>4, <2>5, <2>6, LoadRight
<1>12. CASE row = INSTR_DEF(<<"LD", "HLRD", "A">>, "LD_HLRU_A", 50, 1, 2)
  <2>1. row.opcode = 50 /\ row.name = <<"LD", "HLRD", "A">> /\ row.family[1] = "LD_HLRU_A"
    BY <1>12 DEF INSTR_DEF, INSTR_DFX
  <2>2. bit(row.opcode, 4) = 1
    BY <2>1 DEF bit
  <2>3. ASSUME NEW s \in Tidy PROVE Done(s, row)
    BY <2>1, <2>2, FollowsAsNamed
  <2>4. Spanned("HLRD", "A") = 1
    BY DEF Spanned, Short, Long
  <2>5. LoadAt("HLRD", "A") = 50
    <3>1. LoadAt("HLRD", "A") = PlaceAt("HLRD", "A")
      BY LoadsAt DEF R8s
    <3>2. QED
      BY <3>1 DEF PlaceAt
  <2>6. 50 \notin Unwritten /\ "LD_HLRU_A" \in StorageFamilies \cup {"NOP", "LD_HLSP_S8"}
    BY DEF Unwritten, StorageFamilies
  <2>7. QED
    BY <1>12, <2>3, <2>4, <2>5, <2>6, LoadRight
<1>13. CASE row = INSTR_DEF(<<"LD", "CR", "A">>, "LD_CR_A", 226, 1, 2)
  <2>1. row.opcode = 226 /\ row.name = <<"LD", "CR", "A">> /\ row.family[1] = "LD_CR_A"
    BY <1>13 DEF INSTR_DEF, INSTR_DFX
  <2>2. ASSUME NEW s \in Tidy PROVE Done(s, row)
    BY <2>1, StoresToPlaces
  <2>3. Spanned("CR", "A") = 1
    BY DEF Spanned, Short, Long
  <2>4. LoadAt("CR", "A") = 226
    <3>1. LoadAt("CR", "A") = PlaceAt("CR", "A")
      BY LoadsAt DEF R8s
    <3>2. QED
      BY <3>1 DEF PlaceAt
  <2>5. 226 \notin Unwritten /\ "LD_CR_A" \in StorageFamilies \cup {"NOP", "LD_HLSP_S8"}
    BY DEF Unwritten, StorageFamilies
  <2>6. QED
    BY <1>13, <2>2, <2>3, <2>4, <2>5, LoadRight
<1>14. CASE row = INSTR_DEF(<<"LD", "N16R", "A">>, "LD_N16R_A", 234, 3, 4)
  <2>1. row.opcode = 234 /\ row.name = <<"LD", "N16R", "A">> /\ row.family[1] = "LD_N16R_A"
    BY <1>14 DEF INSTR_DEF, INSTR_DFX
  <2>2. ASSUME NEW s \in Tidy PROVE Done(s, row)
    BY <2>1, StoresToPlaces
  <2>3. Spanned("N16R", "A") = 3
    BY DEF Spanned, Short, Long
  <2>4. LoadAt("N16R", "A") = 234
    <3>1. LoadAt("N16R", "A") = PlaceAt("N16R", "A")
      BY LoadsAt DEF R8s
    <3>2. QED
      BY <3>1 DEF PlaceAt
  <2>5. 234 \notin Unwritten /\ "LD_N16R_A" \in StorageFamilies \cup {"NOP", "LD_HLSP_S8"}
    BY DEF Unwritten, StorageFamilies
  <2>6. QED
    BY <1>14, <2>2, <2>3, <2>4, <2>5, LoadRight
<1>15. CASE row = INSTR_DEF(<<"LD", "N8R", "A">>, "LD_N8R_A", 224, 2, 3)
  <2>1. row.opcode = 224 /\ row.name = <<"LD", "N8R", "A">> /\ row.family[1] = "LD_N8R_A"
    BY <1>15 DEF INSTR_DEF, INSTR_DFX
  <2>2. ASSUME NEW s \in Tidy PROVE Done(s, row)
    BY <2>1, StoresToPlaces
  <2>3. Spanned("N8R", "A") = 2
    BY DEF Spanned, Short, Long
  <2>4. LoadAt("N8R", "A") = 224
    <3>1. LoadAt("N8R", "A") = PlaceAt("N8R", "A")
      BY LoadsAt DEF R8s
    <3>2. QED
      BY <3>1 DEF PlaceAt
  <2>5. 224 \notin Unwritten /\ "LD_N8R_A" \in StorageFamilies \cup {"NOP", "LD_HLSP_S8"}
    BY DEF Unwritten, StorageFamilies
  <2>6. QED
    BY <1>15, <2>2, <2>3, <2>4, <2>5, LoadRight
<1>16. CASE row = INSTR_DEF(<<"LD", "N16R", "SP">>, "LD_N16R_SP", 8, 3, 5)
  <2>1. row.opcode = 8 /\ row.name = <<"LD", "N16R", "SP">> /\ row.family[1] = "LD_N16R_SP"
    BY <1>16 DEF INSTR_DEF, INSTR_DFX
  <2>2. ASSUME NEW s \in Tidy PROVE Done(s, row)
    <3>1. "HL" \in {"BC", "DE", "HL", "SP"}
      OBVIOUS
    <3>2. QED
      BY <2>1, <3>1, LoadsOfWords
  <2>3. Spanned("N16R", "SP") = 3
    BY DEF Spanned, Short, Long
  <2>4. LoadAt("N16R", "SP") = 8
    <3>1. LoadAt("N16R", "SP") = PlaceAt("N16R", "SP")
      BY LoadsAt DEF R8s
    <3>2. QED
      BY <3>1 DEF PlaceAt
  <2>5. 8 \notin Unwritten /\ "LD_N16R_SP" \in StorageFamilies \cup {"NOP", "LD_HLSP_S8"}
    BY DEF Unwritten, StorageFamilies
  <2>6. QED
    BY <1>16, <2>2, <2>3, <2>4, <2>5, LoadRight
<1>17. CASE row = INSTR_DEF(<<"LD", "HL", "SP_N8">>, "LD_HLSP_S8", 248, 2, 3)
  <2>1. row.opcode = 248 /\ row.name = <<"LD", "HL", "SP_N8">> /\ row.family[1] = "LD_HLSP_S8"
    BY <1>17 DEF INSTR_DEF, INSTR_DFX
  <2>2. bit(row.opcode, 4) = 1
    BY <2>1 DEF bit
  <2>3. ASSUME NEW s \in Tidy PROVE Done(s, row)
    BY <2>1, <2>2, DisplacesAsNamed
  <2>4. Spanned("HL", "SP_N8") = 2
    BY DEF Spanned, Short, Long
  <2>5. LoadAt("HL", "SP_N8") = 248
    <3>1. LoadAt("HL", "SP_N8") = PlaceAt("HL", "SP_N8")
      BY LoadsAt DEF R8s
    <3>2. QED
      BY <3>1 DEF PlaceAt
  <2>6. 248 \notin Unwritten /\ "LD_HLSP_S8" \in StorageFamilies \cup {"NOP", "LD_HLSP_S8"}
    BY DEF Unwritten, StorageFamilies
  <2>7. QED
    BY <1>17, <2>3, <2>4, <2>5, <2>6, LoadRight
<1>18. CASE row = INSTR_DEF(<<"LD", "SP", "HL">>, "LD_SP_HL", 249, 1, 2)
  <2>1. row.opcode = 249 /\ row.name = <<"LD", "SP", "HL">> /\ row.family[1] = "LD_SP_HL"
    BY <1>18 DEF INSTR_DEF, INSTR_DFX
  <2>2. ASSUME NEW s \in Tidy PROVE Done(s, row)
    <3>1. "HL" \in {"BC", "DE", "HL", "SP"}
      OBVIOUS
    <3>2. QED
      BY <2>1, <3>1, LoadsOfWords
  <2>3. Spanned("SP", "HL") = 1
    BY DEF Spanned, Short, Long
  <2>4. LoadAt("SP", "HL") = 249
    <3>1. LoadAt("SP", "HL") = PlaceAt("SP", "HL")
      BY LoadsAt DEF R8s
    <3>2. QED
      BY <3>1 DEF PlaceAt
  <2>5. 249 \notin Unwritten /\ "LD_SP_HL" \in StorageFamilies \cup {"NOP", "LD_HLSP_S8"}
    BY DEF Unwritten, StorageFamilies
  <2>6. QED
    BY <1>18, <2>2, <2>3, <2>4, <2>5, LoadRight
<1>19. QED
  BY <1>1, <1>2, <1>3, <1>4, <1>5, <1>6, <1>7, <1>8, <1>9, <1>10, <1>11, <1>12, <1>13, <1>14, <1>15, <1>16, <1>17, <1>18 DEF RowsLDPlaces

\* The files of rows, each right.
LEMMA LDRight == ASSUME FullWidth, NEW row \in RowsLD PROVE Right(row)
<1> DEFINE moves == {INSTR_DEF(<<"LD", r, s>>, FamilyOfLD(r, s), 64 + 8 * REG(r) + REG(s), 1, 1) :
                       r \in R8s, s \in R8s}
           loads == {INSTR_DEF(<<"LD", r, "HLR">>, "LD_R8_HLR", 70 + 8 * REG(r), 1, 2) : r \in R8s}
           bytes == {INSTR_DEF(<<"LD", r, "N8">>, "LD_R8_N8", 6 + 8 * REG(r), 2, 2) : r \in R8s}
           stores == {INSTR_DEF(<<"LD", "HLR", r>>, "LD_HLR_R8", 112 + REG(r), 1, 2) : r \in R8s}
           words == {INSTR_DEF(<<"LD", p.x, "N16">>, "LD_R16SP_N16", 1 + 16 * p.code, 3, 3) :
                       p \in Coded(R16SPAt)}
<1>1. CASE row \in moves
  <2>1. PICK r \in R8s, q \in R8s :
          row = INSTR_DEF(<<"LD", r, q>>, FamilyOfLD(r, q), 64 + 8 * REG(r) + REG(q), 1, 1)
    BY <1>1
  <2>2. QED
    BY <2>1, CopyRight
<1>2. CASE row \in loads \cup bytes \cup stores
  <2>1. PICK r \in R8s :
          \/ row = INSTR_DEF(<<"LD", r, "HLR">>, "LD_R8_HLR", 70 + 8 * REG(r), 1, 2)
          \/ row = INSTR_DEF(<<"LD", r, "N8">>, "LD_R8_N8", 6 + 8 * REG(r), 2, 2)
          \/ row = INSTR_DEF(<<"LD", "HLR", r>>, "LD_HLR_R8", 112 + REG(r), 1, 2)
    BY <1>2
  <2>2. QED
    BY <2>1, RegisterLoadsRight
<1>3. CASE row \in words
  BY <1>3, LoadWordRight
<1>4. CASE row \in RowsLDPlaces
  BY <1>4, PlacesRight
<1>5. QED
  <2>1. RowsLD = moves \cup loads \cup bytes \cup stores \cup words \cup RowsLDPlaces
    BY DEF RowsLD
  <2> HIDE DEF moves, loads, bytes, stores, words
  <2>2. QED
    BY <2>1, <1>1, <1>2, <1>3, <1>4

\* The conditional jumps.
LEMMA ConditionalRight ==
  ASSUME FullWidth, NEW verb, NEW to, NEW family, NEW base, NEW bytes, NEW cycles, NEW xtra,
         \/ verb = "CALL" /\ to = "N16" /\ family = "CALL_CC_N16" /\ base = 196 /\ bytes = 3
         \/ verb = "JP" /\ to = "N16" /\ family = "JP_CC_N16" /\ base = 194 /\ bytes = 3
         \/ verb = "JR" /\ to = "E8" /\ family = "JR_CC_E8" /\ base = 32 /\ bytes = 2
         \/ verb = "RET" /\ to = "-" /\ family = "RET_CC" /\ base = 192 /\ bytes = 1,
         NEW row \in Conditional(verb, to, family, base, bytes, cycles, xtra)
  PROVE  Right(row)
<1>1. bytes = Spanned("-", to) /\ to \in {"-", "N16", "E8"} /\ base \in {32, 192, 194, 196}
  BY DEF Spanned, Short, Long
<1>2. PICK i \in 0 .. 3 :
        /\ row.name = <<verb, Conditions[i + 1], to>> /\ row.family[1] = family
        /\ row.kind = "DIRECT" /\ row.bytes = bytes /\ row.bytes = Length(row) /\ row.opcode = base + 8 * i
        /\ \A s \in Tidy : check_cc(s, row) <=> Holds(s, Conditions[i + 1])
  <2>1. ConditionedAs(row, verb, to, family, base, bytes)
    BY <1>1, ConditionalParts
  <2>2. QED
    BY <2>1 DEF ConditionedAs
<1>3. PICK c \in ConditionNames : c = Conditions[i + 1] /\ ConditionAt(c) = i
  BY PairCodes
<1>4. Sits(row)
  <2>1. JumpAt(verb, c) = base + 8 * i
    BY <1>3 DEF JumpAt
  <2>2. CodeNamed(row.name) = base + 8 * i /\ KindNamed(row.name) = "DIRECT"
    BY <1>2, <1>3, <2>1, JumpCodes
  <2>3. row.name # None
    BY <1>2, NotNone
  <2>4. row.opcode \notin Unwritten
    BY <1>2 DEF Unwritten
  <2>5. QED
    BY <1>2, <2>2, <2>3, <2>4 DEF Sits
<1>5. ASSUME NEW s \in Tidy PROVE Agrees(s, row)
  <2>1. row.name[1] = verb /\ row.name[2] = c /\ c # "HL"
    BY <1>2, <1>3 DEF ConditionNames
  <2>2. Conditioned(s, row)
    BY <1>2, <1>3, <2>1 DEF Conditioned, ConditionalFamilies
  <2>3. row.bytes \in Nat
    BY <1>2
  <2>4. verb = "CALL" => Agrees(s, row)
    BY <1>2, <2>1, <2>2, <2>3, CALLAgrees
  <2>5. verb = "JP" => Agrees(s, row)
    BY <1>2, <2>1, <2>2, JPAgrees
  <2>6. verb = "JR" => Agrees(s, row)
    BY <1>2, <2>1, <2>2, <2>3, JRAgrees
  <2>7. verb = "RET" => Agrees(s, row)
    BY <1>2, <2>1, <2>2, RETAgrees
  <2>8. QED
    BY <2>4, <2>5, <2>6, <2>7
<1>6. QED
  BY <1>4, <1>5 DEF Right

\* The others: to a word, to HL, to a byte away, and back.
LEMMA JumpsRight ==
  ASSUME FullWidth, NEW verb, NEW x, NEW family, NEW opcode, NEW bytes, NEW cycles,
         \/ verb = "CALL" /\ x = "N16" /\ family = "CALL_N16" /\ opcode = 205 /\ bytes = 3
         \/ verb = "JP" /\ x = "HL" /\ family = "JP_HL" /\ opcode = 233 /\ bytes = 1
         \/ verb = "JP" /\ x = "N16" /\ family = "JP_N16" /\ opcode = 195 /\ bytes = 3
         \/ verb = "JR" /\ x = "E8" /\ family = "JR_E8" /\ opcode = 24 /\ bytes = 2
         \/ verb = "RET" /\ x = "-" /\ family = "RET" /\ opcode = 201 /\ bytes = 1
         \/ verb = "RETI" /\ x = "-" /\ family = "RETI" /\ opcode = 217 /\ bytes = 1,
         NEW row, row = INSTR_DEF(<<verb, x, "-">>, family, opcode, bytes, cycles)
  PROVE  Right(row)
<1>1. /\ row.kind = "DIRECT" /\ row.opcode = opcode /\ row.bytes = bytes
      /\ row.name = <<verb, x, "-">> /\ row.name[1] = verb /\ row.name[2] = x /\ row.name[3] = "-"
      /\ row.family[1] = family
  BY DEF INSTR_DEF, INSTR_DFX
<1>2. row.bytes = Length(row) /\ row.bytes \in Nat
  <2>1. Spanned(x, "-") = bytes
    BY DEF Spanned, Short, Long
  <2>2. QED
    BY <1>1, <2>1, LengthSpans
<1>3. Sits(row)
  <2>1. CodeNamed(row.name) = opcode /\ KindNamed(row.name) = "DIRECT"
    <3>1. CASE verb = "RETI"
      <4>1. AloneAt(verb) = 217 /\ verb \in Alones
        BY <3>1 DEF AloneAt, Alones
      <4>2. QED
        BY <1>1, <3>1, <4>1, AloneCodes
    <3>2. CASE verb # "RETI"
      <4>1. JumpAt(verb, x) = opcode
        BY <3>2 DEF JumpAt, ConditionNames
      <4>2. QED
        BY <1>1, <3>2, <4>1, JumpCodes
    <3>3. QED
      BY <3>1, <3>2
  <2>2. row.name # None
    BY <1>1, NotNone
  <2>3. row.opcode \notin Unwritten
    BY <1>1 DEF Unwritten
  <2>4. QED
    BY <1>1, <2>1, <2>2, <2>3 DEF Sits
<1>4. ASSUME NEW s \in Tidy PROVE Agrees(s, row)
  <2>1. Conditioned(s, row)
    <3>1. family \notin ConditionalFamilies /\ x \notin {"NZ", "Z", "NC", "C"}
      BY DEF ConditionalFamilies
    <3>2. QED
      BY <1>1, <3>1, AlwaysHold DEF Conditioned
  <2>2. verb = "CALL" => Agrees(s, row)
    BY <1>1, <1>2, <2>1, CALLAgrees
  <2>3. verb = "JP" => Agrees(s, row)
    BY <1>1, <1>2, <2>1, JPAgrees
  <2>4. verb = "JR" => Agrees(s, row)
    BY <1>1, <1>2, <2>1, JRAgrees
  <2>5. verb \in {"RET", "RETI"} => Agrees(s, row)
    BY <1>1, <1>2, <2>1, RETAgrees
  <2>6. QED
    BY <2>2, <2>3, <2>4, <2>5
<1>5. QED
  BY <1>3, <1>4 DEF Right

LEMMA RestartRight ==
  ASSUME FullWidth, NEW u \in Coded(U3At),
         NEW row, row = INSTR_DEF(<<"RST", u.x, "-">>, "RST_U3", 199 + 8 * u.code, 1, 4)
  PROVE  Right(row)
<1>1. u.code \in 0 .. 7 /\ u.x = U3At[u.code + 1]
  BY CodedIs
<1>2. Digit(u.x) = u.code
  BY <1>1, DigitIs
<1>3. /\ row.kind = "DIRECT" /\ row.opcode = 199 + 8 * u.code /\ row.bytes = 1
      /\ row.name = <<"RST", u.x, "-">> /\ row.name[1] = "RST" /\ row.name[2] = u.x /\ row.name[3] = "-"
      /\ row.family[1] = "RST_U3"
  BY DEF INSTR_DEF, INSTR_DFX
<1>4. u.x \in {"0", "1", "2", "3", "4", "5", "6", "7"}
  BY <1>1 DEF U3At
<1>5. row.bytes = Length(row)
  <2>1. Spanned(u.x, "-") = 1
    BY <1>4 DEF Spanned, Short, Long
  <2>2. QED
    BY <1>3, <2>1, LengthSpans
<1>6. Sits(row)
  <2>1. JumpAt("RST", u.x) = 199 + 8 * u.code
    BY <1>2 DEF JumpAt
  <2>2. CodeNamed(row.name) = row.opcode /\ KindNamed(row.name) = "DIRECT"
    BY <1>3, <2>1, JumpCodes
  <2>3. row.name # None
    BY <1>3, NotNone
  <2>4. row.opcode \notin Unwritten
    BY <1>1, <1>3 DEF Unwritten
  <2>5. QED
    BY <1>3, <2>2, <2>3, <2>4 DEF Sits
<1>7. ASSUME NEW s \in Tidy PROVE Agrees(s, row)
  <2>1. Conditioned(s, row)
    <3>1. "RST_U3" \notin ConditionalFamilies /\ u.x \notin {"NZ", "Z", "NC", "C"}
      BY <1>4 DEF ConditionalFamilies
    <3>2. QED
      BY <1>3, <3>1, AlwaysHold DEF Conditioned
  <2>2. extract_n3(row.opcode) = u.code
    BY <1>1, <1>3 DEF extract_n3
  <2>3. QED
    BY <1>1, <1>2, <1>3, <1>5, <2>1, <2>2, RSTAgrees
<1>8. QED
  BY <1>6, <1>7 DEF Right

\* The instructions without operands.
AloneFamilies == {"SCCF", "CPL", "DAA", "EDI", "HALT", "NOP", "STOP", "ROTCA", "ROTA"}
LEMMA AloneRight ==
  ASSUME FullWidth, NEW verb, NEW family, NEW opcode, NEW cycles,
         \/ verb = "CCF" /\ family = "SCCF" /\ opcode = 63
         \/ verb = "CPL" /\ family = "CPL" /\ opcode = 47
         \/ verb = "DAA" /\ family = "DAA" /\ opcode = 39
         \/ verb = "DI" /\ family = "EDI" /\ opcode = 243
         \/ verb = "EI" /\ family = "EDI" /\ opcode = 251
         \/ verb = "HALT" /\ family = "HALT" /\ opcode = 118
         \/ verb = "NOP" /\ family = "NOP" /\ opcode = 0
         \/ verb = "SCF" /\ family = "SCCF" /\ opcode = 55
         \/ verb = "STOP" /\ family = "STOP" /\ opcode = 16
         \/ verb = "RLCA" /\ family = "ROTCA" /\ opcode = 7
         \/ verb = "RRCA" /\ family = "ROTCA" /\ opcode = 15
         \/ verb = "RLA" /\ family = "ROTA" /\ opcode = 23
         \/ verb = "RRA" /\ family = "ROTA" /\ opcode = 31,
         NEW row, row = INSTR_DEF(<<verb, "-", "-">>, family, opcode, 1, cycles)
  PROVE  Right(row)
<1>1. row.opcode = opcode /\ row.name = <<verb, "-", "-">> /\ row.family[1] = family
  BY DEF INSTR_DEF, INSTR_DFX
<1>2. verb \in Alones /\ verb # "RETI" /\ family \in AloneFamilies
  BY DEF Alones, AloneFamilies
<1>3. AloneAt(verb) = opcode
  BY DEF AloneAt
<1>4. verb \notin Jumps /\ family \notin JumpFamilies /\ family \notin ConditionalFamilies /\ verb # "UNKN"
  BY <1>2 DEF Alones, AloneFamilies, Jumps, JumpFamilies, ConditionalFamilies
<1>5. opcode \notin Unwritten /\ Spanned("-", "-") = 1
  BY DEF Unwritten, Spanned, Short, Long
<1>6. ASSUME NEW s \in Tidy PROVE Done(s, row)
  <2>1. verb = "CCF" => Done(s, row)
    <3>1. bit(63, 3) = 1
      BY DEF bit
    <3>2. QED
      BY <1>1, <3>1, CarriesAsNamed
  <2>2. verb = "CPL" => Done(s, row)
    BY <1>1, CPLAsNamed
  <2>3. verb = "DAA" => Done(s, row)
    BY <1>1, DAAAsNamed
  <2>4. verb = "DI" => Done(s, row)
    <3>1. bit(243, 3) = 0
      BY DEF bit
    <3>2. QED
      BY <1>1, <3>1, SwitchesAsNamed
  <2>5. verb = "EI" => Done(s, row)
    <3>1. bit(251, 3) = 1
      BY DEF bit
    <3>2. QED
      BY <1>1, <3>1, SwitchesAsNamed
  <2>6. verb = "HALT" => Done(s, row)
    BY <1>1, SwitchesAsNamed
  <2>7. verb = "NOP" => Done(s, row)
    BY <1>1, SwitchesAsNamed
  <2>8. verb = "SCF" => Done(s, row)
    <3>1. bit(55, 3) = 0
      BY DEF bit
    <3>2. QED
      BY <1>1, <3>1, CarriesAsNamed
  <2>9. verb = "STOP" => Done(s, row)
    BY <1>1, SwitchesAsNamed
  <2>10. verb = "RLCA" => Done(s, row)
    <3>1. bit(7, 3) = 0
      BY DEF bit
    <3>2. QED
      BY <1>1, <3>1, RLCAAsNamed
  <2>11. verb = "RRCA" => Done(s, row)
    <3>1. bit(15, 3) = 1
      BY DEF bit
    <3>2. QED
      BY <1>1, <3>1, RRCAAsNamed
  <2>12. verb = "RLA" => Done(s, row)
    <3>1. bit(23, 3) = 0
      BY DEF bit
    <3>2. QED
      BY <1>1, <3>1, RLAAsNamed
  <2>13. verb = "RRA" => Done(s, row)
    <3>1. bit(31, 3) = 1
      BY DEF bit
    <3>2. QED
      BY <1>1, <3>1, RRAAsNamed
  <2>14. QED
    BY <1>2, <2>1, <2>2, <2>3, <2>4, <2>5, <2>6, <2>7, <2>8, <2>9, <2>10, <2>11, <2>12, <2>13 DEF Alones
<1>7. CodeNamed(<<verb, "-", "-">>) = opcode /\ KindNamed(<<verb, "-", "-">>) = "DIRECT"
  BY <1>2, <1>3, AloneCodes
<1>8. QED
  BY <1>4, <1>5, <1>6, <1>7, DefinedRight

LEMMA AddSPRight ==
  ASSUME FullWidth, NEW row, row = INSTR_DEF(<<"ADD", "SP", "N">>, "LD_HLSP_S8", 232, 2, 4)
  PROVE  Right(row)
<1>1. row.opcode = 232 /\ row.name = <<"ADD", "SP", "N">> /\ row.family[1] = "LD_HLSP_S8"
  BY DEF INSTR_DEF, INSTR_DFX
<1>2. bit(row.opcode, 4) = 0
  BY <1>1 DEF bit
<1>3. \A s \in Tidy : Done(s, row)
  BY <1>1, <1>2, DisplacesAsNamed
<1>4. Spanned("SP", "N") = 2 /\ 232 \notin Unwritten
  BY DEF Spanned, Short, Long, Unwritten
<1>5. "ADD" \notin Jumps /\ "LD_HLSP_S8" \notin JumpFamilies /\ "LD_HLSP_S8" \notin ConditionalFamilies
  BY DEF Jumps, JumpFamilies, ConditionalFamilies
<1>6. QED
  BY <1>3, <1>4, <1>5, DisplacedCodes, DefinedRight

LEMMA ADCtoCPLRight == ASSUME FullWidth, NEW row \in RowsADCtoCPL PROVE Right(row)
<1>1. 8 * 16 = 128 /\ 8 * 17 = 136 /\ 8 * 20 = 160
  OBVIOUS
<1>2. CASE row \in Accumulator("ADC", "ADD_A", 136) \cup Accumulator("ADD", "ADD_A", 128)
                   \cup Accumulator("AND", "AND_A", 160)
  <2>1. \/ row \in Accumulator("ADC", "ADD_A", 8 * 17) \/ row \in Accumulator("ADD", "ADD_A", 8 * 16)
        \/ row \in Accumulator("AND", "AND_A", 8 * 20)
    BY <1>1, <1>2
  <2>2. QED
    BY <2>1, AccumulatorRight, Zenon
<1>3. CASE row \in {INSTR_FORM(<<"ADD", "HL", p.x>>, "ADD_HL_R16SP", "-", 9 + 16 * p.code, 1, 2) :
                      p \in Coded(R16SPAt)}
  BY <1>3, AddHLRight
<1>4. CASE row \in Conditional("CALL", "N16", "CALL_CC_N16", 196, 3, 3, 3)
  BY <1>4, ConditionalRight, Zenon
<1>5. row = INSTR_DEF(<<"ADD", "SP", "N">>, "LD_HLSP_S8", 232, 2, 4) => Right(row)
  BY AddSPRight
<1>6. row = INSTR_DEF(<<"CALL", "N16", "-">>, "CALL_N16", 205, 3, 6) => Right(row)
  BY JumpsRight, Zenon
<1>7. row = INSTR_DEF(<<"CCF", "-", "-">>, "SCCF", 63, 1, 1) => Right(row)
  BY AloneRight, Zenon
<1>8. row = INSTR_DEF(<<"CPL", "-", "-">>, "CPL", 47, 1, 1) => Right(row)
  BY AloneRight, Zenon
<1>9. QED
  <2>1. \/ row \in Accumulator("ADC", "ADD_A", 136) \cup Accumulator("ADD", "ADD_A", 128)
                       \cup Accumulator("AND", "AND_A", 160)
        \/ row \in {INSTR_FORM(<<"ADD", "HL", p.x>>, "ADD_HL_R16SP", "-", 9 + 16 * p.code, 1, 2) :
                          p \in Coded(R16SPAt)}
        \/ row \in Conditional("CALL", "N16", "CALL_CC_N16", 196, 3, 3, 3)
        \/ row = INSTR_DEF(<<"ADD", "SP", "N">>, "LD_HLSP_S8", 232, 2, 4)
        \/ row = INSTR_DEF(<<"CALL", "N16", "-">>, "CALL_N16", 205, 3, 6)
        \/ row = INSTR_DEF(<<"CCF", "-", "-">>, "SCCF", 63, 1, 1)
        \/ row = INSTR_DEF(<<"CPL", "-", "-">>, "CPL", 47, 1, 1)
    BY DEF RowsADCtoCPL
  <2>2. QED
    BY <2>1, <1>2, <1>3, <1>4, <1>5, <1>6, <1>7, <1>8

LEMMA CPtoJRRight == ASSUME FullWidth, NEW row \in RowsCPtoJR PROVE Right(row)
<1>1. CASE row \in Accumulator("CP", "CP_A", 184)
  <2>1. 8 * 23 = 184
    OBVIOUS
  <2>2. row \in Accumulator("CP", "CP_A", 8 * 23)
    BY <1>1, <2>1
  <2>3. QED
    BY <2>2, AccumulatorRight, Zenon
<1>2. CASE row \in Counted("DEC", "DEC", 5) \cup Counted("INC", "INC", 4)
  BY <1>2, CountedRight
<1>3. CASE row \in Wide("DEC", "DEC", 11) \cup Wide("INC", "INC", 3)
  BY <1>3, WideRight
<1>4. CASE row \in Conditional("JP", "N16", "JP_CC_N16", 194, 3, 3, 1)
  BY <1>4, ConditionalRight, Zenon
<1>5. CASE row \in Conditional("JR", "E8", "JR_CC_E8", 32, 2, 2, 1)
  BY <1>5, ConditionalRight, Zenon
<1>6. row = INSTR_DEF(<<"DAA", "-", "-">>, "DAA", 39, 1, 1) => Right(row)
  BY AloneRight, Zenon
<1>7. row = INSTR_DEF(<<"DI", "-", "-">>, "EDI", 243, 1, 1) => Right(row)
  BY AloneRight, Zenon
<1>8. row = INSTR_DEF(<<"EI", "-", "-">>, "EDI", 251, 1, 1) => Right(row)
  BY AloneRight, Zenon
<1>9. row = INSTR_DEF(<<"HALT", "-", "-">>, "HALT", 118, 1, 1) => Right(row)
  BY AloneRight, Zenon
<1>10. row = INSTR_DEF(<<"JP", "HL", "-">>, "JP_HL", 233, 1, 1) => Right(row)
  BY JumpsRight, Zenon
<1>11. row = INSTR_DEF(<<"JP", "N16", "-">>, "JP_N16", 195, 3, 4) => Right(row)
  BY JumpsRight, Zenon
<1>12. row = INSTR_DEF(<<"JR", "E8", "-">>, "JR_E8", 24, 2, 3) => Right(row)
  BY JumpsRight, Zenon
<1>13. QED
  <2>1. \/ row \in Accumulator("CP", "CP_A", 184)
        \/ row \in Counted("DEC", "DEC", 5) \cup Counted("INC", "INC", 4)
        \/ row \in Wide("DEC", "DEC", 11) \cup Wide("INC", "INC", 3)
        \/ row \in Conditional("JP", "N16", "JP_CC_N16", 194, 3, 3, 1)
        \/ row \in Conditional("JR", "E8", "JR_CC_E8", 32, 2, 2, 1)
        \/ row = INSTR_DEF(<<"DAA", "-", "-">>, "DAA", 39, 1, 1)
        \/ row = INSTR_DEF(<<"DI", "-", "-">>, "EDI", 243, 1, 1)
        \/ row = INSTR_DEF(<<"EI", "-", "-">>, "EDI", 251, 1, 1)
        \/ row = INSTR_DEF(<<"HALT", "-", "-">>, "HALT", 118, 1, 1)
        \/ row = INSTR_DEF(<<"JP", "HL", "-">>, "JP_HL", 233, 1, 1)
        \/ row = INSTR_DEF(<<"JP", "N16", "-">>, "JP_N16", 195, 3, 4)
        \/ row = INSTR_DEF(<<"JR", "E8", "-">>, "JR_E8", 24, 2, 3)
    BY DEF RowsCPtoJR
  <2>2. QED
    BY <2>1, <1>1, <1>2, <1>3, <1>4, <1>5, <1>6, <1>7, <1>8, <1>9, <1>10, <1>11, <1>12

LEMMA NOPtoXORRight == ASSUME FullWidth, NEW row \in RowsNOPtoXOR PROVE Right(row)
<1> DEFINE pops == {INSTR_DEF(<<"POP", p.x, "-">>, "POP_R16", 193 + 16 * p.code, 1, 3) : p \in Coded(R16At)}
           pushes == {INSTR_DEF(<<"PUSH", p.x, "-">>, "PUSH_R16", 197 + 16 * p.code, 1, 4) : p \in Coded(R16At)}
           restarts == {INSTR_DEF(<<"RST", u.x, "-">>, "RST_U3", 199 + 8 * u.code, 1, 4) : u \in Coded(U3At)}
           returns == Conditional("RET", "-", "RET_CC", 192, 1, 2, 3)
           sums == Accumulator("OR", "OR_A", 176) \cup Accumulator("SBC", "SUB_A", 152)
                   \cup Accumulator("SUB", "SUB_A", 144) \cup Accumulator("XOR", "XOR_A", 168)
<1>1. CASE row \in pops \cup pushes
  <2>1. PICK p \in Coded(R16At) :
          \/ row = INSTR_DEF(<<"POP", p.x, "-">>, "POP_R16", 193 + 16 * p.code, 1, 3)
          \/ row = INSTR_DEF(<<"PUSH", p.x, "-">>, "PUSH_R16", 197 + 16 * p.code, 1, 4)
    BY <1>1
  <2>2. QED
    BY <2>1, StackRight
<1>2. CASE row \in restarts
  BY <1>2, RestartRight
<1>3. CASE row \in returns
  BY <1>3, ConditionalRight, Zenon
<1>4. CASE row \in sums
  <2>1. 8 * 22 = 176 /\ 8 * 19 = 152 /\ 8 * 18 = 144 /\ 8 * 21 = 168
    OBVIOUS
  <2>2. \/ row \in Accumulator("OR", "OR_A", 8 * 22) \/ row \in Accumulator("SBC", "SUB_A", 8 * 19)
        \/ row \in Accumulator("SUB", "SUB_A", 8 * 18) \/ row \in Accumulator("XOR", "XOR_A", 8 * 21)
    BY <1>4, <2>1
  <2>3. QED
    BY <2>2, AccumulatorRight, Zenon
<1>5. row = INSTR_DEF(<<"NOP", "-", "-">>, "NOP", 0, 1, 1) => Right(row)
  BY AloneRight, Zenon
<1>6. row = INSTR_DEF(<<"SCF", "-", "-">>, "SCCF", 55, 1, 1) => Right(row)
  BY AloneRight, Zenon
<1>7. row = INSTR_DEF(<<"STOP", "-", "-">>, "STOP", 16, 1, 0) => Right(row)
  BY AloneRight, Zenon
<1>8. row = INSTR_DEF(<<"RLCA", "-", "-">>, "ROTCA", 7, 1, 1) => Right(row)
  BY AloneRight, Zenon
<1>9. row = INSTR_DEF(<<"RRCA", "-", "-">>, "ROTCA", 15, 1, 1) => Right(row)
  BY AloneRight, Zenon
<1>10. row = INSTR_DEF(<<"RLA", "-", "-">>, "ROTA", 23, 1, 1) => Right(row)
  BY AloneRight, Zenon
<1>11. row = INSTR_DEF(<<"RRA", "-", "-">>, "ROTA", 31, 1, 1) => Right(row)
  BY AloneRight, Zenon
<1>12. row = INSTR_DEF(<<"RET", "-", "-">>, "RET", 201, 1, 4) => Right(row)
  BY JumpsRight, Zenon
<1>13. row = INSTR_DEF(<<"RETI", "-", "-">>, "RETI", 217, 1, 4) => Right(row)
  BY JumpsRight, Zenon
<1>14. QED
  <2> HIDE DEF pops, pushes, restarts, returns, sums
  <2>1. \/ row \in pops \cup pushes
        \/ row \in restarts
        \/ row \in returns
        \/ row \in sums
        \/ row = INSTR_DEF(<<"NOP", "-", "-">>, "NOP", 0, 1, 1)
        \/ row = INSTR_DEF(<<"SCF", "-", "-">>, "SCCF", 55, 1, 1)
        \/ row = INSTR_DEF(<<"STOP", "-", "-">>, "STOP", 16, 1, 0)
        \/ row = INSTR_DEF(<<"RLCA", "-", "-">>, "ROTCA", 7, 1, 1)
        \/ row = INSTR_DEF(<<"RRCA", "-", "-">>, "ROTCA", 15, 1, 1)
        \/ row = INSTR_DEF(<<"RLA", "-", "-">>, "ROTA", 23, 1, 1)
        \/ row = INSTR_DEF(<<"RRA", "-", "-">>, "ROTA", 31, 1, 1)
        \/ row = INSTR_DEF(<<"RET", "-", "-">>, "RET", 201, 1, 4)
        \/ row = INSTR_DEF(<<"RETI", "-", "-">>, "RETI", 217, 1, 4)
    BY ZenonT(60) DEF RowsNOPtoXOR, pops, pushes, restarts, returns, sums
  <2>2. QED
    BY <2>1, <1>1, <1>2, <1>3, <1>4, <1>5, <1>6, <1>7, <1>8, <1>9, <1>10, <1>11, <1>12, <1>13

LEMMA PrefixedRight ==
  ASSUME FullWidth, NEW row \in RowsBIT \cup RowsRES \cup RowsSET \cup RowsRLCtoRR \cup RowsSLAtoSWAP
  PROVE  Right(row)
<1>1. 8 * 8 = 64 /\ 8 * 16 = 128 /\ 8 * 24 = 192
  OBVIOUS
<1>2. CASE row \in RowsBIT \cup RowsRES \cup RowsSET
  <2>1. \/ row \in Placed("BIT", "BIT_U3", 8 * 8, 3)
        \/ row \in Placed("RES", "CHG_U3", 8 * 16, 4)
        \/ row \in Placed("SET", "CHG_U3", 8 * 24, 4)
    BY <1>1, <1>2 DEF RowsBIT, RowsRES, RowsSET
  <2>2. QED
    BY <2>1, PlacedRight, Zenon
<1>3. 8 * 0 = 0 /\ 8 * 1 = 8 /\ 8 * 2 = 16 /\ 8 * 3 = 24 /\ 8 * 4 = 32 /\ 8 * 5 = 40 /\ 8 * 6 = 48 /\ 8 * 7 = 56
  OBVIOUS
<1>4. CASE row \in RowsRLCtoRR
  <2>1. \/ row \in Shifted("RLC", "ROTC", 8 * 0) \/ row \in Shifted("RRC", "ROTC", 8 * 1)
        \/ row \in Shifted("RL", "ROT", 8 * 2) \/ row \in Shifted("RR", "ROT", 8 * 3)
    BY <1>3, <1>4 DEF RowsRLCtoRR
  <2>2. QED
    BY <2>1, ShiftedRight, Zenon
<1>5. CASE row \in RowsSLAtoSWAP
  <2>1. \/ row \in Shifted("SLA", "SLA", 8 * 4) \/ row \in Shifted("SRA", "SRA", 8 * 5)
        \/ row \in Shifted("SWAP", "SWAP", 8 * 6) \/ row \in Shifted("SRL", "SRL", 8 * 7)
    BY <1>3, <1>5 DEF RowsSLAtoSWAP
  <2>2. QED
    BY <2>1, ShiftedRight, Zenon
<1>6. QED
  BY <1>2, <1>4, <1>5

\* Every row of opcode.h does as it is called, and stands at the code of its name.
LEMMA RowsRight == ASSUME FullWidth, NEW row \in Rows, row # OP_UNKOWN PROVE Right(row)
BY ADCtoCPLRight, CPtoJRRight, LDRight, NOPtoXORRight, PrefixedRight DEF Rows
-------------------------------------------------------------------------------
(* The tables of opcode.c: every name stands at its code *)

\* A name at i in the table of a kind: there is none where no row carries i.
At(kind, i, name) ==
  \/ name = None /\ kind = "DIRECT" /\ i \in Unwritten
  \/ name # None /\ CodeNamed(name) = i /\ KindNamed(name) = kind

\* A name of the direct table, from its code.
LEMMA AtDirect ==
  ASSUME NEW verb, verb # "UNKN", NEW x, NEW y, NEW i,
         CodeNamed(<<verb, x, y>>) = i, KindNamed(<<verb, x, y>>) = "DIRECT"
  PROVE  At("DIRECT", i, <<verb, x, y>>)
BY NotNone DEF At

\* The operand that a code selects has that code.
LEMMA RegisterAt ==
  ASSUME NEW i \in 0 .. 7
  PROVE  REG(R8At[i + 1]) = i /\ R8At[i + 1] \in R8s \cup {"HLR"} /\ R8At[i + 1] \notin Wide16
<1>1. R8At[i + 1] \in R8s \cup {"HLR"} /\ R8At[i + 1] \notin Wide16
  BY DEF R8At, R8s, Wide16
<1>2. REG(R8At[i + 1]) = i
  BY DEF REG, CodeOf, R8At
<1>3. QED
  BY <1>1, <1>2

\* The verb of a line has the code of the line.
LEMMA SumVerbAt ==
  ASSUME NEW line \in 0 .. 7
  PROVE  LET verb == <<"ADD", "ADC", "SUB", "SBC", "AND", "XOR", "OR", "CP">>[line + 1]
         IN  verb \in SumVerbs /\ SumAt(verb) = 16 + line
BY DEF SumVerbs, SumAt

LEMMA TurnVerbAt ==
  ASSUME NEW line \in 0 .. 7
  PROVE  LET verb == <<"RLC", "RRC", "RL", "RR", "SLA", "SRA", "SWAP", "SRL">>[line + 1]
         IN  verb \in TurnVerbs /\ TurnAt(verb) = line
BY DEF TurnVerbs, TurnAt

\* The third quadrant: arithmetic with a register.
LEMMA DirectAluAt ==
  ASSUME NEW line \in 0 .. 7, NEW k \in 0 .. 7
  PROVE  At("DIRECT", 128 + 8 * line + k, DirectAlu(line)[k + 1])
<1> DEFINE verb == <<"ADD", "ADC", "SUB", "SBC", "AND", "XOR", "OR", "CP">>[line + 1]
           x == R8At[k + 1]
<1>1. DirectAlu(line)[k + 1] = <<verb, "A", x>>
  BY DEF DirectAlu
<1>2. verb \in SumVerbs /\ SumAt(verb) = 16 + line
  BY SumVerbAt
<1>3. REG(x) = k /\ x # "N8"
  BY RegisterAt DEF R8s
<1> HIDE DEF verb, x
<1>4. CodeNamed(<<verb, "A", x>>) = 128 + 8 * line + k /\ KindNamed(<<verb, "A", x>>) = "DIRECT"
  BY <1>2, <1>3, SumCodes
<1>5. verb # "UNKN"
  BY <1>2 DEF SumVerbs
<1>6. QED
  BY <1>1, <1>4, <1>5, AtDirect

\* The second quadrant: LD between registers, with HALT in place of LD (HL),(HL).
LEMMA DirectLoadsAt ==
  ASSUME NEW line \in 0 .. 7, NEW k \in 0 .. 7
  PROVE  At("DIRECT", 64 + 8 * line + k, DirectLoads(line)[k + 1])
<1>1. CASE line = 6 /\ k = 6
  <2>1. DirectLoads(line)[k + 1] = <<"HALT", "-", "-">>
    BY <1>1 DEF DirectLoads
  <2>2. "HALT" \in Alones /\ AloneAt("HALT") = 64 + 8 * line + k
    BY <1>1 DEF Alones, AloneAt
  <2>3. QED
    BY <2>1, <2>2, AloneCodes, AtDirect
<1>2. CASE ~(line = 6 /\ k = 6)
  <2> DEFINE x == R8At[line + 1]
             y == R8At[k + 1]
  <2>1. DirectLoads(line)[k + 1] = <<"LD", x, y>>
    BY <1>2 DEF DirectLoads
  <2>2. /\ REG(x) = line /\ REG(y) = k
        /\ x \in R8s \cup {"HLR"} /\ y \in R8s \cup {"HLR"}
    BY RegisterAt
  <2> HIDE DEF x, y
  <2>3. LoadAt(x, y) = 64 + 8 * line + k
    BY <2>2, LoadsAt
  <2>4. QED
    BY <2>1, <2>3, LoadCodes, AtDirect
<1>3. QED
  BY <1>1, <1>2

\* The four quadrants of the prefixed table.
LEMMA PrefixedAt ==
  ASSUME NEW line \in 0 .. 7, NEW k \in 0 .. 7
  PROVE  /\ At("PREFIXED", 8 * line + k, PrefixedFirst(line)[k + 1])
         /\ At("PREFIXED", 64 + 8 * line + k, PrefixedBIT(line)[k + 1])
         /\ At("PREFIXED", 128 + 8 * line + k, PrefixedRES(line)[k + 1])
         /\ At("PREFIXED", 192 + 8 * line + k, PrefixedSET(line)[k + 1])
<1> DEFINE verb == <<"RLC", "RRC", "RL", "RR", "SLA", "SRA", "SWAP", "SRL">>[line + 1]
           x == R8At[k + 1]
           d == U3At[line + 1]
<1>1. /\ PrefixedFirst(line)[k + 1] = <<verb, x, "-">>
      /\ PrefixedBIT(line)[k + 1] = <<"BIT", d, x>>
      /\ PrefixedRES(line)[k + 1] = <<"RES", d, x>>
      /\ PrefixedSET(line)[k + 1] = <<"SET", d, x>>
  BY DEF PrefixedFirst, PrefixedBIT, PrefixedRES, PrefixedSET
<1>2. verb \in TurnVerbs /\ TurnAt(verb) = line
  BY TurnVerbAt
<1>3. REG(x) = k /\ Digit(d) = line
  BY RegisterAt, DigitIs
<1> HIDE DEF verb, x, d
<1>4. At("PREFIXED", 8 * line + k, PrefixedFirst(line)[k + 1])
  <2>1. CodeNamed(<<verb, x, "-">>) = 8 * line + k /\ KindNamed(<<verb, x, "-">>) = "PREFIXED"
    BY <1>2, <1>3, TurnCodes
  <2>2. <<verb, x, "-">> # None
    BY <1>2, NotNone DEF TurnVerbs
  <2>3. QED
    BY <1>1, <2>1, <2>2 DEF At
<1>5. ASSUME NEW v \in SpotVerbs
      PROVE  At("PREFIXED", SpotAt(v) + 8 * line + k, <<v, d, x>>)
  <2>1. CodeNamed(<<v, d, x>>) = SpotAt(v) + 8 * line + k /\ KindNamed(<<v, d, x>>) = "PREFIXED"
    BY <1>3, SpotCodes
  <2>2. <<v, d, x>> # None
    BY NotNone DEF SpotVerbs
  <2>3. QED
    BY <2>1, <2>2 DEF At
<1>6. /\ "BIT" \in SpotVerbs /\ "RES" \in SpotVerbs /\ "SET" \in SpotVerbs
      /\ SpotAt("BIT") = 64 /\ SpotAt("RES") = 128 /\ SpotAt("SET") = 192
  BY DEF SpotVerbs, SpotAt
<1>7. At("PREFIXED", 64 + 8 * line + k, <<"BIT", d, x>>)
  BY <1>5, <1>6
<1>8. At("PREFIXED", 128 + 8 * line + k, <<"RES", d, x>>)
  BY <1>5, <1>6
<1>9. At("PREFIXED", 192 + 8 * line + k, <<"SET", d, x>>)
  BY <1>5, <1>6
<1>10. QED
  BY <1>1, <1>4, <1>7, <1>8, <1>9

\* The lines of the first quadrant in pairs: an even line and the odd line after it.
LEMMA PairLines ==
  ASSUME NEW line \in 0 .. 7
  PROVE  /\ line \div 2 \in 0 .. 3
         /\ line % 2 = 0 => 8 * line = 16 * (line \div 2)
         /\ line % 2 # 0 => 8 * line = 16 * (line \div 2) + 8
OBVIOUS

\* The columns of the first quadrant.
LEMMA FirstColumnAt ==
  ASSUME NEW line \in 0 .. 7
  PROVE  At("DIRECT", 8 * line, DirectFirst(line)[1])
<1> DEFINE name == DirectFirst(line)[1]
<1>1. CASE line = 0
  <2>1. name = <<"NOP", "-", "-">>
    BY <1>1 DEF DirectFirst
  <2>2. "NOP" \in Alones /\ AloneAt("NOP") = 8 * line
    BY <1>1 DEF Alones, AloneAt
  <2>3. QED
    BY <2>1, <2>2, AloneCodes, AtDirect
<1>2. CASE line = 1
  <2>1. name = <<"LD", "N16R", "SP">>
    BY <1>2 DEF DirectFirst
  <2>2. LoadAt("N16R", "SP") = 8 * line
    BY <1>2, LoadsAt DEF PlaceAt, R8s
  <2>3. QED
    BY <2>1, <2>2, LoadCodes, AtDirect
<1>3. CASE line = 2
  <2>1. name = <<"STOP", "-", "-">>
    BY <1>3 DEF DirectFirst
  <2>2. "STOP" \in Alones /\ AloneAt("STOP") = 8 * line
    BY <1>3 DEF Alones, AloneAt
  <2>3. QED
    BY <2>1, <2>2, AloneCodes, AtDirect
<1>4. CASE line = 3
  <2>1. name = <<"JR", "E8", "-">>
    BY <1>4 DEF DirectFirst
  <2>2. JumpAt("JR", "E8") = 8 * line
    BY <1>4 DEF JumpAt, ConditionNames
  <2>3. QED
    BY <2>1, <2>2, JumpCodes, AtDirect
<1>5. CASE line >= 4
  <2> DEFINE c == Conditions[(line - 4) + 1]
  <2>1. name = <<"JR", c, "E8">>
    BY <1>5 DEF DirectFirst, Conditions
  <2>2. ConditionAt(c) = line - 4 /\ c \in ConditionNames
    BY <1>5, PairCodes
  <2> HIDE DEF c
  <2>3. JumpAt("JR", c) = 8 * line
    BY <2>2 DEF JumpAt
  <2>4. QED
    BY <2>1, <2>3, JumpCodes, AtDirect
<1>6. QED
  BY <1>1, <1>2, <1>3, <1>4, <1>5

LEMMA LoadPlacesAt ==
  ASSUME NEW line \in 0 .. 7
  PROVE  At("DIRECT", 8 * line + 2, DirectFirst(line)[3])
<1> DEFINE at == <<"BCR", "BCR", "DER", "DER", "HLRI", "HLRI", "HLRD", "HLRD">>[line + 1]
<1>1. DirectFirst(line)[3] = IF line % 2 = 0 THEN <<"LD", at, "A">> ELSE <<"LD", "A", at>>
  BY DEF DirectFirst
<1>2. at \notin R8s \cup {"HLR"} /\ at \notin {"N8", "N16"} /\ "A" \notin {"N8", "N16"}
  BY DEF R8s
<1>3. LoadAt(at, "A") = PlaceAt(at, "A") /\ LoadAt("A", at) = PlaceAt("A", at)
  <2> HIDE DEF at
  <2>1. QED
    BY <1>2, LoadsAt
<1>4. CASE line % 2 = 0
  <2>1. PlaceAt(at, "A") = 8 * line + 2
    BY <1>4 DEF PlaceAt
  <2> HIDE DEF at
  <2>2. QED
    BY <1>1, <1>3, <1>4, <2>1, LoadCodes, AtDirect
<1>5. CASE line % 2 # 0
  <2>1. PlaceAt("A", at) = 8 * line + 2
    BY <1>5 DEF PlaceAt
  <2> HIDE DEF at
  <2>2. QED
    BY <1>1, <1>3, <1>5, <2>1, LoadCodes, AtDirect
<1>6. QED
  BY <1>4, <1>5

LEMMA FirstPairsAt ==
  ASSUME NEW line \in 0 .. 7
  PROVE  /\ At("DIRECT", 8 * line + 1, DirectFirst(line)[2])
         /\ At("DIRECT", 8 * line + 3, DirectFirst(line)[4])
<1> DEFINE j == line \div 2
           p == R16SPAt[j + 1]
<1>1. /\ DirectFirst(line)[2] = IF line % 2 = 0 THEN <<"LD", p, "N16">> ELSE <<"ADD", "HL", p>>
      /\ DirectFirst(line)[4] = <<IF line % 2 = 0 THEN "INC" ELSE "DEC", p, "-">>
  BY DEF DirectFirst
<1>2. /\ j \in 0 .. 3
      /\ line % 2 = 0 => 8 * line = 16 * j
      /\ line % 2 # 0 => 8 * line = 16 * j + 8
  BY PairLines
<1> HIDE DEF j
<1>3. PairAt(p) = j
  BY <1>2, PairCodes
<1>4. p \in Wide16
  BY <1>2 DEF R16SPAt, Wide16
<1> HIDE DEF p
<1>5. CASE line % 2 = 0
  <2>1. LoadAt(p, "N16") = 8 * line + 1
    BY <1>2, <1>3, <1>5, LoadsAt
  <2>2. CountAt("INC", p) = 8 * line + 3
    BY <1>2, <1>3, <1>4, <1>5 DEF CountAt
  <2>3. DirectFirst(line)[2] = <<"LD", p, "N16">> /\ DirectFirst(line)[4] = <<"INC", p, "-">>
    BY <1>1, <1>5
  <2>4. At("DIRECT", 8 * line + 1, <<"LD", p, "N16">>)
    BY <2>1, LoadCodes, AtDirect
  <2>5. At("DIRECT", 8 * line + 3, <<"INC", p, "-">>)
    BY <2>2, CountCodes, AtDirect
  <2>6. QED
    BY <2>3, <2>4, <2>5
<1>6. CASE line % 2 # 0
  <2>1. CodeNamed(<<"ADD", "HL", p>>) = 8 * line + 1
    BY <1>2, <1>3, <1>6, PairSumCodes
  <2>2. CountAt("DEC", p) = 8 * line + 3
    BY <1>2, <1>3, <1>4, <1>6 DEF CountAt
  <2>3. DirectFirst(line)[2] = <<"ADD", "HL", p>> /\ DirectFirst(line)[4] = <<"DEC", p, "-">>
    BY <1>1, <1>6
  <2>4. At("DIRECT", 8 * line + 1, <<"ADD", "HL", p>>)
    BY <2>1, PairSumCodes, AtDirect
  <2>5. At("DIRECT", 8 * line + 3, <<"DEC", p, "-">>)
    BY <2>2, CountCodes, AtDirect
  <2>6. QED
    BY <2>3, <2>4, <2>5
<1>7. QED
  BY <1>5, <1>6

LEMMA FirstRegistersAt ==
  ASSUME NEW line \in 0 .. 7
  PROVE  /\ At("DIRECT", 8 * line + 4, DirectFirst(line)[5])
         /\ At("DIRECT", 8 * line + 5, DirectFirst(line)[6])
         /\ At("DIRECT", 8 * line + 6, DirectFirst(line)[7])
<1> DEFINE x == R8At[line + 1]
<1>1. /\ DirectFirst(line)[5] = <<"INC", x, "-">>
      /\ DirectFirst(line)[6] = <<"DEC", x, "-">>
      /\ DirectFirst(line)[7] = <<"LD", x, "N8">>
  BY DEF DirectFirst
<1>2. REG(x) = line /\ x \notin Wide16
  BY RegisterAt
<1> HIDE DEF x
<1>3. CountAt("INC", x) = 8 * line + 4 /\ CountAt("DEC", x) = 8 * line + 5
  BY <1>2 DEF CountAt
<1>4. LoadAt(x, "N8") = 8 * line + 6
  BY <1>2, LoadsAt
<1>5. At("DIRECT", 8 * line + 4, <<"INC", x, "-">>) /\ At("DIRECT", 8 * line + 5, <<"DEC", x, "-">>)
  BY <1>3, CountCodes, AtDirect
<1>6. At("DIRECT", 8 * line + 6, <<"LD", x, "N8">>)
  BY <1>4, LoadCodes, AtDirect
<1>7. QED
  BY <1>1, <1>5, <1>6

LEMMA DirectFirstAt ==
  ASSUME NEW line \in 0 .. 7, NEW k \in 0 .. 7
  PROVE  At("DIRECT", 8 * line + k, DirectFirst(line)[k + 1])
<1> DEFINE last == <<"RLCA", "RRCA", "RLA", "RRA", "DAA", "CPL", "SCF", "CCF">>[line + 1]
<1>1. DirectFirst(line)[8] = <<last, "-", "-">>
  BY DEF DirectFirst
<1>2. last \in Alones /\ AloneAt(last) = 8 * line + 7 /\ last # "UNKN"
  BY DEF Alones, AloneAt
<1> HIDE DEF last
<1>3. At("DIRECT", 8 * line + 7, DirectFirst(line)[8])
  BY <1>1, <1>2, AloneCodes, AtDirect
<1>4. CASE k = 0
  BY <1>4, FirstColumnAt
<1>5. CASE k = 2
  BY <1>5, LoadPlacesAt
<1>6. CASE k = 1 \/ k = 3
  BY <1>6, FirstPairsAt
<1>7. CASE k \in 4 .. 6
  BY <1>7, FirstRegistersAt
<1>8. CASE k = 7
  BY <1>3, <1>8
<1>9. QED
  BY <1>4, <1>5, <1>6, <1>7, <1>8

\* What the lines of the last quadrant begin with, and their third column.
LEMMA LastJumpsAt ==
  ASSUME NEW line \in 0 .. 7
  PROVE  /\ At("DIRECT", 192 + 8 * line, DirectLast(line)[1])
         /\ At("DIRECT", 194 + 8 * line, DirectLast(line)[3])
         /\ At("DIRECT", 196 + 8 * line, DirectLast(line)[5])
<1>1. CASE line < 4
  <2> DEFINE c == Conditions[line + 1]
  <2>1. line % 4 = line
    BY <1>1
  <2>2. /\ DirectLast(line)[1] = <<"RET", c, "-">>
        /\ DirectLast(line)[3] = <<"JP", c, "N16">>
        /\ DirectLast(line)[5] = <<"CALL", c, "N16">>
    BY <1>1, <2>1 DEF DirectLast
  <2>3. ConditionAt(c) = line /\ c \in ConditionNames
    BY <1>1, PairCodes
  <2> HIDE DEF c
  <2>4. /\ JumpAt("RET", c) = 192 + 8 * line /\ JumpAt("JP", c) = 194 + 8 * line
        /\ JumpAt("CALL", c) = 196 + 8 * line
    BY <2>3 DEF JumpAt
  <2>5. At("DIRECT", 192 + 8 * line, <<"RET", c, "-">>)
    BY <2>4, JumpCodes, AtDirect
  <2>6. At("DIRECT", 194 + 8 * line, <<"JP", c, "N16">>)
    BY <2>4, JumpCodes, AtDirect
  <2>7. At("DIRECT", 196 + 8 * line, <<"CALL", c, "N16">>)
    BY <2>4, JumpCodes, AtDirect
  <2>8. QED
    BY <2>2, <2>5, <2>6, <2>7
<1>2. CASE line >= 4
  <2>1. DirectLast(line)[5] = None /\ 196 + 8 * line \in Unwritten
    BY <1>2 DEF DirectLast, Unwritten
  <2>2. LoadAt("N8R", "A") = 224 /\ LoadAt("A", "N8R") = 240 /\ LoadAt("HL", "SP_N8") = 248
    BY LoadsAt DEF PlaceAt, R8s
  <2>3. LoadAt("CR", "A") = 226 /\ LoadAt("N16R", "A") = 234 /\ LoadAt("A", "CR") = 242 /\ LoadAt("A", "N16R") = 250
    BY LoadsAt DEF PlaceAt, R8s
  <2>4. /\ At("DIRECT", 224, <<"LD", "N8R", "A">>) /\ At("DIRECT", 240, <<"LD", "A", "N8R">>)
        /\ At("DIRECT", 248, <<"LD", "HL", "SP_N8">>)
    BY <2>2, LoadCodes, AtDirect
  <2>5. At("DIRECT", 232, <<"ADD", "SP", "N">>)
    BY DisplacedCodes, AtDirect
  <2>6. /\ At("DIRECT", 226, <<"LD", "CR", "A">>) /\ At("DIRECT", 234, <<"LD", "N16R", "A">>)
        /\ At("DIRECT", 242, <<"LD", "A", "CR">>) /\ At("DIRECT", 250, <<"LD", "A", "N16R">>)
    BY <2>3, LoadCodes, AtDirect
  <2>7. /\ DirectLast(line)[1] = <<<<"LD", "N8R", "A">>, <<"ADD", "SP", "N">>,
                                   <<"LD", "A", "N8R">>, <<"LD", "HL", "SP_N8">>>>[line - 3]
        /\ DirectLast(line)[3] = <<<<"LD", "CR", "A">>, <<"LD", "N16R", "A">>,
                                   <<"LD", "A", "CR">>, <<"LD", "A", "N16R">>>>[line - 3]
    BY <1>2 DEF DirectLast
  <2>8. At("DIRECT", 196 + 8 * line, DirectLast(line)[5])
    BY <2>1 DEF At
  <2>9. line = 4 \/ line = 5 \/ line = 6 \/ line = 7
    BY <1>2
  <2>10. QED
    BY <2>4, <2>5, <2>6, <2>7, <2>8, <2>9
<1>3. QED
  BY <1>1, <1>2

\* The columns of the last quadrant, with the twelve places where no row is.
LEMMA LastEndsAt ==
  ASSUME NEW line \in 0 .. 7
  PROVE  /\ At("DIRECT", 193 + 8 * line, DirectLast(line)[2])
         /\ At("DIRECT", 197 + 8 * line, DirectLast(line)[6])
<1> DEFINE j == line \div 2
           p == R16At[j + 1]
<1>1. /\ j \in 0 .. 3
      /\ line % 2 = 0 => 8 * line = 16 * j
      /\ line % 2 # 0 => 8 * line = 16 * j + 8
  BY PairLines
<1>2. CASE line % 2 = 0
  <2>1. DirectLast(line)[2] = <<"POP", p, "-">> /\ DirectLast(line)[6] = <<"PUSH", p, "-">>
    BY <1>2 DEF DirectLast
  <2> HIDE DEF j
  <2>2. PairAt(p) = j
    BY <1>1, PairCodes
  <2> HIDE DEF p
  <2>3. JumpAt("POP", p) = 193 + 8 * line /\ JumpAt("PUSH", p) = 197 + 8 * line
    BY <1>1, <1>2, <2>2 DEF JumpAt
  <2>4. At("DIRECT", 193 + 8 * line, <<"POP", p, "-">>) /\ At("DIRECT", 197 + 8 * line, <<"PUSH", p, "-">>)
    BY <2>3, JumpCodes, AtDirect
  <2>5. QED
    BY <2>1, <2>4
<1>3. CASE line % 2 # 0
  <2>1. line = 1 \/ line = 3 \/ line = 5 \/ line = 7
    BY <1>3
  <2>2. /\ DirectLast(line)[2] = <<<<"RET", "-", "-">>, <<"RETI", "-", "-">>,
                                   <<"JP", "HL", "-">>, <<"LD", "SP", "HL">>>>[j + 1]
        /\ DirectLast(line)[6] = IF line = 1 THEN <<"CALL", "N16", "-">> ELSE None
    BY <1>3 DEF DirectLast
  <2>3. /\ JumpAt("RET", "-") = 201 /\ JumpAt("JP", "HL") = 233 /\ JumpAt("CALL", "N16") = 205
        /\ LoadAt("SP", "HL") = 249
    BY LoadsAt DEF JumpAt, ConditionNames, PlaceAt, R8s
  <2>4. "RETI" \in Alones /\ AloneAt("RETI") = 217
    BY DEF Alones, AloneAt
  <2>5. At("DIRECT", 201, <<"RET", "-", "-">>) /\ At("DIRECT", 233, <<"JP", "HL", "-">>)
        /\ At("DIRECT", 205, <<"CALL", "N16", "-">>)
    BY <2>3, JumpCodes, AtDirect
  <2>6. At("DIRECT", 217, <<"RETI", "-", "-">>)
    BY <2>4, AloneCodes, AtDirect
  <2>7. At("DIRECT", 249, <<"LD", "SP", "HL">>)
    BY <2>3, LoadCodes, AtDirect
  <2>8. At("DIRECT", 221, None) /\ At("DIRECT", 237, None) /\ At("DIRECT", 253, None)
    BY DEF At, Unwritten
  <2>9. /\ line = 1 => j = 0
        /\ line = 3 => j = 1
        /\ line = 5 => j = 2
        /\ line = 7 => j = 3
    OBVIOUS
  <2> HIDE DEF j
  <2>10. CASE line = 1
    BY <2>2, <2>5, <2>9, <2>10
  <2>11. CASE line = 3
    BY <2>2, <2>6, <2>8, <2>9, <2>11
  <2>12. CASE line = 5
    BY <2>2, <2>5, <2>8, <2>9, <2>12
  <2>13. CASE line = 7
    BY <2>2, <2>7, <2>8, <2>9, <2>13
  <2>14. QED
    BY <2>1, <2>10, <2>11, <2>12, <2>13
<1>4. QED
  BY <1>2, <1>3

LEMMA LastFourthAt ==
  ASSUME NEW line \in 0 .. 7
  PROVE  At("DIRECT", 195 + 8 * line, DirectLast(line)[4])
<1>1. CASE line = 0
  <2>1. DirectLast(line)[4] = <<"JP", "N16", "-">> /\ 195 + 8 * line = 195
    BY <1>1 DEF DirectLast
  <2>2. JumpAt("JP", "N16") = 195
    BY DEF JumpAt, ConditionNames
  <2>3. QED
    BY <2>1, <2>2, JumpCodes, AtDirect
<1>2. CASE line \in 1 .. 5
  <2>1. DirectLast(line)[4] = None /\ 195 + 8 * line \in Unwritten
    BY <1>2 DEF DirectLast, Unwritten
  <2>2. QED
    BY <2>1 DEF At
<1>3. CASE line = 6
  <2>1. DirectLast(line)[4] = <<"DI", "-", "-">> /\ 195 + 8 * line = 243
    BY <1>3 DEF DirectLast
  <2>2. "DI" \in Alones /\ AloneAt("DI") = 243
    BY DEF Alones, AloneAt
  <2>3. QED
    BY <2>1, <2>2, AloneCodes, AtDirect
<1>4. CASE line = 7
  <2>1. DirectLast(line)[4] = <<"EI", "-", "-">> /\ 195 + 8 * line = 251
    BY <1>4 DEF DirectLast
  <2>2. "EI" \in Alones /\ AloneAt("EI") = 251
    BY DEF Alones, AloneAt
  <2>3. QED
    BY <2>1, <2>2, AloneCodes, AtDirect
<1>5. QED
  BY <1>1, <1>2, <1>3, <1>4

LEMMA DirectLastAt ==
  ASSUME NEW line \in 0 .. 7, NEW k \in 0 .. 7
  PROVE  At("DIRECT", 192 + 8 * line + k, DirectLast(line)[k + 1])
<1> DEFINE verb == <<"ADD", "ADC", "SUB", "SBC", "AND", "XOR", "OR", "CP">>[line + 1]
           d == U3At[line + 1]
<1>1. DirectLast(line)[7] = <<verb, "A", "N8">> /\ DirectLast(line)[8] = <<"RST", d, "-">>
  BY DEF DirectLast
<1>2. verb \in SumVerbs /\ SumAt(verb) = 16 + line
  BY SumVerbAt
<1>3. Digit(d) = line
  BY DigitIs
<1> HIDE DEF verb, d
<1>4. verb # "UNKN"
  BY <1>2 DEF SumVerbs
<1>5. At("DIRECT", 198 + 8 * line, <<verb, "A", "N8">>)
  <2>1. CodeNamed(<<verb, "A", "N8">>) = 198 + 8 * line /\ KindNamed(<<verb, "A", "N8">>) = "DIRECT"
    BY <1>2, SumCodes
  <2>2. QED
    BY <1>4, <2>1, AtDirect
<1>6. At("DIRECT", 199 + 8 * line, <<"RST", d, "-">>)
  <2>1. JumpAt("RST", d) = 199 + 8 * line
    BY <1>3 DEF JumpAt
  <2>2. QED
    BY <2>1, JumpCodes, AtDirect
<1>7. CASE k \in {0, 2, 4}
  BY <1>7, LastJumpsAt
<1>8. CASE k \in {1, 5}
  BY <1>8, LastEndsAt
<1>9. CASE k = 3
  BY <1>9, LastFourthAt
<1>10. CASE k \in {6, 7}
  BY <1>1, <1>5, <1>6, <1>10
<1>11. QED
  BY <1>7, <1>8, <1>9, <1>10

\* Every name of either table stands at its code.
LEMMA EveryNameAt ==
  ASSUME NEW i \in Int, 0 <= i, i < 256
  PROVE  At("DIRECT", i, DirectName(i)) /\ At("PREFIXED", i, PrefixedName(i))
<1> DEFINE line == Line(i)
           k == i % 8
<1>1. line \in 0 .. 7 /\ k \in 0 .. 7 /\ Place(i) = k + 1
  BY DEF Line, Place
<1>2. CASE i < 64
  <2>1. i = 8 * line + k
    BY <1>2 DEF Line
  <2>2. DirectName(i) = DirectFirst(line)[k + 1] /\ PrefixedName(i) = PrefixedFirst(line)[k + 1]
    BY <1>1, <1>2 DEF DirectName, PrefixedName
  <2> HIDE DEF line, k
  <2>3. At("DIRECT", 8 * line + k, DirectFirst(line)[k + 1])
    BY <1>1, DirectFirstAt
  <2>4. At("PREFIXED", 8 * line + k, PrefixedFirst(line)[k + 1])
    BY <1>1, PrefixedAt
  <2>5. QED
    BY <2>1, <2>2, <2>3, <2>4
<1>3. CASE i >= 64 /\ i < 128
  <2>1. i = 64 + 8 * line + k
    BY <1>3 DEF Line
  <2>2. DirectName(i) = DirectLoads(line)[k + 1] /\ PrefixedName(i) = PrefixedBIT(line)[k + 1]
    BY <1>1, <1>3 DEF DirectName, PrefixedName
  <2> HIDE DEF line, k
  <2>3. At("DIRECT", 64 + 8 * line + k, DirectLoads(line)[k + 1])
    BY <1>1, DirectLoadsAt
  <2>4. At("PREFIXED", 64 + 8 * line + k, PrefixedBIT(line)[k + 1])
    BY <1>1, PrefixedAt
  <2>5. QED
    BY <2>1, <2>2, <2>3, <2>4
<1>4. CASE i >= 128 /\ i < 192
  <2>1. i = 128 + 8 * line + k
    BY <1>4 DEF Line
  <2>2. DirectName(i) = DirectAlu(line)[k + 1] /\ PrefixedName(i) = PrefixedRES(line)[k + 1]
    BY <1>1, <1>4 DEF DirectName, PrefixedName
  <2> HIDE DEF line, k
  <2>3. At("DIRECT", 128 + 8 * line + k, DirectAlu(line)[k + 1])
    BY <1>1, DirectAluAt
  <2>4. At("PREFIXED", 128 + 8 * line + k, PrefixedRES(line)[k + 1])
    BY <1>1, PrefixedAt
  <2>5. QED
    BY <2>1, <2>2, <2>3, <2>4
<1>5. CASE i >= 192
  <2>1. i = 192 + 8 * line + k
    BY <1>5 DEF Line
  <2>2. DirectName(i) = DirectLast(line)[k + 1] /\ PrefixedName(i) = PrefixedSET(line)[k + 1]
    BY <1>1, <1>5 DEF DirectName, PrefixedName
  <2> HIDE DEF line, k
  <2>3. At("DIRECT", 192 + 8 * line + k, DirectLast(line)[k + 1])
    BY <1>1, DirectLastAt
  <2>4. At("PREFIXED", 192 + 8 * line + k, PrefixedSET(line)[k + 1])
    BY <1>1, PrefixedAt
  <2>5. QED
    BY <2>1, <2>2, <2>3, <2>4
<1>6. QED
  BY <1>2, <1>3, <1>4, <1>5

-------------------------------------------------------------------------------
(* What the tables hold, and what a step of the machine does *)

\* No row shares the name None with OP_UNKOWN, and only the rows of the bit operations are prefixed.
LEMMA NoneIs ==
  ASSUME FullWidth, NEW row \in Rows, row.name = None
  PROVE  row = OP_UNKOWN
BY RowsRight DEF Right, Sits

\* The row for no instruction.
LEMMA UnknownIs == OP_UNKOWN.name = None /\ OP_UNKOWN.kind = "DIRECT" /\ OP_UNKOWN.family[1] = "UNKN"
BY DEF OP_UNKOWN, None, INSTR_DEF, INSTR_DFX

\* The entry of a table at i: the row that carries i, or OP_UNKOWN where there is none.
Entry(kind, i, row) ==
  \/ row = OP_UNKOWN /\ kind = "DIRECT" /\ i \in Unwritten
  \/ /\ row \in Rows /\ row # OP_UNKOWN /\ Right(row)
     /\ row.kind = kind /\ row.opcode = i

\* The row of a name that stands at its code is at its opcode, and right.
LEMMA EntryNamed ==
  ASSUME FullWidth, NEW kind, NEW i, NEW name, Titled(name), At(kind, i, name)
  PROVE  Entry(kind, i, RowNamed(name))
<1> DEFINE row == RowNamed(name)
<1>1. row \in Rows /\ row.name = name
  BY DEF Titled, RowNamed
<1> HIDE DEF row
<1>2. CASE name = None
  <2>1. row = OP_UNKOWN
    BY <1>1, <1>2, NoneIs
  <2>2. QED
    BY <1>2, <2>1 DEF At, Entry, row
<1>3. CASE name # None
  <2>1. row # OP_UNKOWN
    BY <1>1, <1>3, UnknownIs
  <2>2. Right(row)
    BY <1>1, <2>1, RowsRight
  <2>3. row.kind = KindNamed(name) /\ row.opcode = CodeNamed(name)
    BY <1>1, <2>2 DEF Right, Sits
  <2>4. QED
    BY <1>1, <1>3, <2>1, <2>2, <2>3 DEF At, Entry, row
<1>4. QED
  BY <1>2, <1>3

\* All 512 entries.
LEMMA TablesHold ==
  ASSUME FullWidth, NEW i \in Int, 0 <= i, i < 256
  PROVE  Entry("DIRECT", i, instruction_direct[i]) /\ Entry("PREFIXED", i, instruction_prefixed[i])
<1>1. Entry("DIRECT", i, RowNamed(DirectName(i)))
  BY EveryNameNamed, EveryNameAt, EntryNamed
<1>2. Entry("PREFIXED", i, RowNamed(PrefixedName(i)))
  BY EveryNameNamed, EveryNameAt, EntryNamed
<1>3. instruction_direct[i] = RowNamed(DirectName(i)) /\ instruction_prefixed[i] = RowNamed(PrefixedName(i))
  BY DEF instruction_direct, instruction_prefixed
<1>4. QED
  BY <1>1, <1>2, <1>3

\* The row fetched is one that is named, or there is none and it is OP_UNKOWN.
LEMMA FetchedNamed ==
  ASSUME FullWidth, NEW s \in Running
  PROVE  \/ Fetched(s) \in Named(s) /\ Right(Fetched(s))
         \/ Fetched(s) = OP_UNKOWN /\ Named(s) = {}
<1> DEFINE opcode == cpu_read_at_idx(s, s.PC)
           extended == cpu_read_data_after_opcode(s)
<1>1. opcode \in U8 /\ extended \in U8
  BY Reads, Follows
<1>2. extended = Following(s)
  BY Sizes DEF cpu_read_data_after_opcode, Following
<1>3. Fetched(s) = IF opcode = 203 THEN instruction_prefixed[extended] ELSE instruction_direct[opcode]
  BY DEF Fetched
<1>4. Named(s) = {row \in Rows \ {OP_UNKOWN} :
                    IF opcode = 203 THEN row.kind = "PREFIXED" /\ row.opcode = extended
                    ELSE row.kind = "DIRECT" /\ row.opcode = opcode}
  BY <1>2 DEF Named
<1> HIDE DEF opcode, extended
<1>5. /\ Entry("DIRECT", opcode, instruction_direct[opcode])
      /\ Entry("PREFIXED", extended, instruction_prefixed[extended])
  BY <1>1, InByte, TablesHold
<1>6. CASE opcode = 203
  BY <1>3, <1>4, <1>5, <1>6 DEF Entry
<1>7. CASE opcode # 203 /\ opcode \in Unwritten /\ Fetched(s) = OP_UNKOWN
  <2>1. ASSUME NEW row \in Rows, row # OP_UNKOWN
        PROVE  ~(row.kind = "DIRECT" /\ row.opcode = opcode)
    BY <1>7, <2>1, RowsRight DEF Right, Sits
  <2>2. QED
    BY <1>4, <1>7, <2>1
<1>8. CASE opcode # 203 /\ ~(opcode \in Unwritten /\ Fetched(s) = OP_UNKOWN)
  BY <1>3, <1>4, <1>5, <1>8 DEF Entry
<1>9. QED
  BY <1>6, <1>7, <1>8

\* A byte that no row carries: an error, and nothing else.
LEMMA UnknownFails ==
  ASSUME NEW s \in Running
  PROVE  cpu_dispatch(s, OP_UNKOWN) = Fail(s, "ERR_INSTR") /\ Fail(s, "ERR_INSTR").F = s.F
<1>1. /\ OP_UNKOWN.family[1] = "UNKN"
      /\ "UNKN" \notin ConditionalFamilies \cup AluFamilies \cup StorageFamilies
  BY UnknownIs DEF ConditionalFamilies, AluFamilies, StorageFamilies
<1>2. Executed(s, OP_UNKOWN) = Fail(s, "ERR_INSTR")
  BY <1>1 DEF Executed
<1>3. ~Fine(Fail(s, "ERR_INSTR"))
  BY Failing
<1>4. s \in Machines
  BY DEF Running
<1>5. Fail(s, "ERR_INSTR").F = s.F
  BY <1>4 DEF Fail, Machines
<1>6. QED
  BY <1>1, <1>2, <1>3, <1>5 DEF cpu_dispatch

\* One step: what is executed is what the name says.
LEMMA StepAsNamed ==
  ASSUME FullWidth, NEW s \in Tidy
  PROVE  /\ \/ \E row \in Named(s) : cpu_dispatch(s, Fetched(s)) = Meaning(s, row)
            \/ Named(s) = {} /\ cpu_dispatch(s, Fetched(s)) = Fail(s, "ERR_INSTR")
         /\ cpu_dispatch(s, Fetched(s)).F.low = 0
<1>1. s \in Running /\ s.F.low = 0
  BY DEF Tidy
<1>2. CASE Fetched(s) \in Named(s) /\ Right(Fetched(s))
  <2>1. Agrees(s, Fetched(s))
    BY <1>2 DEF Right
  <2>2. cpu_dispatch(s, Fetched(s)) = Meaning(s, Fetched(s)) /\ cpu_dispatch(s, Fetched(s)).F.low = 0
    BY <2>1 DEF Agrees
  <2>3. QED
    BY <1>2, <2>2
<1>3. CASE Fetched(s) = OP_UNKOWN /\ Named(s) = {}
  BY <1>1, <1>3, UnknownFails
<1>4. QED
  BY <1>1, <1>2, <1>3, FetchedNamed

\* A machine that runs has a clear low nibble of F.
TidyOnes == MachineTypeOK /\ (Fine(m) => m.F.low = 0)

\* The low nibble of F stays clear, and while it is, every step is as named.
LEMMA TidyInductive ==
  ASSUME Setting, Initialised
  PROVE  /\ MachineInit => TidyOnes
         /\ TidyOnes /\ [MachineNext]_machineVars => TidyOnes' /\ [AsNamed]_machineVars
<1>1. FullWidth
  BY DEF Setting, FullWidth
<1>2. MachineInit => TidyOnes
  BY TypeInductive DEF MachineInit, Initialised, TidyOnes
<1>3. ASSUME TidyOnes, cpu_do_cycle
      PROVE  AsNamed /\ m'.F.low = 0
  <2>1. m \in Tidy
    BY <1>1, <1>3, StepOutcome DEF TidyOnes, MachineTypeOK, cpu_do_cycle, Tidy
  <2>2. /\ Fine(m) /\ executed < Depth /\ executed' = executed + 1
        /\ m' = cpu_dispatch(m, Fetched(m))
    BY <1>3 DEF cpu_do_cycle
  <2>3. /\ \/ \E row \in Named(m) : m' = Meaning(m, row)
           \/ Named(m) = {} /\ m' = Fail(m, "ERR_INSTR")
        /\ m'.F.low = 0
    BY <1>1, <2>1, <2>2, StepAsNamed
  <2>4. QED
    BY <2>2, <2>3 DEF AsNamed
<1>4. ASSUME TidyOnes, MachineNext
      PROVE  TidyOnes' /\ AsNamed
  <2>1. MachineTypeOK'
    BY <1>4, TypeInductive DEF TidyOnes
  <2>2. AsNamed /\ m'.F.low = 0
    BY <1>3, <1>4 DEF MachineNext
  <2>3. QED
    BY <2>1, <2>2 DEF TidyOnes
<1>5. ASSUME TidyOnes, UNCHANGED machineVars
      PROVE  TidyOnes'
  <2>1. MachineTypeOK'
    BY <1>5, TypeInductive DEF TidyOnes
  <2>2. m' = m
    BY <1>5 DEF machineVars
  <2>3. QED
    BY <1>5, <2>1, <2>2 DEF TidyOnes, Fine
<1>6. QED
  BY <1>2, <1>4, <1>5

-------------------------------------------------------------------------------
(* Theorems *)

\* Every sequence of instructions, from every machine and with every memory, leaves
\* bytes in the registers and words in SP, in PC and in the addresses that are written:
\* no result of cpu-alu.c, no step of HL or SP and no jump leaves its width.
THEOREM MachineStaysAMachine == ASSUME Setting PROVE MachineSpec => []MachineTypeOK
BY TypeInductive, PTL DEF MachineSpec

\* On every machine, an instruction that returns an error has changed nothing but the
\* error: cpu_dispatch is all or nothing (cpu-storage.c, cpu-alu.c, cpu.c).
THEOREM FailuresChangeNothing == ASSUME Setting PROVE MachineSpec => FailureChangesNothing
<1>1. MachineSpec => []MachineTypeOK
  BY MachineStaysAMachine
<1>2. MachineTypeOK /\ [MachineNext]_machineVars => [~Fine(m') => m' = Fail(m, m'.err)]_machineVars
  BY StepFails
<1>3. QED
  BY <1>1, <1>2, PTL DEF MachineSpec, FailureChangesNothing

\* Every entry of the two tables of opcode.c is where its opcode says, in the table of its
\* kind: opcode_check_integrity accepts them, as test-cpu-week08.c and test-cpu-week09.c ask first.
THEOREM TablesAreSound == FullWidth => opcode_check_integrity
<1>1. ASSUME FullWidth, NEW i \in 0 .. 255
      PROVE  /\ instruction_direct[i].kind = "DIRECT"
             /\ instruction_direct[i].family[1] # "UNKN" => instruction_direct[i].opcode = i
             /\ instruction_prefixed[i].kind = "PREFIXED"
             /\ instruction_prefixed[i].family[1] # "UNKN" => instruction_prefixed[i].opcode = i
  <2>1. Entry("DIRECT", i, instruction_direct[i]) /\ Entry("PREFIXED", i, instruction_prefixed[i])
    BY <1>1, TablesHold
  <2>2. QED
    BY <2>1, UnknownIs DEF Entry
<1>2. QED
  BY <1>1 DEF opcode_check_integrity, Sound

\* The machine of the emulator does what the names of opcode.h say: from every machine whose
\* F has a clear low nibble, with every memory and over every sequence of instructions, each
\* step is a step of the machine that knows the names alone.  The tables, the families, the
\* operands cut out of opcodes, the lengths, the cycles and the conditions all agree.
THEOREM MachineDoesAsNamed == ASSUME Setting, Initialised PROVE MachineSpec => ExecutesAsNamed
<1>1. /\ MachineInit => TidyOnes
      /\ TidyOnes /\ [MachineNext]_machineVars => TidyOnes' /\ [AsNamed]_machineVars
  BY TidyInductive
<1>2. QED
  BY <1>1, PTL DEF MachineSpec, ExecutesAsNamed
===============================================================================
