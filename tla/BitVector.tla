----------------------------- MODULE BitVector -----------------------------
(***************************************************************************)
(* The bit vectors of bit_vector.c, of which the lines of a picture are    *)
(* made, in a program that holds some of them and replaces one at a time   *)
(* by the result of an operation.  A vector is its size and its chunks; a  *)
(* chunk, a 32-bit word in the code, is the set of positions that hold a   *)
(* one.  Operations work chunk by chunk, and the bits of the last chunk    *)
(* beyond the size are masked off.                                         *)
(*                                                                         *)
(* A refused call (sizes that differ, a place out of range) returns NULL   *)
(* and leaves its arguments alone; failing allocations are left out.       *)
(***************************************************************************)
EXTENDS Integers

CONSTANTS
    CHUNK_SIZE,     \* bits of a chunk, 32 in the code
    SIZES,          \* sizes of the vectors
    INDEXES,        \* indexes of extractions and distances of shifts
    SizeLimit,      \* numbers of type size_t are taken modulo this power of two
    Vectors         \* names of the vectors the program holds
ASSUME BitVectorAssumption ==
    /\ CHUNK_SIZE \in Nat \ {0} /\ SizeLimit \in Nat \ {0}
    /\ SIZES \subseteq Nat \ {0} /\ INDEXES \subseteq Int

\* No index of a bit asked for is beyond the numbers of type size_t.
ASSUME IndexesFit == \A index \in INDEXES, size \in SIZES : index + size <= SizeLimit

VARIABLE vec    \* the program's vectors

Positions == 0 .. CHUNK_SIZE - 1
NULL == [size |-> 0]

-----------------------------------------------------------------------------
(* Words: the operators of C on chunks *)

shl(c, k) == {p \in Positions : p - k \in c}
shr(c, k) == {p \in Positions : p + k \in c}
as_size_t(n) == n % SizeLimit

-----------------------------------------------------------------------------
(* bit_vector.c *)

get_chunk_count(size) ==
    IF size % CHUNK_SIZE # 0 THEN size \div CHUNK_SIZE + 1 ELSE size \div CHUNK_SIZE
Chunks(size) == 0 .. get_chunk_count(size) - 1
last_chunk_mask(size) ==
    IF size % CHUNK_SIZE = 0 THEN Positions ELSE 0 .. (size % CHUNK_SIZE) - 1

\* A vector whose chunks are given, the last one masked.
Masked(size, chunk(_)) ==
    [size |-> size,
     content |-> [i \in Chunks(size) |->
                    IF i = get_chunk_count(size) - 1
                    THEN chunk(i) \cap last_chunk_mask(size)
                    ELSE chunk(i)]]

bit_vector_create(size, value) ==
    LET filled(i) == IF value = 1 THEN Positions ELSE {} IN Masked(size, filled)

bit_vector_get(v, index) ==
    IF index < v.size /\ index % CHUNK_SIZE \in v.content[index \div CHUNK_SIZE]
    THEN 1 ELSE 0

\* Mutant: the last chunk is complemented like the others.
NotUnmasked(v) == [v EXCEPT !.content = [i \in DOMAIN @ |-> Positions \ @[i]]]
bit_vector_not(v) ==
    LET flipped(i) == Positions \ v.content[i] IN Masked(v.size, flipped)

Chunkwise(v1, v2, op(_, _)) ==
    IF v1.size # v2.size THEN NULL
    ELSE [v1 EXCEPT !.content = [i \in DOMAIN @ |-> op(@[i], v2.content[i])]]
bit_vector_and(v1, v2) == LET op(c, d) == c \cap d IN Chunkwise(v1, v2, op)
bit_vector_or(v1, v2)  == LET op(c, d) == c \cup d IN Chunkwise(v1, v2, op)
bit_vector_xor(v1, v2) ==
    LET op(c, d) == (c \ d) \cup (d \ c) IN Chunkwise(v1, v2, op)

\* With wrapping the bits are fetched one by one.  The remainder by the size
\* is one of unsigned numbers.
bit_vector_get_chunk(v, chunk, wrap) ==
    IF wrap
    THEN {p \in Positions :
            bit_vector_get(v, as_size_t(CHUNK_SIZE * chunk + p) % v.size) = 1}
    ELSE IF chunk \in Chunks(v.size) THEN v.content[chunk] ELSE {}

\* Mutant: the chunk of an index is its quotient, which C rounds towards zero.
ExtractTruncating(v, index, wrap) ==
    LET chunk == IF index < 0 THEN -((-index) \div CHUNK_SIZE) ELSE index \div CHUNK_SIZE
        k     == index % CHUNK_SIZE
    IN  IF k = 0 THEN bit_vector_get_chunk(v, chunk, wrap)
        ELSE shl(bit_vector_get_chunk(v, chunk + 1, wrap), CHUNK_SIZE - k)
             \cup shr(bit_vector_get_chunk(v, chunk, wrap), k)
\* The chunk that starts anywhere is put together from two.  \div and % round
\* down, as the shift and the corrected remainder of the code do.
bit_vector_extract_chunk(v, index, wrap) ==
    LET chunk       == index \div CHUNK_SIZE
        chunk_index == index % CHUNK_SIZE
    IN  IF chunk_index = 0 THEN bit_vector_get_chunk(v, chunk, wrap)
        ELSE shl(bit_vector_get_chunk(v, chunk + 1, wrap), CHUNK_SIZE - chunk_index)
             \cup shr(bit_vector_get_chunk(v, chunk, wrap), chunk_index)

bit_vector_extract(v, index, size, wrap) ==
    LET moved(i) == bit_vector_extract_chunk(v, index + CHUNK_SIZE * i, wrap)
    IN  Masked(size, moved)
bit_vector_extract_zero_ext(v, index, size) == bit_vector_extract(v, index, size, FALSE)
bit_vector_extract_wrap_ext(v, index, size) == bit_vector_extract(v, index, size, TRUE)
bit_vector_shift(v, shift) == bit_vector_extract_zero_ext(v, -shift, v.size)

bit_vector_join(v1, v2, shift) ==
    IF v1.size # v2.size \/ shift < 0 \/ shift > v1.size THEN NULL
    ELSE LET ones  == bit_vector_create(v1.size, 1)
             mask1 == bit_vector_shift(ones, shift - v1.size)
             mask2 == bit_vector_shift(ones, shift)
         IN  bit_vector_or(bit_vector_and(mask1, v1), bit_vector_and(mask2, v2))

-----------------------------------------------------------------------------
(* The program that uses them *)

Init == \E sizes \in [Vectors -> SIZES] :
            vec = [n \in Vectors |-> bit_vector_create(sizes[n], 0)]

\* The result takes the place of a vector, unless the call was refused.
Replace(t, v) == v # NULL /\ vec' = [vec EXCEPT ![t] = v]

Create(t, size, value) == Replace(t, bit_vector_create(size, value))
Negate(t) == Replace(t, bit_vector_not(vec[t]))
Combine(t, n) ==
    \/ Replace(t, bit_vector_and(vec[t], vec[n]))
    \/ Replace(t, bit_vector_or(vec[t], vec[n]))
    \/ Replace(t, bit_vector_xor(vec[t], vec[n]))
Extract(t, n, index, size) ==
    \/ Replace(t, bit_vector_extract_zero_ext(vec[n], index, size))
    \/ Replace(t, bit_vector_extract_wrap_ext(vec[n], index, size))
Shift(t, n, shift) == Replace(t, bit_vector_shift(vec[n], shift))
Join(t, n, shift) == Replace(t, bit_vector_join(vec[t], vec[n], shift))

Next ==
    \E t \in Vectors :
      \/ \E size \in SIZES, value \in 0 .. 1 : Create(t, size, value)
      \/ Negate(t)
      \/ \E n \in Vectors :
           \/ Combine(t, n)
           \/ \E index \in INDEXES, size \in SIZES : Extract(t, n, index, size)
           \/ \E shift \in INDEXES : Shift(t, n, shift) \/ Join(t, n, shift)

Spec == Init /\ [][Next]_vec

-----------------------------------------------------------------------------
(* Type invariant.  A chunk holds no ones beyond the size of its vector:
   extractions read whole chunks and would bring such ones into view. *)
TypeOK ==
    \A n \in DOMAIN vec :
      /\ n \in Vectors
      /\ vec[n].size \in SIZES
      /\ DOMAIN vec[n].content = Chunks(vec[n].size)
      /\ \A i \in Chunks(vec[n].size) :
            vec[n].content[i] \subseteq
              {p \in Positions : CHUNK_SIZE * i + p < vec[n].size}

(* A vector as the program reads it, bit by bit. *)
Seen(v) == [size |-> v.size,
            ones |-> {i \in 0 .. v.size - 1 : bit_vector_get(v, i) = 1}]
Bits == INSTANCE BitString

(* An extraction wraps as promised from an index that is not negative, or when
   the size divides the range of size_t.  The remainder of a negative index is
   otherwise one of a huge number, at another phase.  Lines that wrap have 256
   bits in the program, a power of two. *)
WrapsAt(index, size) == index >= 0 \/ SizeLimit % size = 0

(* Whatever vectors the program has come to, every operation on them does to
   each bit what its header promises: chunks, masks, shifts over chunk
   boundaries, negative indexes and wrapping never show. *)
OperationsAreBitwise ==
    \A n \in DOMAIN vec :
      LET v == vec[n]  a == Seen(v) IN
      /\ Seen(bit_vector_not(v)) = Bits!Not(a)
      /\ \A index \in INDEXES, size \in SIZES :
           /\ Seen(bit_vector_extract_zero_ext(v, index, size)) = Bits!Extract(a, index, size)
           /\ WrapsAt(index, v.size) =>
                Seen(bit_vector_extract_wrap_ext(v, index, size)) =
                  Bits!ExtractWrapping(a, index, size)
      /\ \A shift \in INDEXES : Seen(bit_vector_shift(v, shift)) = Bits!Shift(a, shift)
      /\ \A value \in 0 .. 1 :
           Seen(bit_vector_create(v.size, value)) = Bits!Filled(v.size, value)
      /\ \A m \in {k \in DOMAIN vec : vec[k].size = v.size} :
           LET w == vec[m]  b == Seen(w) IN
           /\ Seen(bit_vector_and(v, w)) = Bits!And(a, b)
           /\ Seen(bit_vector_or(v, w)) = Bits!Or(a, b)
           /\ Seen(bit_vector_xor(v, w)) = Bits!Xor(a, b)
           /\ \A place \in 0 .. v.size :
                Seen(bit_vector_join(v, w, place)) = Bits!Join(a, b, place)
=============================================================================
