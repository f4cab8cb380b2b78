---------------------------- MODULE BitVectorProofs ----------------------------
(***************************************************************************)
(* Proofs about BitVector, for chunks and vectors of every size.           *)
(* Whatever operations made a vector, its last chunk holds no ones beyond  *)
(* its size: each operation masks its result, or combines chunks that were *)
(* masked.  And no operation shows that there are chunks: the ones of its  *)
(* result, counted from the start of the vector, are those that BitString  *)
(* promises.                                                               *)
(*                                                                         *)
(* Then about Image, which is built on such vectors, for lines, images and *)
(* palettes of every size and any allocations that fail: each function is  *)
(* honest about the picture it promises (Honest), so each call is a step   *)
(* of Picture or changes nothing that shows.                               *)
(***************************************************************************)
EXTENDS BitVector, Image, FiniteSetTheorems, TLAPS

\* The chunks that a vector of s bits may hold.
Contents(s) ==
  {c \in [Chunks(s) -> SUBSET Positions] :
     \A i \in Chunks(s) : \A p \in c[i] : CHUNK_SIZE * i + p < s}
Vector == UNION {[size : {s}, content : Contents(s)] : s \in SIZES}
IInv == vec \in [Vectors -> Vector]

-------------------------------------------------------------------------------
(* Sizes and chunks *)

\* Division with remainder.
LEMMA Euclid ==
  ASSUME NEW n \in Nat, NEW d \in Nat \ {0}
  PROVE  /\ n \div d \in Nat /\ n % d \in 0..(d - 1)
         /\ n = d * (n \div d) + (n % d)
  BY SMT

\* A chunk that ends before chunk q begins at most d * q - d.
LEMMA ChunkBefore ==
  ASSUME NEW d \in Nat \ {0}, NEW i \in Nat, NEW q \in Nat, i < q, NEW p \in 0..(d - 1)
  PROVE  d * i + p < d * q
<1>1. PICK k \in Nat : q = i + 1 + k
  <2>1. q - i - 1 \in Nat /\ q = i + 1 + (q - i - 1)
    OBVIOUS
  <2>2. QED
    BY <2>1
<1>2. d * q = d * i + d + d * k
  BY <1>1, SMT
<1>3. d * k \in Nat /\ d * i \in Nat
  BY SMT
<1>4. QED
  BY <1>2, <1>3

\* Masked, the last chunk ends with the vector, and the others end before it.
LEMMA MaskFits ==
  ASSUME NEW s \in Nat \ {0}, CHUNK_SIZE \in Nat \ {0}, NEW i \in Chunks(s), NEW p \in Positions,
         i = get_chunk_count(s) - 1 => p \in last_chunk_mask(s)
  PROVE  CHUNK_SIZE * i + p < s
<1> DEFINE q == s \div CHUNK_SIZE
           r == s % CHUNK_SIZE
<1>1. q \in Nat /\ r \in 0..(CHUNK_SIZE - 1) /\ s = CHUNK_SIZE * q + r
  BY Euclid
<1>2. get_chunk_count(s) = IF r # 0 THEN q + 1 ELSE q
  BY DEF get_chunk_count
<1>3. i \in 0..(get_chunk_count(s) - 1) /\ p \in 0..(CHUNK_SIZE - 1)
  BY DEF Chunks, Positions
<1>m. last_chunk_mask(s) = IF r = 0 THEN Positions ELSE 0..(r - 1)
  BY DEF last_chunk_mask
<1>q. CHUNK_SIZE * q \in Nat
  BY <1>1, SMT
<1> HIDE DEF q, r
<1>4. CASE i < q
  <2>1. i \in Nat
    BY <1>1, <1>2, <1>3
  <2>2. CHUNK_SIZE * i + p < CHUNK_SIZE * q
    BY <2>1, <1>4, <1>3, <1>1, ChunkBefore
  <2>3. CHUNK_SIZE * i \in Nat
    BY <2>1, SMT
  <2>4. QED
    BY <2>2, <2>3, <1>1, <1>3, <1>q
<1>5. CASE ~(i < q)
  <2>1. i = q /\ r # 0 /\ i = get_chunk_count(s) - 1
    BY <1>5, <1>1, <1>2, <1>3
  <2>2. p \in 0..(r - 1)
    BY <2>1, <1>m
  <2>3. QED
    BY <2>1, <2>2, <1>1, <1>q
<1>6. QED
  BY <1>4, <1>5

-------------------------------------------------------------------------------
(* Vectors *)

LEMMA VectorHas ==
  ASSUME NEW v \in Vector
  PROVE  /\ v.size \in SIZES /\ v.content \in [Chunks(v.size) -> SUBSET Positions]
         /\ v.content \in Contents(v.size)
         /\ v = [size |-> v.size, content |-> v.content]
<1>1. PICK s \in SIZES : v \in [size : {s}, content : Contents(s)]
  BY DEF Vector
<1>2. v.size = s /\ v.content \in Contents(s) /\ v = [size |-> v.size, content |-> v.content]
  BY <1>1
<1>3. QED
  BY <1>2 DEF Contents

\* Whatever is in the chunks, with the last one masked it is a vector.
LEMMA MaskedIsVector ==
  ASSUME NEW s \in SIZES, NEW f \in [Chunks(s) -> SUBSET Positions]
  PROVE  [size |-> s,
          content |-> [i \in Chunks(s) |-> IF i = get_chunk_count(s) - 1
                                           THEN f[i] \cap last_chunk_mask(s) ELSE f[i]]] \in Vector
<1> DEFINE c == [i \in Chunks(s) |-> IF i = get_chunk_count(s) - 1
                                     THEN f[i] \cap last_chunk_mask(s) ELSE f[i]]
<1>1. \A i \in Chunks(s) : \A p \in c[i] :
        p \in Positions /\ (i = get_chunk_count(s) - 1 => p \in last_chunk_mask(s))
  OBVIOUS
<1>2. c \in [Chunks(s) -> SUBSET Positions]
  OBVIOUS
<1>3. s \in Nat \ {0} /\ CHUNK_SIZE \in Nat \ {0}
  BY BitVectorAssumption
<1> HIDE DEF c
<1>4. \A i \in Chunks(s) : \A p \in c[i] : CHUNK_SIZE * i + p < s
  BY <1>1, <1>3, MaskFits
<1>5. c \in Contents(s)
  BY <1>2, <1>4 DEF Contents
<1>6. [size |-> s, content |-> c] \in Vector
  BY <1>5 DEF Vector
<1>7. QED
  BY <1>6 DEF c

\* Chunks with fewer ones than those of a vector make a vector.
LEMMA ChunksOfVector ==
  ASSUME NEW s \in SIZES, NEW c \in [Chunks(s) -> SUBSET Positions],
         \A i \in Chunks(s) : \A p \in c[i] : CHUNK_SIZE * i + p < s
  PROVE  [size |-> s, content |-> c] \in Vector
BY DEF Vector, Contents

-------------------------------------------------------------------------------
(* Operations *)

LEMMA CreateMasks ==
  ASSUME NEW s \in SIZES, NEW value
  PROVE  bit_vector_create(s, value) \in Vector
<1> DEFINE f == [i \in Chunks(s) |-> IF value = 1 THEN Positions ELSE {}]
<1>1. f \in [Chunks(s) -> SUBSET Positions]
  OBVIOUS
<1>2. bit_vector_create(s, value) =
        [size |-> s,
         content |-> [i \in Chunks(s) |-> IF i = get_chunk_count(s) - 1
                                          THEN f[i] \cap last_chunk_mask(s) ELSE f[i]]]
  BY DEF bit_vector_create, Masked
<1> HIDE DEF f
<1>3. QED
  BY <1>1, <1>2, MaskedIsVector

LEMMA NotMasks ==
  ASSUME NEW v \in Vector
  PROVE  bit_vector_not(v) \in Vector
<1> DEFINE s == v.size
           f == [i \in Chunks(s) |-> Positions \ v.content[i]]
<1>1. f \in [Chunks(s) -> SUBSET Positions] /\ s \in SIZES
  BY VectorHas
<1>2. bit_vector_not(v) =
        [size |-> s,
         content |-> [i \in Chunks(s) |-> IF i = get_chunk_count(s) - 1
                                          THEN f[i] \cap last_chunk_mask(s) ELSE f[i]]]
  BY DEF bit_vector_not, Masked
<1> HIDE DEF f, s
<1>3. QED
  BY <1>1, <1>2, MaskedIsVector

\* Two vectors of one size are combined chunk by chunk; no combination makes a one of
\* two zeros, so no mask is needed.
LEMMA CombinedIsVector ==
  ASSUME NEW v \in Vector, NEW w \in Vector, v.size = w.size,
         NEW c \in [Chunks(v.size) -> SUBSET Positions],
         \A i \in Chunks(v.size) : c[i] \subseteq v.content[i] \cup w.content[i]
  PROVE  [v EXCEPT !.content = c] \in Vector
<1>1. [v EXCEPT !.content = c] = [size |-> v.size, content |-> c] /\ v.size \in SIZES
  BY VectorHas
<1>2. \A i \in Chunks(v.size) :
        /\ \A p \in v.content[i] : CHUNK_SIZE * i + p < v.size
        /\ \A p \in w.content[i] : CHUNK_SIZE * i + p < v.size
  BY VectorHas DEF Contents
<1>3. \A i \in Chunks(v.size) : \A p \in c[i] : CHUNK_SIZE * i + p < v.size
  BY <1>2
<1>4. QED
  BY <1>1, <1>3, ChunksOfVector

LEMMA CombinationsMask ==
  ASSUME NEW v \in Vector, NEW w \in Vector
  PROVE  /\ bit_vector_and(v, w) \in Vector \cup {NULL}
         /\ bit_vector_or(v, w) \in Vector \cup {NULL}
         /\ bit_vector_xor(v, w) \in Vector \cup {NULL}
<1>1. CASE v.size # w.size
  BY <1>1 DEF bit_vector_and, bit_vector_or, bit_vector_xor, Chunkwise
<1>2. CASE v.size = w.size
  <2>d. /\ DOMAIN v.content = Chunks(v.size)
        /\ v.content \in [Chunks(v.size) -> SUBSET Positions]
        /\ w.content \in [Chunks(v.size) -> SUBSET Positions]
    BY <1>2, VectorHas
  <2>1. bit_vector_and(v, w) =
          [v EXCEPT !.content = [i \in Chunks(v.size) |-> v.content[i] \cap w.content[i]]]
    BY <1>2, <2>d DEF bit_vector_and, Chunkwise
  <2>2. bit_vector_or(v, w) =
          [v EXCEPT !.content = [i \in Chunks(v.size) |-> v.content[i] \cup w.content[i]]]
    BY <1>2, <2>d DEF bit_vector_or, Chunkwise
  <2>3. bit_vector_xor(v, w) =
          [v EXCEPT !.content = [i \in Chunks(v.size) |->
             (v.content[i] \ w.content[i]) \cup (w.content[i] \ v.content[i])]]
    BY <1>2, <2>d DEF bit_vector_xor, Chunkwise
  <2>4. bit_vector_and(v, w) \in Vector
    BY <1>2, <2>d, <2>1, CombinedIsVector
  <2>5. bit_vector_or(v, w) \in Vector
    BY <1>2, <2>d, <2>2, CombinedIsVector
  <2>6. bit_vector_xor(v, w) \in Vector
    BY <1>2, <2>d, <2>3, CombinedIsVector
  <2>7. QED
    BY <2>4, <2>5, <2>6
<1>3. QED
  BY <1>1, <1>2

\* Fetched from anywhere, in the vector or beyond, a chunk is a chunk.
LEMMA FetchedIsChunk ==
  ASSUME NEW v \in Vector, NEW index, NEW wrap
  PROVE  bit_vector_extract_chunk(v, index, wrap) \subseteq Positions
<1>1. \A chunk : bit_vector_get_chunk(v, chunk, wrap) \subseteq Positions
  BY VectorHas DEF bit_vector_get_chunk
<1>2. \A c, k : shl(c, k) \subseteq Positions /\ shr(c, k) \subseteq Positions
  BY DEF shl, shr
<1>3. QED
  BY <1>1, <1>2 DEF bit_vector_extract_chunk

LEMMA ExtractMasks ==
  ASSUME NEW v \in Vector, NEW index, NEW s \in SIZES, NEW wrap
  PROVE  bit_vector_extract(v, index, s, wrap) \in Vector
<1> DEFINE f == [i \in Chunks(s) |-> bit_vector_extract_chunk(v, index + CHUNK_SIZE * i, wrap)]
<1>1. f \in [Chunks(s) -> SUBSET Positions]
  BY FetchedIsChunk
<1>2. bit_vector_extract(v, index, s, wrap) =
        [size |-> s,
         content |-> [i \in Chunks(s) |-> IF i = get_chunk_count(s) - 1
                                          THEN f[i] \cap last_chunk_mask(s) ELSE f[i]]]
  BY DEF bit_vector_extract, Masked
<1> HIDE DEF f
<1>3. QED
  BY <1>1, <1>2, MaskedIsVector

LEMMA ShiftMasks ==
  ASSUME NEW v \in Vector, NEW shift
  PROVE  bit_vector_shift(v, shift) \in Vector
BY VectorHas, ExtractMasks DEF bit_vector_shift, bit_vector_extract_zero_ext

LEMMA JoinMasks ==
  ASSUME NEW v \in Vector, NEW w \in Vector, NEW shift
  PROVE  bit_vector_join(v, w, shift) \in Vector \cup {NULL}
<1>1. CASE v.size # w.size \/ shift < 0 \/ shift > v.size
  BY <1>1 DEF bit_vector_join
<1>2. CASE ~(v.size # w.size \/ shift < 0 \/ shift > v.size)
  <2> DEFINE ones == bit_vector_create(v.size, 1)
             mask1 == bit_vector_shift(ones, shift - v.size)
             mask2 == bit_vector_shift(ones, shift)
             left == bit_vector_and(mask1, v)
             right == bit_vector_and(mask2, w)
  <2>1. bit_vector_join(v, w, shift) = bit_vector_or(left, right)
    BY <1>2 DEF bit_vector_join
  <2>2. ones \in Vector /\ ones.size = v.size
    BY VectorHas, CreateMasks DEF bit_vector_create, Masked
  <2>3. /\ mask1 \in Vector /\ mask1.size = v.size
        /\ mask2 \in Vector /\ mask2.size = v.size
    <3> HIDE DEF ones
    <3>1. mask1 \in Vector /\ mask2 \in Vector
      BY <2>2, ShiftMasks
    <3>2. mask1.size = v.size /\ mask2.size = v.size
      BY <2>2 DEF bit_vector_shift, bit_vector_extract_zero_ext, bit_vector_extract, Masked
    <3>3. QED
      BY <3>1, <3>2
  <2> HIDE DEF mask1, mask2
  <2>4. left \in Vector /\ right \in Vector
    <3>1. v.size # 0 /\ w.size = v.size
      BY <1>2, VectorHas, BitVectorAssumption
    <3>2. left # NULL /\ right # NULL
      BY <2>3, <3>1, VectorHas DEF bit_vector_and, Chunkwise, NULL
    <3>3. QED
      BY <2>3, <3>2, CombinationsMask
  <2> HIDE DEF left, right
  <2>5. QED
    BY <2>1, <2>4, CombinationsMask
<1>3. QED
  BY <1>1, <1>2

-------------------------------------------------------------------------------
(* The program *)

LEMMA ReplaceKeeps ==
  ASSUME IInv, NEW t \in Vectors, NEW v \in Vector \cup {NULL}, Replace(t, v)
  PROVE  IInv'
BY DEF Replace, IInv

LEMMA InitIInv == Init => IInv
<1> SUFFICES ASSUME NEW sizes \in [Vectors -> SIZES],
                    vec = [n \in Vectors |-> bit_vector_create(sizes[n], 0)]
             PROVE  IInv
  BY DEF Init
<1>1. \A n \in Vectors : bit_vector_create(sizes[n], 0) \in Vector
  BY CreateMasks
<1>2. QED
  BY <1>1 DEF IInv

LEMMA NextIInv == IInv /\ [Next]_vec => IInv'
<1> SUFFICES ASSUME IInv, [Next]_vec
             PROVE  IInv'
  OBVIOUS
<1>v. \A n \in Vectors : vec[n] \in Vector
  BY DEF IInv
<1>0. CASE UNCHANGED vec
  BY <1>0 DEF IInv
<1>1. ASSUME NEW t \in Vectors, NEW s \in SIZES, NEW value, Create(t, s, value)
      PROVE  IInv'
  BY <1>1, CreateMasks, ReplaceKeeps DEF Create
<1>2. ASSUME NEW t \in Vectors, Negate(t)
      PROVE  IInv'
  BY <1>2, <1>v, NotMasks, ReplaceKeeps DEF Negate
<1>3. ASSUME NEW t \in Vectors, NEW n \in Vectors, Combine(t, n)
      PROVE  IInv'
  BY <1>3, <1>v, CombinationsMask, ReplaceKeeps DEF Combine
<1>4. ASSUME NEW t \in Vectors, NEW n \in Vectors, NEW index \in INDEXES, NEW s \in SIZES,
             Extract(t, n, index, s)
      PROVE  IInv'
  BY <1>4, <1>v, ExtractMasks, ReplaceKeeps
     DEF Extract, bit_vector_extract_zero_ext, bit_vector_extract_wrap_ext
<1>5. ASSUME NEW t \in Vectors, NEW n \in Vectors, NEW shift \in INDEXES, Shift(t, n, shift)
      PROVE  IInv'
  BY <1>5, <1>v, ShiftMasks, ReplaceKeeps DEF Shift
<1>6. ASSUME NEW t \in Vectors, NEW n \in Vectors, NEW shift \in INDEXES, Join(t, n, shift)
      PROVE  IInv'
  BY <1>6, <1>v, JoinMasks, ReplaceKeeps DEF Join
<1>7. QED
  BY <1>0, <1>1, <1>2, <1>3, <1>4, <1>5, <1>6 DEF Next

\* No operation leaves ones beyond the size of a vector, where an extraction would bring
\* them into view: what is computed without a mask needs none (bit_vector.c).
THEOREM NothingBeyondTheSize == Spec => []TypeOK
<1>1. IInv => TypeOK
  <2> SUFFICES ASSUME IInv, NEW n \in DOMAIN vec
               PROVE  /\ n \in Vectors
                      /\ vec[n].size \in SIZES
                      /\ DOMAIN vec[n].content = Chunks(vec[n].size)
                      /\ \A i \in Chunks(vec[n].size) :
                           vec[n].content[i] \subseteq
                             {p \in Positions : CHUNK_SIZE * i + p < vec[n].size}
    BY DEF TypeOK
  <2>1. n \in Vectors /\ vec[n] \in Vector
    BY DEF IInv
  <2>2. QED
    BY <2>1, VectorHas DEF Contents
<1>2. QED
  BY <1>1, InitIInv, NextIInv, PTL DEF Spec

-------------------------------------------------------------------------------
(* Bits *)

\* The positions of the ones of a vector.
Ones(v) == {n \in 0..(v.size - 1) : n % CHUNK_SIZE \in v.content[n \div CHUNK_SIZE]}

LEMMA SeenIsOnes ==
  ASSUME NEW v \in Vector
  PROVE  Seen(v) = [size |-> v.size, ones |-> Ones(v)]
<1>1. v.size \in Nat \ {0}
  BY VectorHas, BitVectorAssumption
<1>2. \A i \in 0..(v.size - 1) :
        bit_vector_get(v, i) = 1 <=> i % CHUNK_SIZE \in v.content[i \div CHUNK_SIZE]
  BY <1>1 DEF bit_vector_get
<1>3. QED
  BY <1>2 DEF Seen, Ones

LEMMA Multiples ==
  ASSUME NEW d \in Nat \ {0}, NEW a \in Int, NEW b \in Int, a < b
  PROVE  d * a + d <= d * b
<1>1. PICK k \in Nat : b = a + 1 + k
  <2>1. b - a - 1 \in Nat /\ b = a + 1 + (b - a - 1)
    OBVIOUS
  <2>2. QED
    BY <2>1
<1>2. d * b = d * a + d + d * k
  BY <1>1, SMT
<1>3. d * k \in Nat /\ d * a \in Int
  BY SMT
<1>4. QED
  BY <1>2, <1>3

\* Quotient and remainder are the only numbers of their kind.
LEMMA Unique ==
  ASSUME NEW d \in Nat \ {0}, NEW q \in Int, NEW r \in 0..(d - 1)
  PROVE  (d * q + r) \div d = q /\ (d * q + r) % d = r
<1> DEFINE n == d * q + r
           k == n \div d
           m == n % d
<1>i. n \in Int /\ d * q \in Int
  BY SMT
<1>1. k \in Int /\ m \in 0..(d - 1) /\ n = d * k + m /\ d * k \in Int
  BY <1>i, SMT
<1>n. n = d * q + r
  OBVIOUS
<1> HIDE DEF n, k, m
<1>2. CASE k < q
  <2>1. d * k + d <= d * q
    BY <1>1, <1>2, Multiples
  <2>2. QED
    BY <2>1, <1>1, <1>i, <1>n
<1>3. CASE q < k
  <2>1. d * q + d <= d * k
    BY <1>1, <1>3, Multiples
  <2>2. QED
    BY <2>1, <1>1, <1>i, <1>n
<1>4. CASE k = q
  <2>1. m = r
    BY <1>1, <1>4, <1>i, <1>n
  <2>2. QED
    BY <1>4, <2>1 DEF k, m, n
<1>5. QED
  BY <1>1, <1>2, <1>3, <1>4

\* A bit of a vector is in one of its chunks, and under the mask of the last.
LEMMA BitInChunk ==
  ASSUME NEW s \in Nat \ {0}, CHUNK_SIZE \in Nat \ {0}, NEW n \in 0..(s - 1)
  PROVE  /\ n \div CHUNK_SIZE \in Chunks(s) /\ n % CHUNK_SIZE \in Positions
         /\ n = CHUNK_SIZE * (n \div CHUNK_SIZE) + (n % CHUNK_SIZE)
         /\ n \div CHUNK_SIZE = get_chunk_count(s) - 1 => n % CHUNK_SIZE \in last_chunk_mask(s)
<1> DEFINE d == CHUNK_SIZE
           k == n \div d
           m == n % d
           q == s \div d
           r == s % d
<1>1. k \in Nat /\ m \in 0..(d - 1) /\ n = d * k + m /\ d * k \in Int
  <2>1. n \in Nat /\ d \in Nat \ {0}
    OBVIOUS
  <2>2. k \in Nat /\ m \in 0..(d - 1) /\ n = d * k + m
    BY <2>1, Euclid
  <2> HIDE DEF k
  <2>3. d * k \in Int
    BY <2>1, <2>2, SMT
  <2>4. QED
    BY <2>2, <2>3
<1>2. q \in Nat /\ r \in 0..(d - 1) /\ s = d * q + r /\ d * q \in Int
  <2>1. s \in Nat /\ d \in Nat \ {0}
    OBVIOUS
  <2>2. q \in Nat /\ r \in 0..(d - 1) /\ s = d * q + r
    BY <2>1, Euclid
  <2> HIDE DEF q
  <2>3. d * q \in Int
    BY <2>1, <2>2, SMT
  <2>4. QED
    BY <2>2, <2>3
<1>3. get_chunk_count(s) = IF r # 0 THEN q + 1 ELSE q
  BY DEF get_chunk_count
<1>4. last_chunk_mask(s) = IF r = 0 THEN Positions ELSE 0..(r - 1)
  BY DEF last_chunk_mask
<1>d. d = CHUNK_SIZE /\ d \in Nat \ {0} /\ Positions = 0..(d - 1)
  BY DEF Positions
<1> HIDE DEF d, k, m, q, r
<1>5. k <= q
  <2>1. CASE q < k
    <3>1. d * q + d <= d * k
      BY <2>1, <1>1, <1>2, <1>d, Multiples
    <3>2. QED
      BY <3>1, <1>1, <1>2, <1>d
  <2>2. QED
    BY <2>1, <1>1, <1>2
<1>6. k = q => m < r
  BY <1>1, <1>2, <1>d
<1>7. k \in Chunks(s)
  BY <1>1, <1>2, <1>3, <1>5, <1>6 DEF Chunks
<1>8. k = get_chunk_count(s) - 1 => m \in last_chunk_mask(s)
  BY <1>1, <1>2, <1>3, <1>4, <1>6, <1>d
<1>9. QED
  BY <1>1, <1>7, <1>8, <1>d DEF k, m, d

\* What the ones of a masked vector are.
LEMMA MaskedOnes ==
  ASSUME NEW s \in SIZES, NEW f \in [Chunks(s) -> SUBSET Positions], NEW v,
         v = [size |-> s,
              content |-> [i \in Chunks(s) |-> IF i = get_chunk_count(s) - 1
                                               THEN f[i] \cap last_chunk_mask(s) ELSE f[i]]]
  PROVE  Ones(v) = {n \in 0..(s - 1) : n % CHUNK_SIZE \in f[n \div CHUNK_SIZE]}
<1>1. s \in Nat \ {0} /\ CHUNK_SIZE \in Nat \ {0}
  BY BitVectorAssumption
<1>2. ASSUME NEW n \in 0..(s - 1)
      PROVE  n % CHUNK_SIZE \in v.content[n \div CHUNK_SIZE]
               <=> n % CHUNK_SIZE \in f[n \div CHUNK_SIZE]
  <2> DEFINE k == n \div CHUNK_SIZE
             m == n % CHUNK_SIZE
  <2>1. k \in Chunks(s) /\ (k = get_chunk_count(s) - 1 => m \in last_chunk_mask(s))
    BY <1>1, BitInChunk
  <2> HIDE DEF k, m
  <2>2. m \in v.content[k] <=> m \in f[k]
    BY <2>1
  <2>3. QED
    BY <2>2 DEF k, m
<1>3. v.size = s
  OBVIOUS
<1>4. QED
  BY <1>2, <1>3 DEF Ones

\* A place in a chunk is a bit of the vector, or beyond its ends.
LEMMA ChunkOnes ==
  ASSUME NEW v \in Vector, NEW k \in Int, NEW p \in Positions
  PROVE  CHUNK_SIZE * k + p \in Ones(v) <=> k \in Chunks(v.size) /\ p \in v.content[k]
<1> DEFINE n == CHUNK_SIZE * k + p
<1>0. v.size \in Nat \ {0} /\ CHUNK_SIZE \in Nat \ {0} /\ p \in 0..(CHUNK_SIZE - 1)
  BY VectorHas, BitVectorAssumption DEF Positions
<1>1. n \div CHUNK_SIZE = k /\ n % CHUNK_SIZE = p
  BY <1>0, Unique
<1>i. n \in Int
  BY <1>0, SMT
<1>2. ASSUME n \in Ones(v)
      PROVE  k \in Chunks(v.size) /\ p \in v.content[k]
  <2>1. n \in 0..(v.size - 1) /\ p \in v.content[k]
    BY <1>1, <1>2 DEF Ones
  <2> HIDE DEF n
  <2>2. QED
    BY <2>1, <1>0, <1>1, BitInChunk
<1>3. ASSUME k \in Chunks(v.size), p \in v.content[k]
      PROVE  n \in Ones(v)
  <2>1. n < v.size
    BY <1>3, VectorHas DEF Contents
  <2>2. k \in Nat
    BY <1>3 DEF Chunks
  <2>3. n >= 0
    BY <2>2, <1>0, SMT
  <2> HIDE DEF n
  <2>4. QED
    BY <1>3, <2>1, <2>3, <1>0, <1>1, <1>i DEF Ones
<1>4. QED
  BY <1>2, <1>3

LEMMA CreateOnes ==
  ASSUME NEW s \in SIZES, NEW value
  PROVE  /\ bit_vector_create(s, value).size = s
         /\ Ones(bit_vector_create(s, value)) = {n \in 0..(s - 1) : value = 1}
<1> DEFINE f == [i \in Chunks(s) |-> IF value = 1 THEN Positions ELSE {}]
           v == bit_vector_create(s, value)
<1>0. s \in Nat \ {0} /\ CHUNK_SIZE \in Nat \ {0}
  BY BitVectorAssumption
<1>1. f \in [Chunks(s) -> SUBSET Positions]
  OBVIOUS
<1>2. v = [size |-> s,
           content |-> [i \in Chunks(s) |-> IF i = get_chunk_count(s) - 1
                                            THEN f[i] \cap last_chunk_mask(s) ELSE f[i]]]
  BY DEF bit_vector_create, Masked
<1>3. \A n \in 0..(s - 1) :
        n \div CHUNK_SIZE \in Chunks(s) /\ n % CHUNK_SIZE \in Positions
  BY <1>0, BitInChunk
<1>4. \A n \in 0..(s - 1) : n % CHUNK_SIZE \in f[n \div CHUNK_SIZE] <=> value = 1
  BY <1>3
<1> HIDE DEF f, v
<1>5. Ones(v) = {n \in 0..(s - 1) : n % CHUNK_SIZE \in f[n \div CHUNK_SIZE]}
  BY <1>1, <1>2, MaskedOnes
<1>6. QED
  BY <1>2, <1>4, <1>5 DEF v

LEMMA NotOnes ==
  ASSUME NEW v \in Vector
  PROVE  /\ bit_vector_not(v).size = v.size
         /\ Ones(bit_vector_not(v)) = (0..(v.size - 1)) \ Ones(v)
<1> DEFINE s == v.size
           f == [i \in Chunks(s) |-> Positions \ v.content[i]]
           w == bit_vector_not(v)
<1>0. s \in Nat \ {0} /\ CHUNK_SIZE \in Nat \ {0} /\ s \in SIZES
  BY BitVectorAssumption, VectorHas
<1>1. f \in [Chunks(s) -> SUBSET Positions]
  OBVIOUS
<1>2. w = [size |-> s,
           content |-> [i \in Chunks(s) |-> IF i = get_chunk_count(s) - 1
                                            THEN f[i] \cap last_chunk_mask(s) ELSE f[i]]]
  BY DEF bit_vector_not, Masked
<1>o. Ones(v) = {n \in 0..(s - 1) : n % CHUNK_SIZE \in v.content[n \div CHUNK_SIZE]}
  BY DEF Ones
<1>s. s = v.size
  OBVIOUS
<1>f. \A k \in Chunks(s) : f[k] = Positions \ v.content[k]
  OBVIOUS
<1> HIDE DEF f, w, s
<1>3. \A n \in 0..(s - 1) :
        n \div CHUNK_SIZE \in Chunks(s) /\ n % CHUNK_SIZE \in Positions
  BY <1>0, BitInChunk
<1>4. \A n \in 0..(s - 1) : n % CHUNK_SIZE \in f[n \div CHUNK_SIZE] <=> n \notin Ones(v)
  BY <1>3, <1>o, <1>f
<1>5. Ones(w) = {n \in 0..(s - 1) : n % CHUNK_SIZE \in f[n \div CHUNK_SIZE]}
  BY <1>0, <1>1, <1>2, MaskedOnes
<1>6. Ones(w) = (0..(s - 1)) \ Ones(v) /\ w.size = s
  BY <1>2, <1>4, <1>5
<1>7. QED
  BY <1>6, <1>s DEF w

\* Chunk by chunk is bit by bit.
LEMMA CombinedOnes ==
  ASSUME NEW v \in Vector, NEW w \in Vector, v.size = w.size
  PROVE  /\ bit_vector_and(v, w).size = v.size
         /\ bit_vector_or(v, w).size = v.size
         /\ bit_vector_xor(v, w).size = v.size
         /\ Ones(bit_vector_and(v, w)) = Ones(v) \cap Ones(w)
         /\ Ones(bit_vector_or(v, w)) = Ones(v) \cup Ones(w)
         /\ Ones(bit_vector_xor(v, w)) = (Ones(v) \ Ones(w)) \cup (Ones(w) \ Ones(v))
<1> DEFINE s == v.size
<1>0. s \in Nat \ {0} /\ CHUNK_SIZE \in Nat \ {0} /\ s \in SIZES
  BY BitVectorAssumption, VectorHas
<1>1. DOMAIN v.content = Chunks(s) /\ v = [size |-> s, content |-> v.content]
  BY VectorHas
<1>2. \A n \in 0..(s - 1) : n \div CHUNK_SIZE \in Chunks(s)
  BY <1>0, BitInChunk
<1>o. /\ Ones(v) = {n \in 0..(s - 1) : n % CHUNK_SIZE \in v.content[n \div CHUNK_SIZE]}
      /\ Ones(w) = {n \in 0..(s - 1) : n % CHUNK_SIZE \in w.content[n \div CHUNK_SIZE]}
  BY DEF Ones
<1>3. bit_vector_and(v, w) =
        [size |-> s, content |-> [i \in Chunks(s) |-> v.content[i] \cap w.content[i]]]
  BY <1>1 DEF bit_vector_and, Chunkwise
<1>4. bit_vector_or(v, w) =
        [size |-> s, content |-> [i \in Chunks(s) |-> v.content[i] \cup w.content[i]]]
  BY <1>1 DEF bit_vector_or, Chunkwise
<1>5. bit_vector_xor(v, w) =
        [size |-> s, content |-> [i \in Chunks(s) |->
           (v.content[i] \ w.content[i]) \cup (w.content[i] \ v.content[i])]]
  BY <1>1 DEF bit_vector_xor, Chunkwise
<1>s. s = v.size
  OBVIOUS
<1> HIDE DEF s
<1>6. bit_vector_and(v, w).size = s /\ Ones(bit_vector_and(v, w)) = Ones(v) \cap Ones(w)
  <2>1. Ones(bit_vector_and(v, w)) =
          {n \in 0..(s - 1) : n % CHUNK_SIZE \in
             v.content[n \div CHUNK_SIZE] \cap w.content[n \div CHUNK_SIZE]}
    BY <1>2, <1>3 DEF Ones
  <2>2. QED
    BY <2>1, <1>3, <1>o
<1>7. bit_vector_or(v, w).size = s /\ Ones(bit_vector_or(v, w)) = Ones(v) \cup Ones(w)
  <2>1. Ones(bit_vector_or(v, w)) =
          {n \in 0..(s - 1) : n % CHUNK_SIZE \in
             v.content[n \div CHUNK_SIZE] \cup w.content[n \div CHUNK_SIZE]}
    BY <1>2, <1>4 DEF Ones
  <2>2. QED
    BY <2>1, <1>4, <1>o
<1>8. /\ bit_vector_xor(v, w).size = s
      /\ Ones(bit_vector_xor(v, w)) = (Ones(v) \ Ones(w)) \cup (Ones(w) \ Ones(v))
  <2>1. Ones(bit_vector_xor(v, w)) =
          {n \in 0..(s - 1) : n % CHUNK_SIZE \in
             (v.content[n \div CHUNK_SIZE] \ w.content[n \div CHUNK_SIZE])
             \cup (w.content[n \div CHUNK_SIZE] \ v.content[n \div CHUNK_SIZE])}
    BY <1>2, <1>5 DEF Ones
  <2>2. QED
    BY <2>1, <1>5, <1>o
<1>9. QED
  BY <1>6, <1>7, <1>8, <1>s

-------------------------------------------------------------------------------
(* Extractions *)

\* The bit that extraction finds at n, in the vector or beyond its ends.
Source(v, n, wrap) ==
  IF wrap THEN (as_size_t(n) % v.size) \in Ones(v) ELSE n \in Ones(v)

LEMMA FetchedBits ==
  ASSUME NEW v \in Vector, NEW k \in Int, NEW p \in Positions, NEW wrap \in BOOLEAN
  PROVE  p \in bit_vector_get_chunk(v, k, wrap) <=> Source(v, CHUNK_SIZE * k + p, wrap)
<1>0. /\ v.size \in Nat \ {0} /\ CHUNK_SIZE \in Nat \ {0} /\ SizeLimit \in Nat \ {0}
      /\ p \in Int
  BY VectorHas, BitVectorAssumption DEF Positions
<1>1. CASE wrap
  <2> DEFINE n == CHUNK_SIZE * k + p
             a == as_size_t(n)
             j == a % v.size
  <2>1. n \in Int
    BY <1>0, SMT
  <2> HIDE DEF n
  <2>2. a \in Nat
    BY <2>1, <1>0 DEF as_size_t
  <2> HIDE DEF a
  <2>3. j \in 0..(v.size - 1)
    BY <2>2, <1>0, Euclid
  <2>4. p \in bit_vector_get_chunk(v, k, wrap) <=> bit_vector_get(v, j) = 1
    BY <1>1 DEF bit_vector_get_chunk, j, a, n
  <2> HIDE DEF j
  <2>5. bit_vector_get(v, j) = 1 <=> j \in Ones(v)
    BY <2>3, <1>0 DEF bit_vector_get, Ones
  <2>6. Source(v, n, wrap) <=> j \in Ones(v)
    BY <1>1 DEF Source, j, a
  <2>7. QED
    BY <2>4, <2>5, <2>6 DEF n
<1>2. CASE ~wrap
  <2>1. p \in bit_vector_get_chunk(v, k, wrap) <=> k \in Chunks(v.size) /\ p \in v.content[k]
    BY <1>2 DEF bit_vector_get_chunk
  <2>2. QED
    BY <2>1, <1>2, ChunkOnes DEF Source
<1>3. QED
  BY <1>1, <1>2

\* The two chunks a chunk is made of meet without a gap.
LEMMA ExtractedChunkBits ==
  ASSUME NEW v \in Vector, NEW n \in Int, NEW p \in Positions, NEW wrap \in BOOLEAN
  PROVE  p \in bit_vector_extract_chunk(v, n, wrap) <=> Source(v, n + p, wrap)
<1> DEFINE d == CHUNK_SIZE
           k == n \div d
           r == n % d
           low == bit_vector_get_chunk(v, k, wrap)
           high == bit_vector_get_chunk(v, k + 1, wrap)
<1>0. d \in Nat \ {0} /\ p \in 0..(d - 1) /\ Positions = 0..(d - 1)
  BY BitVectorAssumption DEF Positions
<1>1. k \in Int /\ r \in 0..(d - 1) /\ n = d * k + r
  BY <1>0, SMT
<1>2. bit_vector_extract_chunk(v, n, wrap) =
        IF r = 0 THEN low ELSE shl(high, d - r) \cup shr(low, r)
  BY DEF bit_vector_extract_chunk
<1>3. low \subseteq Positions /\ high \subseteq Positions
  BY VectorHas DEF bit_vector_get_chunk
<1>4. \A x \in Positions : x \in low <=> Source(v, d * k + x, wrap)
  BY <1>1, FetchedBits
<1>5. \A x \in Positions : x \in high <=> Source(v, d * (k + 1) + x, wrap)
  BY <1>1, FetchedBits
<1> HIDE DEF k, r, low, high, d
<1>6. d * k \in Int /\ d * (k + 1) = d * k + d
  BY <1>0, <1>1, SMT
<1>7. CASE r = 0
  <2>1. n + p = d * k + p
    BY <1>7, <1>1, <1>6, <1>0
  <2>2. QED
    BY <2>1, <1>2, <1>4, <1>7
<1>8. CASE r # 0 /\ p + r < d
  <2>1. p + r \in Positions /\ p - (d - r) \notin Positions
    BY <1>8, <1>0, <1>1
  <2>2. p \in bit_vector_extract_chunk(v, n, wrap) <=> p + r \in low
    BY <2>1, <1>8, <1>2, <1>3 DEF shl, shr
  <2>3. n + p = d * k + (p + r)
    BY <1>1, <1>6, <1>0
  <2>4. QED
    BY <2>1, <2>2, <2>3, <1>4
<1>9. CASE r # 0 /\ ~(p + r < d)
  <2>1. p + r \notin Positions /\ p - (d - r) \in Positions
    BY <1>9, <1>0, <1>1
  <2>2. p \in bit_vector_extract_chunk(v, n, wrap) <=> p - (d - r) \in high
    BY <2>1, <1>9, <1>2, <1>3 DEF shl, shr
  <2>3. n + p = d * (k + 1) + (p - (d - r))
    BY <1>1, <1>6, <1>0
  <2>4. QED
    BY <2>1, <2>2, <2>3, <1>5
<1>10. QED
  BY <1>7, <1>8, <1>9

LEMMA ExtractOnes ==
  ASSUME NEW v \in Vector, NEW index \in Int, NEW s \in SIZES, NEW wrap \in BOOLEAN
  PROVE  /\ bit_vector_extract(v, index, s, wrap).size = s
         /\ Ones(bit_vector_extract(v, index, s, wrap)) =
              {j \in 0..(s - 1) : Source(v, j + index, wrap)}
<1> DEFINE f == [i \in Chunks(s) |-> bit_vector_extract_chunk(v, index + CHUNK_SIZE * i, wrap)]
           w == bit_vector_extract(v, index, s, wrap)
<1>0. s \in Nat \ {0} /\ CHUNK_SIZE \in Nat \ {0}
  BY BitVectorAssumption
<1>1. f \in [Chunks(s) -> SUBSET Positions]
  BY FetchedIsChunk
<1>2. w = [size |-> s,
           content |-> [i \in Chunks(s) |-> IF i = get_chunk_count(s) - 1
                                            THEN f[i] \cap last_chunk_mask(s) ELSE f[i]]]
  BY DEF bit_vector_extract, Masked
<1>f. \A i \in Chunks(s) : f[i] = bit_vector_extract_chunk(v, index + CHUNK_SIZE * i, wrap)
  OBVIOUS
<1> HIDE DEF f, w
<1>3. ASSUME NEW j \in 0..(s - 1)
      PROVE  j % CHUNK_SIZE \in f[j \div CHUNK_SIZE] <=> Source(v, j + index, wrap)
  <2> DEFINE k == j \div CHUNK_SIZE
             p == j % CHUNK_SIZE
  <2>1. k \in Chunks(s) /\ p \in Positions /\ j = CHUNK_SIZE * k + p
    BY <1>0, BitInChunk
  <2> HIDE DEF k, p
  <2>2. k \in Int /\ p \in Int /\ CHUNK_SIZE * k \in Int
    <3>1. k \in Int /\ p \in Int
      BY <2>1 DEF Chunks, Positions
    <3>2. QED
      BY <3>1, <1>0, SMT
  <2>3. p \in f[k] <=> Source(v, (index + CHUNK_SIZE * k) + p, wrap)
    <3> DEFINE n == index + CHUNK_SIZE * k
    <3>1. n \in Int /\ f[k] = bit_vector_extract_chunk(v, n, wrap)
      BY <2>1, <2>2, <1>f
    <3> HIDE DEF n
    <3>2. p \in bit_vector_extract_chunk(v, n, wrap) <=> Source(v, n + p, wrap)
      BY <2>1, <3>1, ExtractedChunkBits
    <3>3. QED
      BY <3>1, <3>2 DEF n
  <2>4. (index + CHUNK_SIZE * k) + p = j + index
    BY <2>1, <2>2
  <2>5. QED
    BY <2>3, <2>4 DEF k, p
<1>4. Ones(w) = {n \in 0..(s - 1) : n % CHUNK_SIZE \in f[n \div CHUNK_SIZE]}
  BY <1>1, <1>2, MaskedOnes
<1>5. QED
  BY <1>2, <1>3, <1>4 DEF w

LEMMA ShiftOnes ==
  ASSUME NEW v \in Vector, NEW shift \in Int
  PROVE  /\ bit_vector_shift(v, shift) \in Vector
         /\ bit_vector_shift(v, shift).size = v.size
         /\ Ones(bit_vector_shift(v, shift)) = {j \in 0..(v.size - 1) : j - shift \in Ones(v)}
<1>1. v.size \in SIZES /\ v.size \in Nat /\ -shift \in Int
  BY VectorHas, BitVectorAssumption
<1>2. bit_vector_shift(v, shift) = bit_vector_extract(v, -shift, v.size, FALSE)
  BY DEF bit_vector_shift, bit_vector_extract_zero_ext
<1>3. /\ bit_vector_shift(v, shift).size = v.size
      /\ Ones(bit_vector_shift(v, shift)) =
           {j \in 0..(v.size - 1) : Source(v, j + (-shift), FALSE)}
  <2> DEFINE index == -shift
  <2>1. index \in Int /\ FALSE \in BOOLEAN
    BY <1>1
  <2> HIDE DEF index
  <2>2. /\ bit_vector_extract(v, index, v.size, FALSE).size = v.size
        /\ Ones(bit_vector_extract(v, index, v.size, FALSE)) =
             {j \in 0..(v.size - 1) : Source(v, j + index, FALSE)}
    BY <1>1, <2>1, ExtractOnes
  <2>3. QED
    BY <1>2, <2>2 DEF index
<1>4. \A j \in 0..(v.size - 1) : Source(v, j + (-shift), FALSE) <=> j - shift \in Ones(v)
  <2> SUFFICES ASSUME NEW j \in 0..(v.size - 1)
               PROVE  Source(v, j + (-shift), FALSE) <=> j - shift \in Ones(v)
    OBVIOUS
  <2>1. Source(v, j + (-shift), FALSE) <=> j + (-shift) \in Ones(v)
    BY DEF Source
  <2>2. j + (-shift) = j - shift
    BY <1>1
  <2>3. QED
    BY <2>1, <2>2
<1>5. QED
  BY <1>3, <1>4, ShiftMasks

\* The masks that select the two parts of a joined vector.
LEMMA JoinOnes ==
  ASSUME NEW v \in Vector, NEW w \in Vector, v.size = w.size, NEW place \in 0..v.size
  PROVE  /\ bit_vector_join(v, w, place).size = v.size
         /\ Ones(bit_vector_join(v, w, place)) =
              {j \in 0..(v.size - 1) : IF j < place THEN j \in Ones(v) ELSE j \in Ones(w)}
<1> DEFINE s == v.size
           ones == bit_vector_create(s, 1)
           mask1 == bit_vector_shift(ones, place - s)
           mask2 == bit_vector_shift(ones, place)
           left == bit_vector_and(mask1, v)
           right == bit_vector_and(mask2, w)
<1>0. s \in SIZES /\ s \in Nat \ {0} /\ place \in Int /\ place - s \in Int
  BY VectorHas, BitVectorAssumption
<1>1. bit_vector_join(v, w, place) = bit_vector_or(left, right)
  BY <1>0 DEF bit_vector_join
<1>s. s = v.size
  OBVIOUS
<1>2. ones \in Vector /\ ones.size = s /\ Ones(ones) = 0..(s - 1)
  BY <1>0, CreateMasks, CreateOnes
<1> HIDE DEF s, ones
<1>3. /\ mask1 \in Vector /\ mask1.size = s
      /\ Ones(mask1) = {j \in 0..(s - 1) : j - (place - s) \in 0..(s - 1)}
  <2> DEFINE shift == place - s
  <2>1. shift \in Int
    BY <1>0
  <2> HIDE DEF shift
  <2>2. LET shifted == bit_vector_shift(ones, shift)
        IN  /\ shifted \in Vector /\ shifted.size = ones.size
            /\ Ones(shifted) = {j \in 0..(ones.size - 1) : j - shift \in Ones(ones)}
    BY <1>2, <2>1, ShiftOnes
  <2>3. QED
    BY <1>2, <2>2 DEF mask1, shift
<1>4. /\ mask2 \in Vector /\ mask2.size = s
      /\ Ones(mask2) = {j \in 0..(s - 1) : j - place \in 0..(s - 1)}
  <2> DEFINE shift == place
  <2>1. shift \in Int
    BY <1>0
  <2> HIDE DEF shift
  <2>2. LET shifted == bit_vector_shift(ones, shift)
        IN  /\ shifted \in Vector /\ shifted.size = ones.size
            /\ Ones(shifted) = {j \in 0..(ones.size - 1) : j - shift \in Ones(ones)}
    BY <1>2, <2>1, ShiftOnes
  <2>3. QED
    BY <1>2, <2>2 DEF mask2, shift
<1> HIDE DEF mask1, mask2
<1>5. Ones(mask1) = {j \in 0..(s - 1) : j < place}
  BY <1>0, <1>3, <1>s
<1>6. Ones(mask2) = {j \in 0..(s - 1) : ~(j < place)}
  BY <1>0, <1>4, <1>s
<1>7. /\ left.size = s /\ Ones(left) = Ones(mask1) \cap Ones(v)
      /\ right.size = s /\ Ones(right) = Ones(mask2) \cap Ones(w)
  BY <1>3, <1>4, <1>s, CombinedOnes
<1>8. left \in Vector /\ right \in Vector
  <2>1. left \in Vector \cup {NULL} /\ right \in Vector \cup {NULL}
    BY <1>3, <1>4, CombinationsMask
  <2>2. left # NULL /\ right # NULL
    BY <1>7, <1>0 DEF NULL
  <2>3. QED
    BY <2>1, <2>2
<1>9. /\ Ones(v) \subseteq 0..(s - 1) /\ Ones(w) \subseteq 0..(s - 1)
  BY <1>s DEF Ones
<1> HIDE DEF left, right
<1>10. /\ bit_vector_or(left, right).size = s
       /\ Ones(bit_vector_or(left, right)) = Ones(left) \cup Ones(right)
  BY <1>7, <1>8, CombinedOnes
<1>11. Ones(left) \cup Ones(right) =
         {j \in 0..(s - 1) : IF j < place THEN j \in Ones(v) ELSE j \in Ones(w)}
  BY <1>5, <1>6, <1>7, <1>9
<1>12. QED
  BY <1>1, <1>10, <1>11, <1>s

\* Where an extraction wraps, the range of size_t does not disturb the remainder.
LEMMA WrapsInStep ==
  ASSUME NEW s \in Nat \ {0}, NEW n \in Int, SizeLimit \in Nat \ {0},
         (0 <= n /\ n < SizeLimit) \/ SizeLimit % s = 0
  PROVE  as_size_t(n) % s = n % s
<1>1. CASE 0 <= n /\ n < SizeLimit
  <2>1. n % SizeLimit = n
    <3>1. n \in 0..(SizeLimit - 1) /\ SizeLimit * 0 + n = n
      BY <1>1
    <3>2. QED
      BY <3>1, Unique
  <2>2. QED
    BY <2>1 DEF as_size_t
<1>2. CASE SizeLimit % s = 0
  <2> DEFINE a == n % SizeLimit
             q == n \div SizeLimit
             c == SizeLimit \div s
             k == a \div s
             m == a % s
  <2>1. q \in Int /\ a \in Nat /\ n = SizeLimit * q + a
    BY SMT
  <2>2. c \in Nat /\ SizeLimit = s * c
    <3>1. c \in Nat /\ SizeLimit = s * c + (SizeLimit % s)
      BY Euclid
    <3>2. s * c \in Nat
      <4> HIDE DEF c
      <4>1. QED
        BY <3>1, SMT
    <3>3. QED
      BY <3>1, <3>2, <1>2
  <2> HIDE DEF a, q, c
  <2>3. k \in Nat /\ m \in 0..(s - 1) /\ a = s * k + m
    BY <2>1, Euclid
  <2> HIDE DEF k, m
  <2>4. c * q + k \in Int
    BY <2>1, <2>2, <2>3, SMT
  <2>5. n = s * (c * q + k) + m
    <3>1. (s * c) * q = s * (c * q) /\ s * (c * q + k) = s * (c * q) + s * k
      BY <2>1, <2>2, <2>3, SMT
    <3>2. s * (c * q) \in Int /\ s * k \in Int
      BY <2>1, <2>2, <2>3, SMT
    <3>3. n = s * (c * q) + (s * k + m)
      BY <2>1, <2>2, <2>3, <3>1
    <3>4. QED
      BY <3>1, <3>2, <3>3, <2>3
  <2>6. n % s = m
    BY <2>3, <2>4, <2>5, Unique
  <2>7. QED
    BY <2>6 DEF as_size_t, a, m
<1>3. QED
  BY <1>1, <1>2

-------------------------------------------------------------------------------
(* What the program sees of a result is what BitString promises *)

LEMMA NotIsBitwise ==
  ASSUME NEW v \in Vector
  PROVE  Seen(bit_vector_not(v)) = Bits!Not(Seen(v))
<1>1. Seen(bit_vector_not(v)) = [size |-> v.size, ones |-> (0..(v.size - 1)) \ Ones(v)]
  BY NotMasks, NotOnes, SeenIsOnes
<1>2. Bits!Not(Seen(v)) = [size |-> v.size, ones |-> {i \in 0..(v.size - 1) : i \notin Ones(v)}]
  <2>1. Seen(v) = [size |-> v.size, ones |-> Ones(v)]
    BY SeenIsOnes
  <2>2. QED
    BY <2>1 DEF Bits!Not, Bits!Of
<1>3. QED
  BY <1>1, <1>2

LEMMA CreateIsBitwise ==
  ASSUME NEW s \in SIZES, NEW value
  PROVE  Seen(bit_vector_create(s, value)) = Bits!Filled(s, value)
<1>1. Seen(bit_vector_create(s, value)) =
        [size |-> s, ones |-> {i \in 0..(s - 1) : value = 1}]
  BY CreateMasks, CreateOnes, SeenIsOnes
<1>2. QED
  BY <1>1 DEF Bits!Filled, Bits!Of

LEMMA CombinationsAreBitwise ==
  ASSUME NEW v \in Vector, NEW w \in Vector, v.size = w.size
  PROVE  /\ Seen(bit_vector_and(v, w)) = Bits!And(Seen(v), Seen(w))
         /\ Seen(bit_vector_or(v, w)) = Bits!Or(Seen(v), Seen(w))
         /\ Seen(bit_vector_xor(v, w)) = Bits!Xor(Seen(v), Seen(w))
<1>0. v.size # 0
  BY VectorHas, BitVectorAssumption
<1>1. /\ bit_vector_and(v, w) \in Vector
      /\ bit_vector_or(v, w) \in Vector
      /\ bit_vector_xor(v, w) \in Vector
  BY <1>0, CombinationsMask, CombinedOnes DEF NULL
<1>2. Ones(v) \subseteq 0..(v.size - 1) /\ Ones(w) \subseteq 0..(v.size - 1)
  BY DEF Ones
<1>3. /\ Seen(v) = [size |-> v.size, ones |-> Ones(v)]
      /\ Seen(w) = [size |-> v.size, ones |-> Ones(w)]
  BY SeenIsOnes
<1>4. Seen(bit_vector_and(v, w)) = Bits!And(Seen(v), Seen(w))
  <2>1. Seen(bit_vector_and(v, w)) = [size |-> v.size, ones |-> Ones(v) \cap Ones(w)]
    BY <1>1, CombinedOnes, SeenIsOnes
  <2>2. Bits!And(Seen(v), Seen(w)) =
          [size |-> v.size, ones |-> {i \in 0..(v.size - 1) : i \in Ones(v) /\ i \in Ones(w)}]
    BY <1>3 DEF Bits!And, Bits!Of
  <2>3. QED
    BY <1>2, <2>1, <2>2
<1>5. Seen(bit_vector_or(v, w)) = Bits!Or(Seen(v), Seen(w))
  <2>1. Seen(bit_vector_or(v, w)) = [size |-> v.size, ones |-> Ones(v) \cup Ones(w)]
    BY <1>1, CombinedOnes, SeenIsOnes
  <2>2. Bits!Or(Seen(v), Seen(w)) =
          [size |-> v.size, ones |-> {i \in 0..(v.size - 1) : i \in Ones(v) \/ i \in Ones(w)}]
    BY <1>3 DEF Bits!Or, Bits!Of
  <2>3. QED
    BY <1>2, <2>1, <2>2
<1>6. Seen(bit_vector_xor(v, w)) = Bits!Xor(Seen(v), Seen(w))
  <2>1. Seen(bit_vector_xor(v, w)) =
          [size |-> v.size, ones |-> (Ones(v) \ Ones(w)) \cup (Ones(w) \ Ones(v))]
    BY <1>1, CombinedOnes, SeenIsOnes
  <2>2. Bits!Xor(Seen(v), Seen(w)) =
          [size |-> v.size,
           ones |-> {i \in 0..(v.size - 1) : (i \in Ones(v)) # (i \in Ones(w))}]
    BY <1>3 DEF Bits!Xor, Bits!Of
  <2>3. (Ones(v) \ Ones(w)) \cup (Ones(w) \ Ones(v)) =
          {i \in 0..(v.size - 1) : (i \in Ones(v)) # (i \in Ones(w))}
    BY <1>2
  <2>4. QED
    BY <2>1, <2>2, <2>3
<1>7. QED
  BY <1>4, <1>5, <1>6

LEMMA ExtractIsBitwise ==
  ASSUME NEW v \in Vector, NEW index \in INDEXES, NEW s \in SIZES
  PROVE  /\ Seen(bit_vector_extract_zero_ext(v, index, s)) = Bits!Extract(Seen(v), index, s)
         /\ WrapsAt(index, v.size) =>
              Seen(bit_vector_extract_wrap_ext(v, index, s)) =
                Bits!ExtractWrapping(Seen(v), index, s)
<1>0. /\ index \in Int /\ s \in Nat \ {0} /\ v.size \in Nat \ {0} /\ SizeLimit \in Nat \ {0}
      /\ index + s <= SizeLimit
  BY VectorHas, BitVectorAssumption, IndexesFit
<1>s. Seen(v) = [size |-> v.size, ones |-> Ones(v)]
  BY SeenIsOnes
<1>1. \A wrap \in BOOLEAN :
        Seen(bit_vector_extract(v, index, s, wrap)) =
          [size |-> s, ones |-> {j \in 0..(s - 1) : Source(v, j + index, wrap)}]
  BY SMTT(30), <1>0, ExtractMasks, ExtractOnes, SeenIsOnes
<1>2. Seen(bit_vector_extract_zero_ext(v, index, s)) = Bits!Extract(Seen(v), index, s)
  <2>1. \A j \in 0..(s - 1) : Source(v, j + index, FALSE) <=> j + index \in Ones(v)
    BY DEF Source
  <2>2. Bits!Extract(Seen(v), index, s) =
          [size |-> s, ones |-> {j \in 0..(s - 1) : j + index \in Ones(v)}]
    BY <1>s DEF Bits!Extract, Bits!Of
  <2>3. Seen(bit_vector_extract_zero_ext(v, index, s)) =
          [size |-> s, ones |-> {j \in 0..(s - 1) : Source(v, j + index, FALSE)}]
    BY <1>1 DEF bit_vector_extract_zero_ext
  <2>4. QED
    BY <2>1, <2>2, <2>3
<1>3. ASSUME WrapsAt(index, v.size)
      PROVE  Seen(bit_vector_extract_wrap_ext(v, index, s)) =
               Bits!ExtractWrapping(Seen(v), index, s)
  <2>1. ASSUME NEW j \in 0..(s - 1)
        PROVE  Source(v, j + index, TRUE) <=> ((j + index) % v.size) \in Ones(v)
    <3> DEFINE n == j + index
    <3>1. n \in Int /\ ((0 <= n /\ n < SizeLimit) \/ SizeLimit % v.size = 0)
      BY <1>0, <1>3 DEF WrapsAt
    <3> HIDE DEF n
    <3>2. as_size_t(n) % v.size = n % v.size
      BY <1>0, <3>1, WrapsInStep
    <3>3. Source(v, n, TRUE) <=> (as_size_t(n) % v.size) \in Ones(v)
      BY DEF Source
    <3>4. QED
      BY <3>2, <3>3 DEF n
  <2>2. Bits!ExtractWrapping(Seen(v), index, s) =
          [size |-> s, ones |-> {j \in 0..(s - 1) : ((j + index) % v.size) \in Ones(v)}]
    BY <1>s DEF Bits!ExtractWrapping, Bits!Of
  <2>3. Seen(bit_vector_extract_wrap_ext(v, index, s)) =
          [size |-> s, ones |-> {j \in 0..(s - 1) : Source(v, j + index, TRUE)}]
    BY <1>1 DEF bit_vector_extract_wrap_ext
  <2>4. QED
    BY <2>1, <2>2, <2>3
<1>4. QED
  BY <1>2, <1>3

LEMMA ShiftIsBitwise ==
  ASSUME NEW v \in Vector, NEW shift \in INDEXES
  PROVE  Seen(bit_vector_shift(v, shift)) = Bits!Shift(Seen(v), shift)
<1>1. shift \in Int
  BY BitVectorAssumption
<1>2. Seen(bit_vector_shift(v, shift)) =
        [size |-> v.size, ones |-> {j \in 0..(v.size - 1) : j - shift \in Ones(v)}]
  BY <1>1, ShiftOnes, SeenIsOnes
<1>3. Seen(v) = [size |-> v.size, ones |-> Ones(v)]
  BY SeenIsOnes
<1>4. Bits!Shift(Seen(v), shift) =
        [size |-> v.size, ones |-> {j \in 0..(v.size - 1) : j - shift \in Ones(v)}]
  BY <1>3 DEF Bits!Shift, Bits!Of
<1>5. QED
  BY <1>2, <1>4

LEMMA JoinIsBitwise ==
  ASSUME NEW v \in Vector, NEW w \in Vector, v.size = w.size, NEW place \in 0..v.size
  PROVE  Seen(bit_vector_join(v, w, place)) = Bits!Join(Seen(v), Seen(w), place)
<1> DEFINE u == bit_vector_join(v, w, place)
           joined == {j \in 0..(v.size - 1) : IF j < place THEN j \in Ones(v) ELSE j \in Ones(w)}
<1>1. u.size = v.size /\ Ones(u) = joined
  BY JoinOnes
<1>2. u \in Vector
  <2>1. u \in Vector \cup {NULL}
    BY JoinMasks
  <2>2. v.size # 0
    BY VectorHas, BitVectorAssumption
  <2>3. QED
    BY <1>1, <2>1, <2>2 DEF NULL
<1> HIDE DEF u
<1>3. Seen(u) = [size |-> v.size, ones |-> joined]
  BY <1>1, <1>2, SeenIsOnes
<1>4. Seen(v) = [size |-> v.size, ones |-> Ones(v)] /\ Seen(w) = [size |-> w.size, ones |-> Ones(w)]
  BY SeenIsOnes
<1>5. Bits!Join(Seen(v), Seen(w), place) = [size |-> v.size, ones |-> joined]
  BY <1>4 DEF Bits!Join, Bits!Of
<1>6. QED
  BY <1>3, <1>5 DEF u

\* Whatever vectors the program has come to, every operation does to each bit what its
\* header promises (bit_vector.c, bit_vector.h): chunks, masks, the shifts over their
\* boundaries, indexes beyond the ends and wrapping never show.
THEOREM ChunksNeverShow == Spec => []OperationsAreBitwise
<1>1. IInv => OperationsAreBitwise
  <2> SUFFICES ASSUME IInv, NEW n \in DOMAIN vec
               PROVE  LET v == vec[n]  a == Seen(v) IN
        /\ Seen(bit_vector_not(v)) = Bits!Not(a)
        /\ \A index \in INDEXES, size \in SIZES :
             /\ Seen(bit_vector_extract_zero_ext(v, index, size)) = Bits!Extract(a, index, size)
             /\ WrapsAt(index, v.size) =>
                  Seen(bit_vector_extract_wrap_ext(v, index, size)) =
                    Bits!ExtractWrapping(a, index, size)
        /\ \A shift \in INDEXES : Seen(bit_vector_shift(v, shift)) = Bits!Shift(a, shift)
        /\ \A value \in 0..1 :
             Seen(bit_vector_create(v.size, value)) = Bits!Filled(v.size, value)
        /\ \A m \in {k \in DOMAIN vec : vec[k].size = v.size} :
             LET w == vec[m]  b == Seen(w) IN
             /\ Seen(bit_vector_and(v, w)) = Bits!And(a, b)
             /\ Seen(bit_vector_or(v, w)) = Bits!Or(a, b)
             /\ Seen(bit_vector_xor(v, w)) = Bits!Xor(a, b)
             /\ \A place \in 0..v.size :
                  Seen(bit_vector_join(v, w, place)) = Bits!Join(a, b, place)
    BY DEF OperationsAreBitwise
  <2> DEFINE v == vec[n]
             a == Seen(v)
  <2>0. v \in Vector /\ v.size \in SIZES /\ \A k \in DOMAIN vec : vec[k] \in Vector
    BY VectorHas DEF IInv
  <2> HIDE DEF v
  <2>1. Seen(bit_vector_not(v)) = Bits!Not(a)
    BY <2>0, NotIsBitwise
  <2>2. ASSUME NEW index \in INDEXES, NEW size \in SIZES
        PROVE  /\ Seen(bit_vector_extract_zero_ext(v, index, size)) = Bits!Extract(a, index, size)
               /\ WrapsAt(index, v.size) =>
                    Seen(bit_vector_extract_wrap_ext(v, index, size)) =
                      Bits!ExtractWrapping(a, index, size)
    BY <2>0, ExtractIsBitwise
  <2>3. \A shift \in INDEXES : Seen(bit_vector_shift(v, shift)) = Bits!Shift(a, shift)
    BY <2>0, ShiftIsBitwise
  <2>4. \A value \in 0..1 : Seen(bit_vector_create(v.size, value)) = Bits!Filled(v.size, value)
    BY <2>0, CreateIsBitwise
  <2>5. ASSUME NEW m \in DOMAIN vec, vec[m].size = v.size
        PROVE  /\ Seen(bit_vector_and(v, vec[m])) = Bits!And(a, Seen(vec[m]))
               /\ Seen(bit_vector_or(v, vec[m])) = Bits!Or(a, Seen(vec[m]))
               /\ Seen(bit_vector_xor(v, vec[m])) = Bits!Xor(a, Seen(vec[m]))
               /\ \A place \in 0..v.size :
                    Seen(bit_vector_join(v, vec[m], place)) = Bits!Join(a, Seen(vec[m]), place)
    BY <2>0, <2>5, CombinationsAreBitwise, JoinIsBitwise
  <2>6. QED
    BY <2>1, <2>2, <2>3, <2>4, <2>5 DEF v
<1>2. QED
  BY <1>1, InitIInv, NextIInv, PTL DEF Spec

-------------------------------------------------------------------------------
(* Image: what its functions give *)

\* A line, which may lack vectors, and one that has all of them.
Line == [Parts -> {Null} \cup SUBSET Pixels]
Full == [Parts -> SUBSET Pixels]
\* The types of the variables: a line may be left without a part, a row of the image never.
LineInv ==
  /\ lines \in [Lines -> Line]
  /\ image \in {Null} \cup [1 .. Height -> Full]
  /\ lost \in Nat

\* What a function of image.c may give, when the picture promised is a.
Honest(o, fails, a) ==
  /\ o.line \in Line /\ o.lost \in Nat
  /\ o.lost > 0 => o.err = "ERR_MEM"
  /\ o.err = "ERR_MEM" => fails # {}
  /\ Complete(o.line) => Shown(o.line) = a

\* The parts of an outcome.
LEMMA OutcomeParts ==
  ASSUME NEW code, NEW line, NEW n
  PROVE  /\ Outcome(code, line, n).err = code /\ Outcome(code, line, n).line = line
         /\ Outcome(code, line, n).lost = n
BY DEF Outcome

\* A line has all its parts when none is Null.
LEMMA CompleteIsFull ==
  ASSUME NEW l \in Line
  PROVE  Complete(l) <=> l \in Full
<1>1. Null \notin SUBSET Pixels
  BY NullAssumption
<1>2. ASSUME Complete(l) PROVE l \in Full
  <2>1. \A x \in Parts : l[x] \in SUBSET Pixels
    BY <1>2 DEF Complete, Line
  <2>2. QED
    BY <2>1 DEF Line, Full
<1>3. ASSUME l \in Full PROVE Complete(l)
  BY <1>1, <1>3 DEF Complete, Full
<1>4. QED
  BY <1>2, <1>3

\* Three vectors make a line.
LEMMA RecordIsFull ==
  ASSUME NEW a \in SUBSET Pixels, NEW b \in SUBSET Pixels, NEW c \in SUBSET Pixels
  PROVE  [lsb |-> a, msb |-> b, opacity |-> c] \in Full
BY DEF Full, Parts

\* The line without parts.
LEMMA EmptyIsLine == Empty \in Line /\ ~Complete(Empty)
<1>1. Empty \in Line /\ "msb" \in Parts /\ Empty["msb"] = Null
  BY DEF Empty, Line, Parts
<1>2. QED
  BY <1>1 DEF Complete

\* What a complete line shows is a picture.
LEMMA FullShows ==
  ASSUME NEW l \in Full
  PROVE  /\ Shown(l) = [color |-> [p \in Pixels |-> image_get_pixel(l, p)], opaque |-> l.opacity]
         /\ Shown(l) \in [color : [Pixels -> 0 .. 3], opaque : SUBSET Pixels]
         /\ Shown(l) # Null
<1>1. Complete(l) /\ l.opacity \in SUBSET Pixels
  BY CompleteIsFull, NullAssumption DEF Full, Parts, Line, Complete
<1>2. \A p \in Pixels : image_get_pixel(l, p) \in 0 .. 3
  BY DEF image_get_pixel
<1>3. QED
  BY <1>1, <1>2, NullAssumption DEF Shown

\* valid gives a line that has all its parts, or frees what there is and says so.
LEMMA ValidIsHonest ==
  ASSUME NEW line \in Line, NEW n \in Nat, NEW fails, NEW a,
         Complete(line) => Shown(line) = a,
         ~Complete(line) => fails # {},
         n > 0 => ~Complete(line)
  PROVE  Honest(valid(line, n), fails, a)
BY OutcomeParts, EmptyIsLine DEF Honest, valid

\* The functions that copy or move the three vectors.
LEMMA CreateIsHonest ==
  ASSUME NEW fails
  PROVE  Honest(image_line_create(fails), fails, Shows!Blank)
<1> DEFINE line == [x \in Parts |-> IF <<x, 0>> \in fails THEN Null ELSE {}]
<1>1. image_line_create(fails) = valid(line, 0)
  BY DEF image_line_create, do_image_line
<1>2. line \in Line
  BY DEF Line
<1>3. ~Complete(line) => fails # {}
  BY NullAssumption DEF Complete
<1>4. \A x \in Parts : line[x] \in {Null, {}}
  OBVIOUS
<1> HIDE DEF line
<1>5. ASSUME Complete(line) PROVE Shown(line) = Shows!Blank
  <2>1. line \in Full
    BY <1>2, <1>5, CompleteIsFull
  <2>2. line.msb = {} /\ line.lsb = {} /\ line.opacity = {}
    BY <1>4, <1>5 DEF Complete, Parts
  <2>3. \A p \in Pixels : image_get_pixel(line, p) = 0
    BY <2>2 DEF image_get_pixel
  <2>4. QED
    BY <2>1, <2>2, <2>3, FullShows DEF Shows!Blank, Shows!Picture, Shows!Pixels, Pixels
<1>6. QED
  BY <1>1, <1>2, <1>3, <1>5, ValidIsHonest

LEMMA ShiftIsHonest ==
  ASSUME NEW l \in Full, NEW shift \in Int, NEW fails
  PROVE  Honest(image_line_shift(l, shift, fails), fails, Shows!Shifted(Shown(l), shift))
<1> DEFINE moved(x) == {p \in Pixels : p - shift \in l[x]}
           line == [x \in Parts |-> IF <<x, 0>> \in fails THEN Null ELSE moved(x)]
<1>1. image_line_shift(l, shift, fails) = valid(line, 0)
  BY DEF image_line_shift, do_image_line
<1>2. line \in Line
  BY DEF Line
<1>3. ~Complete(line) => fails # {}
  BY NullAssumption DEF Complete
<1>4. \A x \in Parts : line[x] \in {Null, moved(x)}
  OBVIOUS
<1> HIDE DEF line
<1>5. ASSUME Complete(line) PROVE Shown(line) = Shows!Shifted(Shown(l), shift)
  <2>1. line \in Full
    BY <1>2, <1>5, CompleteIsFull
  <2>2. line.msb = moved("msb") /\ line.lsb = moved("lsb") /\ line.opacity = moved("opacity")
    BY <1>4, <1>5 DEF Complete, Parts
  <2>3. l.msb \in SUBSET Pixels /\ l.lsb \in SUBSET Pixels /\ l.opacity \in SUBSET Pixels
    BY DEF Full, Parts
  <2>4. ASSUME NEW p \in Pixels
        PROVE  image_get_pixel(line, p) =
                 IF p - shift \in Pixels THEN Shown(l).color[p - shift] ELSE 0
    <3>1. CASE p - shift \in Pixels
      BY <2>2, <3>1, FullShows DEF image_get_pixel
    <3>2. CASE p - shift \notin Pixels
      BY <2>2, <2>3, <3>2 DEF image_get_pixel
    <3>3. QED
      BY <3>1, <3>2
  <2>5. Shown(line) = [color |-> [p \in Pixels |-> IF p - shift \in Pixels THEN Shown(l).color[p - shift] ELSE 0],
                       opaque |-> {p \in Pixels : p - shift \in Shown(l).opaque}]
    BY <2>1, <2>2, <2>4, FullShows
  <2>6. QED
    BY <2>5 DEF Shows!Shifted, Shows!Picture, Shows!Pixels, Pixels
<1>6. QED
  BY <1>1, <1>2, <1>3, <1>5, ValidIsHonest

LEMMA RollIsHonest ==
  ASSUME NEW l \in Full, NEW index \in Int, NEW fails
  PROVE  Honest(image_line_extract_wrap_ext(l, index, fails), fails, Shows!Rolled(Shown(l), index))
<1> DEFINE moved(x) == {p \in Pixels : (p + index) % Width \in l[x]}
           line == [x \in Parts |-> IF <<x, 0>> \in fails THEN Null ELSE moved(x)]
<1>1. image_line_extract_wrap_ext(l, index, fails) = valid(line, 0)
  BY DEF image_line_extract_wrap_ext, do_image_line
<1>2. line \in Line
  BY DEF Line
<1>3. ~Complete(line) => fails # {}
  BY NullAssumption DEF Complete
<1>4. \A x \in Parts : line[x] \in {Null, moved(x)}
  OBVIOUS
<1> HIDE DEF line
<1>5. ASSUME Complete(line) PROVE Shown(line) = Shows!Rolled(Shown(l), index)
  <2>1. line \in Full
    BY <1>2, <1>5, CompleteIsFull
  <2>2. line.msb = moved("msb") /\ line.lsb = moved("lsb") /\ line.opacity = moved("opacity")
    BY <1>4, <1>5 DEF Complete, Parts
  <2>3. ASSUME NEW p \in Pixels
        PROVE  image_get_pixel(line, p) = Shown(l).color[(p + index) % Width]
    <3> DEFINE q == (p + index) % Width
    <3>1. q \in Pixels
      BY ImageAssumption DEF Pixels
    <3>2. (p \in line.msb <=> q \in l.msb) /\ (p \in line.lsb <=> q \in l.lsb)
      BY <2>2
    <3> HIDE DEF q
    <3>3. Shown(l).color[q] = image_get_pixel(l, q)
      BY <3>1, FullShows
    <3>4. QED
      BY <3>2, <3>3 DEF image_get_pixel, q
  <2>4. Shown(line) = [color |-> [p \in Pixels |-> Shown(l).color[(p + index) % Width]],
                       opaque |-> {p \in Pixels : (p + index) % Width \in Shown(l).opaque}]
    BY <2>1, <2>2, <2>3, FullShows
  <2>5. QED
    BY <2>4 DEF Shows!Rolled, Shows!Picture, Shows!Pixels, Pixels
<1>6. QED
  BY <1>1, <1>2, <1>3, <1>5, ValidIsHonest

\* A count of parts.
LEMMA CountOfParts ==
  ASSUME NEW S \in SUBSET Parts
  PROVE  Cardinality(S) \in Nat /\ (Cardinality(S) > 0 => S # {})
<1>1. IsFiniteSet({"lsb"}) /\ IsFiniteSet({"lsb", "msb"}) /\ IsFiniteSet(Parts)
  <2>1. IsFiniteSet({"lsb"})
    BY FS_Singleton
  <2>2. IsFiniteSet({"lsb"} \cup {"msb"})
    BY <2>1, FS_AddElement
  <2>3. IsFiniteSet(({"lsb"} \cup {"msb"}) \cup {"opacity"})
    BY <2>2, FS_AddElement
  <2>4. {"lsb"} \cup {"msb"} = {"lsb", "msb"} /\ ({"lsb"} \cup {"msb"}) \cup {"opacity"} = Parts
    BY DEF Parts
  <2>5. QED
    BY <2>1, <2>2, <2>3, <2>4
<1>2. IsFiniteSet(S)
  BY <1>1, FS_Subset
<1>3. QED
  BY <1>2, FS_CardinalityType, FS_EmptySet

\* A join of two lines: each vector is a union under complementary masks.
LEMMA JoinIsHonest ==
  ASSUME NEW l \in Full, NEW k \in Full, NEW start \in Pixels, NEW fails
  PROVE  Honest(image_line_join(l, k, start, fails), fails, Shows!Joined(Shown(l), Shown(k), start))
<1> DEFINE first == 0 .. start - 1
           mask1(x) == IF <<x, 1>> \in fails THEN Null ELSE first
           mask2(x) == IF <<x, 2>> \in fails THEN Null ELSE Pixels \ first
           joined(x) == or(and(mask1(x), l[x]), and(mask2(x), k[x]))
           meant(x) == {p \in Pixels : p \in IF p < start THEN l[x] ELSE k[x]}
           promise == Shows!Joined(Shown(l), Shown(k), start)
           copied == [x \in Parts |-> IF <<x, 0>> \in fails THEN Null ELSE k[x]]
           line == [x \in Parts |-> joined(x)]
           dropped == {x \in Parts : Dropped(mask1(x), mask2(x))}
<1>1. /\ start = 0 => image_line_join(l, k, start, fails) = valid(copied, 0)
      /\ start # 0 => image_line_join(l, k, start, fails) = valid(line, Cardinality(dropped))
  BY DEF image_line_join, do_image_line
<1>2. /\ \A x \in Parts : l[x] \in SUBSET Pixels /\ k[x] \in SUBSET Pixels /\ l[x] # Null /\ k[x] # Null
      /\ first \in SUBSET Pixels /\ first # Null /\ Pixels \ first # Null
  <2>1. first \in SUBSET Pixels
    BY ImageAssumption DEF Pixels
  <2>2. QED
    BY <2>1, NullAssumption DEF Full
<1>3. ASSUME NEW x \in Parts PROVE joined(x) \in {Null, meant(x)} /\ (fails = {} => joined(x) # Null)
  <2>1. first \cap l[x] = {p \in Pixels : p < start /\ p \in l[x]}
    BY <1>2 DEF Pixels
  <2>2. (Pixels \ first) \cap k[x] = {p \in Pixels : ~(p < start) /\ p \in k[x]}
    BY <1>2 DEF Pixels
  <2> HIDE DEF first
  <2>3. (first \cap l[x]) \cup ((Pixels \ first) \cap k[x]) = meant(x)
    BY <2>1, <2>2
  <2>4. first \cap l[x] # Null /\ (Pixels \ first) \cap k[x] # Null /\ meant(x) # Null
    BY <1>2, NullAssumption
  <2>5. QED
    BY <1>2, <2>3, <2>4 DEF or, and
<1>4. /\ \A x \in Parts : k[x] \in SUBSET Pixels /\ k[x] # Null /\ copied[x] \in {Null, k[x]}
      /\ fails = {} => \A x \in Parts : copied[x] # Null
      /\ copied \in Line
  BY <1>2 DEF Line
<1>5. line \in Line /\ \A x \in Parts : line[x] = joined(x)
  <2>1. \A x \in Parts : meant(x) \in SUBSET Pixels
    OBVIOUS
  <2> HIDE DEF joined, meant
  <2>2. QED
    BY <1>3, <2>1 DEF Line
<1>6. /\ Cardinality(dropped) \in Nat
      /\ Cardinality(dropped) > 0 => \E x \in Parts : joined(x) = Null
  <2>1. \A x \in dropped : joined(x) = Null
    BY DEF Dropped, or, and
  <2>2. dropped \in SUBSET Parts
    OBVIOUS
  <2> HIDE DEF dropped
  <2>3. QED
    BY <2>1, <2>2, CountOfParts
<1> DEFINE lostBefore == Cardinality(dropped)
<1> HIDE DEF joined, copied, line, dropped, lostBefore
<1>7. ASSUME NEW r \in Full, \A x \in Parts : r[x] = meant(x) PROVE Shown(r) = promise
  <2>1. r.msb = meant("msb") /\ r.lsb = meant("lsb") /\ r.opacity = meant("opacity")
    BY <1>7 DEF Parts
  <2>2. ASSUME NEW p \in Pixels
        PROVE  image_get_pixel(r, p) = IF p < start THEN Shown(l).color[p] ELSE Shown(k).color[p]
    BY <2>1, FullShows DEF image_get_pixel
  <2>3. Shown(r) = [color |-> [p \in Pixels |-> IF p < start THEN Shown(l).color[p] ELSE Shown(k).color[p]],
                    opaque |-> {p \in Pixels : p \in IF p < start THEN Shown(l).opaque ELSE Shown(k).opaque}]
    BY <2>1, <2>2, FullShows
  <2>4. QED
    BY <2>3 DEF Shows!Joined, Shows!Picture, Shows!Pixels, Pixels
<1>8. CASE start = 0
  <2>1. \A x \in Parts : meant(x) = k[x]
    BY <1>2, <1>8 DEF Pixels
  <2> HIDE DEF meant, promise
  <2>2. Complete(copied) => copied \in Full /\ \A x \in Parts : copied[x] = meant(x)
    BY <1>4, <2>1, CompleteIsFull DEF Complete
  <2>3. ~Complete(copied) => fails # {}
    BY <1>4 DEF Complete
  <2>4. Honest(valid(copied, 0), fails, promise)
    BY <1>4, <1>7, <2>2, <2>3, ValidIsHonest
  <2>5. QED
    BY <1>1, <1>8, <2>4 DEF promise
<1>9. CASE start # 0
  <2> HIDE DEF meant, promise
  <2>1. Complete(line) => line \in Full /\ \A x \in Parts : line[x] = meant(x)
    BY <1>3, <1>5, CompleteIsFull DEF Complete
  <2>2. ~Complete(line) => fails # {}
    BY <1>3, <1>5 DEF Complete
  <2>3. lostBefore \in Nat /\ (lostBefore > 0 => ~Complete(line))
    BY <1>5, <1>6 DEF Complete, lostBefore
  <2>4. Honest(valid(line, lostBefore), fails, promise)
    BY <1>5, <1>7, <2>1, <2>2, <2>3, ValidIsHonest
  <2>5. QED
    BY <1>1, <1>9, <2>4 DEF promise, lostBefore
<1>10. QED
  BY <1>8, <1>9

\* One line under another: halves under complementary masks, merged.
LEMMA StackIsHonest ==
  ASSUME NEW l \in Full, NEW k \in Full, NEW mask_of \in SUBSET Pixels, NEW fails
  PROVE  Honest(image_line_below_with_opacity(l, k, mask_of, fails), fails,
                Shows!Stacked(Shown(l), Shown(k), mask_of))
<1> DEFINE notopacity == not(IF <<"opacity", 1>> \in fails THEN Null ELSE mask_of)
           above(x) == and(Copy(k, x, 2, fails), mask_of)
           below(x) == and(Copy(l, x, 3, fails), notopacity)
           halves == {"msb", "lsb"}
           merged(x) == IF x = "opacity" THEN or(Copy(l, x, 4, fails), mask_of) ELSE or(below(x), above(x))
           gone == {x \in halves : Dropped(Copy(l, x, 3, fails), notopacity)}
           bad == notopacity = Null \/ \E x \in halves : Null \in {above(x), below(x)}
           line == [x \in Parts |-> merged(x)]
           half(x) == (l[x] \cap (Pixels \ mask_of)) \cup (k[x] \cap mask_of)
           promise == Shows!Stacked(Shown(l), Shown(k), mask_of)
           o == image_line_below_with_opacity(l, k, mask_of, fails)
<1>1. /\ bad => o = Outcome("ERR_MEM", Empty, Cardinality(gone))
      /\ ~bad => o = Outcome("ERR_NONE", line, 0)
  BY DEF image_line_below_with_opacity
<1>2. /\ \A x \in Parts : l[x] \in SUBSET Pixels /\ k[x] \in SUBSET Pixels /\ l[x] # Null /\ k[x] # Null
      /\ mask_of # Null
      /\ \A x \in Parts : \A n : Copy(l, x, n, fails) \in {l[x], Null} /\ Copy(k, x, n, fails) \in {k[x], Null}
      /\ fails = {} => \A x \in Parts : \A n : Copy(l, x, n, fails) # Null /\ Copy(k, x, n, fails) # Null
  BY NullAssumption DEF Full, Copy
<1>3. /\ notopacity \in {Null, Pixels \ mask_of} /\ Pixels \ mask_of # Null
      /\ fails = {} => notopacity # Null
  BY <1>2, NullAssumption DEF not
<1> HIDE DEF notopacity
<1>4. ASSUME NEW x \in halves
      PROVE  /\ x \in Parts
             /\ above(x) \in {Null, k[x] \cap mask_of}
             /\ below(x) \in {Null, l[x] \cap (Pixels \ mask_of)}
             /\ fails = {} => above(x) # Null /\ below(x) # Null
  <2>1. x \in Parts
    BY DEF Parts
  <2>2. k[x] \cap mask_of # Null /\ l[x] \cap (Pixels \ mask_of) # Null
    BY <2>1, <1>2, NullAssumption
  <2>3. QED
    BY <2>1, <2>2, <1>2, <1>3 DEF and
<1>5. bad => fails # {}
  BY <1>3, <1>4
<1> HIDE DEF above, below
<1>6. ~bad => \A x \in halves : merged(x) = half(x)
  <2>1. "opacity" \notin halves
    OBVIOUS
  <2> HIDE DEF halves
  <2>2. ASSUME ~bad, NEW x \in halves PROVE merged(x) = half(x)
    <3>1. above(x) # Null /\ below(x) # Null
      BY <2>2
    <3>2. QED
      BY <3>1, <2>1, <1>4 DEF or
  <2>3. QED
    BY <2>2
<1>7. merged("opacity") \in {Null, l.opacity \cup mask_of}
  BY <1>2 DEF or, Parts
<1>8. Cardinality(gone) \in Nat
  <2>1. gone \in SUBSET Parts
    BY DEF Parts
  <2> HIDE DEF gone
  <2>2. QED
    BY <2>1, CountOfParts
<1> DEFINE goneBy == Cardinality(gone)
<1> HIDE DEF gone, goneBy, bad, merged
<1>9. ~bad => line \in Line
  <2>1. half("msb") \in SUBSET Pixels /\ half("lsb") \in SUBSET Pixels /\ l.opacity \cup mask_of \in SUBSET Pixels
    BY <1>2 DEF Parts
  <2>2. ASSUME ~bad, NEW x \in Parts PROVE merged(x) \in {Null} \cup SUBSET Pixels
    BY <2>1, <2>2, <1>6, <1>7 DEF Parts
  <2>3. QED
    BY <2>2 DEF Line
<1>10. /\ line.msb = merged("msb") /\ line.lsb = merged("lsb") /\ line.opacity = merged("opacity")
       /\ Complete(line) => line.opacity # Null
  BY DEF Parts, Complete
<1> HIDE DEF line
<1>11. ASSUME ~bad, Complete(line) PROVE Shown(line) = promise
  <2>1. line \in Full
    BY <1>9, <1>11, CompleteIsFull
  <2>2. /\ line.msb = half("msb") /\ line.lsb = half("lsb")
        /\ line.opacity = l.opacity \cup mask_of
    BY <1>6, <1>7, <1>10, <1>11
  <2>3. ASSUME NEW p \in Pixels
        PROVE  image_get_pixel(line, p) = IF p \in mask_of THEN Shown(k).color[p] ELSE Shown(l).color[p]
    BY <2>2, FullShows DEF image_get_pixel
  <2>4. Shown(line) = [color |-> [p \in Pixels |-> IF p \in mask_of THEN Shown(k).color[p] ELSE Shown(l).color[p]],
                       opaque |-> Shown(l).opaque \cup mask_of]
    BY <2>1, <2>2, <2>3, FullShows
  <2>5. QED
    BY <2>4 DEF Shows!Stacked, Shows!Picture, Shows!Pixels, Pixels
<1> HIDE DEF promise, o
<1>12. CASE bad
  <2>1. o = Outcome("ERR_MEM", Empty, goneBy) /\ goneBy \in Nat
    BY <1>1, <1>8, <1>12 DEF goneBy
  <2>2. Honest(o, fails, promise)
    BY <2>1, <1>5, <1>12, OutcomeParts, EmptyIsLine DEF Honest
  <2>3. QED
    BY <2>2 DEF o, promise
<1>13. CASE ~bad
  <2>1. o = Outcome("ERR_NONE", line, 0)
    BY <1>1, <1>13
  <2>2. Honest(o, fails, promise)
    BY <2>1, <1>9, <1>11, <1>13, OutcomeParts DEF Honest
  <2>3. QED
    BY <2>2 DEF o, promise
<1>14. QED
  BY <1>12, <1>13

\* The masks of the colors: the pixels of color i, or Null.
LEMMA MaskIsColor ==
  ASSUME NEW l \in Full, NEW i \in 0 .. 3, NEW fails
  PROVE  /\ mask(l, i, fails) \in {Null, {p \in Pixels : image_get_pixel(l, p) = i}}
         /\ fails = {} => mask(l, i, fails) # Null
<1> DEFINE of == {p \in Pixels : image_get_pixel(l, p) = i}
<1>1. /\ l.msb \in SUBSET Pixels /\ l.lsb \in SUBSET Pixels /\ l.msb # Null /\ l.lsb # Null
      /\ \A S \in SUBSET Pixels : S # Null
  BY NullAssumption DEF Full, Parts
<1>2. ASSUME NEW x \in {"msb", "lsb"}, NEW n
      PROVE  /\ Copy(l, x, n, fails) \in {Null, l[x]}
             /\ not(Copy(l, x, n, fails)) \in {Null, Pixels \ l[x]}
             /\ fails = {} => Copy(l, x, n, fails) # Null /\ not(Copy(l, x, n, fails)) # Null
  BY <1>1 DEF Copy, not
<1>3. ASSUME NEW u, NEW v, NEW A \in SUBSET Pixels, NEW B \in SUBSET Pixels,
             u \in {Null, A}, v \in {Null, B}, A \cap B = of
      PROVE  and(u, v) \in {Null, of} /\ (u # Null /\ v # Null => and(u, v) # Null)
  BY <1>1, <1>3 DEF and
<1>4. /\ i = 0 => (Pixels \ l.msb) \cap (Pixels \ l.lsb) = of
      /\ i = 1 => (Pixels \ l.msb) \cap l.lsb = of
      /\ i = 2 => (Pixels \ l.lsb) \cap l.msb = of
      /\ i = 3 => l.lsb \cap l.msb = of
  BY <1>1 DEF image_get_pixel
<1> HIDE DEF of
<1>5. CASE i = 0
  <2> DEFINE u == not(Copy(l, "msb", 1, fails))
             v == not(Copy(l, "lsb", 1, fails))
  <2>1. mask(l, i, fails) = and(u, v)
    BY <1>5 DEF mask
  <2>2. /\ u \in {Null, Pixels \ l.msb} /\ v \in {Null, Pixels \ l.lsb}
        /\ Pixels \ l.msb \in SUBSET Pixels /\ Pixels \ l.lsb \in SUBSET Pixels
        /\ fails = {} => u # Null /\ v # Null
    BY <1>1, <1>2
  <2> HIDE DEF u, v
  <2>3. (Pixels \ l.msb) \cap (Pixels \ l.lsb) = of
    BY <1>4, <1>5
  <2>4. QED
    BY <2>1, <2>2, <2>3, <1>3 DEF of
<1>6. CASE i = 1
  <2> DEFINE u == not(Copy(l, "msb", 2, fails))
             v == l.lsb
  <2>1. mask(l, i, fails) = and(u, v)
    BY <1>6 DEF mask
  <2>2. /\ u \in {Null, Pixels \ l.msb} /\ v \in {Null, l.lsb}
        /\ Pixels \ l.msb \in SUBSET Pixels /\ l.lsb \in SUBSET Pixels
        /\ fails = {} => u # Null /\ v # Null
    BY <1>1, <1>2
  <2> HIDE DEF u, v
  <2>3. (Pixels \ l.msb) \cap (l.lsb) = of
    BY <1>4, <1>6
  <2>4. QED
    BY <2>1, <2>2, <2>3, <1>3 DEF of
<1>7. CASE i = 2
  <2> DEFINE u == not(Copy(l, "lsb", 3, fails))
             v == l.msb
  <2>1. mask(l, i, fails) = and(u, v)
    BY <1>7 DEF mask
  <2>2. /\ u \in {Null, Pixels \ l.lsb} /\ v \in {Null, l.msb}
        /\ Pixels \ l.lsb \in SUBSET Pixels /\ l.msb \in SUBSET Pixels
        /\ fails = {} => u # Null /\ v # Null
    BY <1>1, <1>2
  <2> HIDE DEF u, v
  <2>3. (Pixels \ l.lsb) \cap (l.msb) = of
    BY <1>4, <1>7
  <2>4. QED
    BY <2>1, <2>2, <2>3, <1>3 DEF of
<1>8. CASE i = 3
  <2> DEFINE u == Copy(l, "lsb", 4, fails)
             v == l.msb
  <2>1. mask(l, i, fails) = and(u, v)
    BY <1>8 DEF mask
  <2>2. /\ u \in {Null, l.lsb} /\ v \in {Null, l.msb}
        /\ l.lsb \in SUBSET Pixels /\ l.msb \in SUBSET Pixels
        /\ fails = {} => u # Null /\ v # Null
    BY <1>1, <1>2
  <2> HIDE DEF u, v
  <2>3. (l.lsb) \cap (l.msb) = of
    BY <1>4, <1>8
  <2>4. QED
    BY <2>1, <2>2, <2>3, <1>3 DEF of
<1>9. QED
  BY <1>5, <1>6, <1>7, <1>8

\* The pixels of the colors below n that become odd, and that become 2 or 3.
Odd(l, map, n) == {p \in Pixels : image_get_pixel(l, p) < n /\ map[image_get_pixel(l, p) + 1] % 2 = 1}
High(l, map, n) == {p \in Pixels : image_get_pixel(l, p) < n /\ map[image_get_pixel(l, p) + 1] > 1}

\* What is there after n rounds of the loop over the colors.
Rounds(done, l, map, n, fails) ==
  /\ done.line \in Line /\ done.lost \in Nat /\ done.err \in {"ERR_NONE", "ERR_MEM"}
  /\ done.err = "ERR_MEM" => fails # {} /\ ~Complete(done.line)
  /\ done.err = "ERR_NONE" =>
       /\ done.lost = 0
       /\ done.line.lsb \in {Null, Odd(l, map, n)} /\ done.line.msb \in {Null, High(l, map, n)}
       /\ done.line.opacity \in {Null, l.opacity}
       /\ fails = {} => Complete(done.line)

\* One round of the loop.
LEMMA RoundsGoOn ==
  ASSUME NEW l \in Full, NEW map \in [1 .. 4 -> 0 .. 3], NEW fails, NEW n \in 0 .. 3, NEW done,
         Rounds(done, l, map, n, fails)
  PROVE  Rounds(MapColor(done, l, map, n, fails), l, map, n + 1, fails)
<1> DEFINE color == map[n + 1]
           chosen == mask(l, n, fails)
           lsb == IF color % 2 = 1 THEN or(done.line.lsb, chosen) ELSE done.line.lsb
           msb == IF color > 1 THEN or(done.line.msb, chosen) ELSE done.line.msb
           fresh == [done.line EXCEPT !.lsb = lsb, !.msb = msb]
           o == MapColor(done, l, map, n, fails)
           of == {p \in Pixels : image_get_pixel(l, p) = n}
<1>1. color \in 0 .. 3
  OBVIOUS
<1>2. \A p \in Pixels : image_get_pixel(l, p) \in 0 .. 3
  BY DEF image_get_pixel
<1>3. /\ Odd(l, map, n + 1) = IF color % 2 = 1 THEN Odd(l, map, n) \cup of ELSE Odd(l, map, n)
      /\ High(l, map, n + 1) = IF color > 1 THEN High(l, map, n) \cup of ELSE High(l, map, n)
  <2>1. ASSUME NEW p \in Pixels
        PROVE  p \in Odd(l, map, n + 1) <=> p \in IF color % 2 = 1 THEN Odd(l, map, n) \cup of ELSE Odd(l, map, n)
    BY <1>1, <1>2 DEF Odd
  <2>2. ASSUME NEW p \in Pixels
        PROVE  p \in High(l, map, n + 1) <=> p \in IF color > 1 THEN High(l, map, n) \cup of ELSE High(l, map, n)
    BY <1>1, <1>2 DEF High
  <2>3. QED
    BY <2>1, <2>2 DEF Odd, High
<1>4. chosen \in {Null, of} /\ (fails = {} => chosen # Null)
  BY MaskIsColor
<1>5. /\ Odd(l, map, n) \in SUBSET Pixels /\ High(l, map, n) \in SUBSET Pixels /\ of \in SUBSET Pixels
      /\ \A S \in SUBSET Pixels : S # Null
  BY NullAssumption DEF Odd, High
<1>6. /\ done.err # "ERR_NONE" \/ color = 0 => o = done
      /\ done.err = "ERR_NONE" /\ color # 0 /\ chosen = Null => o = Outcome("ERR_MEM", Empty, 0)
      /\ done.err = "ERR_NONE" /\ color # 0 /\ chosen # Null =>
           o = IF (color % 2 = 1 /\ lsb = Null) \/ (color > 1 /\ msb = Null)
               THEN Outcome("ERR_MEM", Empty, 1) ELSE Outcome("ERR_NONE", fresh, 0)
  <2>1. o = CASE done.err # "ERR_NONE" \/ color = 0 -> done
              [] done.err = "ERR_NONE" /\ color # 0 /\ chosen = Null -> Outcome("ERR_MEM", Empty, 0)
              [] OTHER ->
                   IF (color % 2 = 1 /\ lsb = Null) \/ (color > 1 /\ msb = Null)
                   THEN Outcome("ERR_MEM", Empty, 1) ELSE Outcome("ERR_NONE", fresh, 0)
    BY DEF MapColor
  <2> HIDE DEF o, fresh, lsb, msb, chosen, color
  <2>2. QED
    BY <2>1
<1> HIDE DEF chosen, o, of
<1>7. CASE done.err # "ERR_NONE" \/ color = 0
  <2>1. color = 0 => Odd(l, map, n + 1) = Odd(l, map, n) /\ High(l, map, n + 1) = High(l, map, n)
    BY <1>3
  <2>2. o = done
    BY <1>6, <1>7
  <2>3. QED
    BY <1>7, <2>1, <2>2 DEF Rounds, o
<1>8. CASE done.err = "ERR_NONE" /\ color # 0 /\ chosen = Null
  <2>1. o = Outcome("ERR_MEM", Empty, 0) /\ fails # {}
    BY <1>4, <1>6, <1>8
  <2>2. QED
    BY <2>1, OutcomeParts, EmptyIsLine DEF Rounds, o
<1>9. CASE done.err = "ERR_NONE" /\ color # 0 /\ chosen # Null
  <2>1. chosen = of /\ color \in 1 .. 3
    BY <1>1, <1>4, <1>9
  <2>2. /\ done.line \in Line /\ done.line.lsb \in {Null, Odd(l, map, n)}
        /\ done.line.msb \in {Null, High(l, map, n)} /\ done.line.opacity \in {Null, l.opacity}
        /\ fails = {} => done.line.lsb # Null /\ done.line.msb # Null /\ done.line.opacity # Null
    BY <1>9 DEF Rounds, Complete, Parts
  <2>3. /\ lsb \in {Null, Odd(l, map, n + 1)} /\ (fails = {} => lsb # Null)
        /\ msb \in {Null, High(l, map, n + 1)} /\ (fails = {} => msb # Null)
    BY <2>1, <2>2, <1>3, <1>5 DEF or
  <2>4. Odd(l, map, n + 1) \in SUBSET Pixels /\ High(l, map, n + 1) \in SUBSET Pixels
    BY DEF Odd, High
  <2> HIDE DEF lsb, msb
  <2>5. /\ fresh \in Line /\ fresh.lsb = lsb /\ fresh.msb = msb /\ fresh.opacity = done.line.opacity
    BY <2>2, <2>3, <2>4 DEF Line, Parts
  <2> HIDE DEF fresh
  <2>6. fails = {} => Complete(fresh)
    BY <2>2, <2>3, <2>5 DEF Complete, Parts
  <2>7. CASE (color % 2 = 1 /\ lsb = Null) \/ (color > 1 /\ msb = Null)
    <3>1. o = Outcome("ERR_MEM", Empty, 1) /\ fails # {}
      BY <2>3, <2>7, <1>6, <1>9
    <3>2. QED
      BY <3>1, OutcomeParts, EmptyIsLine DEF Rounds, o
  <2>8. CASE ~((color % 2 = 1 /\ lsb = Null) \/ (color > 1 /\ msb = Null))
    <3>1. o = Outcome("ERR_NONE", fresh, 0)
      BY <2>8, <1>6, <1>9
    <3>2. QED
      BY <3>1, <2>2, <2>3, <2>5, <2>6, OutcomeParts DEF Rounds, o
  <2>9. QED
    BY <2>7, <2>8
<1>10. QED
  BY <1>7, <1>8, <1>9

\* After four rounds every color has been replaced; the default palette replaces none.
LEMMA RecolorIsHonest ==
  ASSUME NEW l \in Full, NEW map \in [1 .. 4 -> 0 .. 3], NEW fails
  PROVE  Honest(image_line_map_colors(l, map, fails), fails, Shows!Recolored(Shown(l), map))
<1> DEFINE o == image_line_map_colors(l, map, fails)
           promise == Shows!Recolored(Shown(l), map)
           copied == [x \in Parts |-> IF <<x, 0>> \in fails THEN Null ELSE l[x]]
           black == [x \in Parts |-> IF <<x, 0>> \in fails THEN Null
                                     ELSE IF x = "opacity" THEN l[x] ELSE {}]
           R0 == Outcome("ERR_NONE", black, 0)
           R1 == MapColor(R0, l, map, 0, fails)
           R2 == MapColor(R1, l, map, 1, fails)
           R3 == MapColor(R2, l, map, 2, fails)
           R4 == MapColor(R3, l, map, 3, fails)
           at(p) == image_get_pixel(l, p)
<1>1. /\ map = DEFAULT_PALETTE => o = Outcome("ERR_NONE", copied, 0)
      /\ map # DEFAULT_PALETTE => o = R4
  BY DEF image_line_map_colors, do_image_line
<1>2. /\ l.msb \in SUBSET Pixels /\ l.lsb \in SUBSET Pixels /\ l.opacity \in SUBSET Pixels
      /\ \A S \in SUBSET Pixels : S # Null
      /\ \A p \in Pixels : at(p) \in 0 .. 3 /\ Shown(l).color[p] = at(p)
      /\ Shown(l).opaque = l.opacity
  BY NullAssumption, FullShows DEF Full, Parts, image_get_pixel
<1>3. ASSUME NEW r \in Full, r.opacity = l.opacity,
             \A p \in Pixels : image_get_pixel(r, p) = map[at(p) + 1]
      PROVE  Shown(r) = promise
  <2>1. Shown(r) = [color |-> [p \in Pixels |-> map[Shown(l).color[p] + 1]], opaque |-> Shown(l).opaque]
    BY <1>2, <1>3, FullShows
  <2>2. QED
    BY <2>1 DEF Shows!Recolored, Shows!Picture, Shows!Pixels, Pixels
<1>4. CASE map = DEFAULT_PALETTE
  <2>1. copied \in Line /\ \A x \in Parts : copied[x] \in {Null, l[x]}
    BY DEF Line, Full
  <2> HIDE DEF copied
  <2>2. ASSUME Complete(copied) PROVE Shown(copied) = promise
    <3>1. copied \in Full /\ \A x \in Parts : copied[x] = l[x]
      BY <2>1, <2>2, CompleteIsFull DEF Complete
    <3>2. copied.opacity = l.opacity /\ copied.msb = l.msb /\ copied.lsb = l.lsb
      BY <3>1 DEF Parts
    <3>3. \A c \in 0 .. 3 : map[c + 1] = c
      BY <1>4 DEF DEFAULT_PALETTE
    <3>4. \A p \in Pixels : image_get_pixel(copied, p) = map[at(p) + 1]
      BY <1>2, <3>2, <3>3 DEF image_get_pixel
    <3>5. QED
      BY <3>1, <3>2, <3>4, <1>3
  <2>3. QED
    BY <2>1, <2>2, <1>1, <1>4, OutcomeParts DEF Honest
<1>5. CASE map # DEFAULT_PALETTE
  <2>1. /\ black \in Line /\ black.lsb \in {Null, {}} /\ black.msb \in {Null, {}}
        /\ black.opacity \in {Null, l.opacity}
        /\ fails = {} => Complete(black)
    BY <1>2 DEF Line, Parts, Complete
  <2> HIDE DEF black
  <2>2. Odd(l, map, 0) = {} /\ High(l, map, 0) = {}
    BY <1>2 DEF Odd, High
  <2>3. Rounds(R0, l, map, 0, fails)
    <3>1. R0.err = "ERR_NONE" /\ R0.line = black /\ R0.lost = 0
      BY OutcomeParts
    <3> HIDE DEF R0
    <3>2. QED
      BY <2>1, <2>2, <3>1 DEF Rounds
  <2> HIDE DEF R0
  <2>4. Rounds(R1, l, map, 0 + 1, fails)
    BY <2>3, RoundsGoOn
  <2> HIDE DEF R1
  <2>5. Rounds(R2, l, map, 1 + 1, fails)
    BY <2>4, RoundsGoOn
  <2> HIDE DEF R2
  <2>6. Rounds(R3, l, map, 2 + 1, fails)
    BY <2>5, RoundsGoOn
  <2> HIDE DEF R3
  <2>7. Rounds(R4, l, map, 3 + 1, fails)
    BY <2>6, RoundsGoOn
  <2>8. Rounds(o, l, map, 4, fails)
    BY <2>7, <1>1, <1>5
  <2> HIDE DEF o, R4
  <2>9. ASSUME Complete(o.line) PROVE Shown(o.line) = promise
    <3>1. o.line \in Full /\ o.err = "ERR_NONE"
      BY <2>8, <2>9, CompleteIsFull DEF Rounds
    <3>2. /\ o.line.lsb = Odd(l, map, 4) /\ o.line.msb = High(l, map, 4)
          /\ o.line.opacity = l.opacity
      BY <2>8, <2>9, <3>1 DEF Rounds, Complete, Parts
    <3>3. \A c \in 0 .. 3 : (IF c > 1 THEN 2 ELSE 0) + (IF c % 2 = 1 THEN 1 ELSE 0) = c
      OBVIOUS
    <3>4. ASSUME NEW p \in Pixels PROVE image_get_pixel(o.line, p) = map[at(p) + 1]
      <4>1. map[at(p) + 1] \in 0 .. 3 /\ at(p) < 4
        BY <1>2
      <4>2. (p \in o.line.msb <=> map[at(p) + 1] > 1) /\ (p \in o.line.lsb <=> map[at(p) + 1] % 2 = 1)
        BY <3>2, <4>1 DEF Odd, High
      <4>3. QED
        BY <4>1, <4>2, <3>3 DEF image_get_pixel
    <3>5. QED
      BY <3>1, <3>2, <3>4, <1>3
  <2>10. QED
    BY <2>8, <2>9 DEF Rounds, Honest, o
<1>6. QED
  BY <1>4, <1>5

-------------------------------------------------------------------------------
(* Image: its steps *)

ShownLines == [l \in Lines |-> Shown(lines[l])]
ShownScreen == IF image = Null THEN Null ELSE [y \in 1 .. Height |-> Shown(image[y]).color]
\* A step as LossIsReported has it.
Reported == (lost' > lost => err' = "ERR_MEM") /\ (err' = "ERR_MEM" => short')
Promised == [Shows!Next]_<<ShownLines, ShownScreen>>

\* A line that is not complete shows nothing.
LEMMA ShownIfComplete ==
  ASSUME NEW l \in Line
  PROVE  /\ ~Complete(l) => Shown(l) = Null
         /\ Complete(l) => l \in Full /\ Shown(l) # Null
BY CompleteIsFull, FullShows DEF Shown

\* What shows changes with the line, and only there.
LEMMA OneLineChanges ==
  ASSUME lines \in [Lines -> Line], NEW l \in Lines, NEW r \in Line,
         lines' = [lines EXCEPT ![l] = r]
  PROVE  /\ ShownLines' = [ShownLines EXCEPT ![l] = Shown(r)]
         /\ lines' \in [Lines -> Line]
BY DEF ShownLines

\* The steps of Picture, in what the lines and the image show.
LEMMA MakeStep ==
  ASSUME NEW l \in Lines, NEW a, ShownLines[l] = Null, Shows!Made(a),
         ShownLines' = [ShownLines EXCEPT ![l] = a], ShownScreen' = ShownScreen
  PROVE  Shows!Next
<1>1. ShownLines'[l] = a
  BY DEF ShownLines
<1>2. Shows!Make(l)
  BY <1>1 DEF Shows!Make, Shows!Becomes, ShownLines, ShownScreen
<1>3. QED
  BY <1>2 DEF Shows!Next

LEMMA PaintStep ==
  ASSUME NEW l \in Lines, NEW colors, ShownLines[l] # Null, asked' = <<"set_word", l, colors>>,
         ShownLines' = [ShownLines EXCEPT ![l] = Shows!Painted(ShownLines[l], colors)],
         ShownScreen' = ShownScreen
  PROVE  Shows!Next
<1>1. asked'[1] = "set_word" /\ asked'[2] = l /\ asked'[3] = colors
  OBVIOUS
<1>2. l \in Shows!There
  BY DEF Shows!There, ShownLines
<1>3. Shows!Becomes(l, Shows!Painted(ShownLines[l], asked'[3]))
  BY <1>1 DEF Shows!Becomes, ShownLines, ShownScreen
<1>4. Shows!Paint(l)
  BY <1>1, <1>2, <1>3 DEF Shows!Paint, ShownLines
<1>5. QED
  BY <1>4 DEF Shows!Next

LEMMA DropStep ==
  ASSUME NEW l \in Lines, asked' = <<"free", l>>,
         ShownLines' = [ShownLines EXCEPT ![l] = Null], ShownScreen' = ShownScreen
  PROVE  Shows!Next
<1>1. Shows!Drop(l)
  BY DEF Shows!Drop, Shows!Becomes, ShownLines, ShownScreen
<1>2. QED
  BY <1>1 DEF Shows!Next

LEMMA PutStep ==
  ASSUME NEW l \in Lines, NEW y \in 1 .. Height, ShownLines[l] # Null, ShownScreen # Null,
         \/ asked' = <<"set_line", l, y>> /\ ShownLines' = ShownLines
         \/ asked' = <<"own_line", l, y>> /\ ShownLines' = [ShownLines EXCEPT ![l] = Null],
         ShownScreen' = [ShownScreen EXCEPT ![y] = ShownLines[l].color]
  PROVE  Shows!Next
<1>1. Shows!Put(l, y)
  BY DEF Shows!Put, Shows!There, ShownLines, ShownScreen
<1>2. QED
  BY <1>1 DEF Shows!Next

\* A call that makes a line, when its function is honest about the picture a.
LEMMA MakesShows ==
  ASSUME LineInv, NEW out \in Lines, NEW what, NEW needs \in SUBSET Lines, NEW fails,
         NEW outcome, NEW a,
         (\A l \in needs : Complete(lines[l])) => Honest(outcome, fails, a) /\ Shows!Made(a),
         Makes(out, what, needs, fails, outcome)
  PROVE  LineInv' /\ Reported /\ Promised
<1> DEFINE done == IF \A l \in needs : Complete(lines[l]) THEN outcome
                   ELSE Outcome("ERR_BAD_PARAMETER", Empty, 0)
<1>1. /\ lines[out] = Empty /\ lines' = [lines EXCEPT ![out] = done.line]
      /\ err' = done.err /\ short' = (fails # {}) /\ lost' = lost + done.lost
      /\ image' = image
  BY DEF Makes, Called
<1>2. /\ done.line \in Line /\ done.lost \in Nat
      /\ done.lost > 0 => done.err = "ERR_MEM"
      /\ done.err = "ERR_MEM" => fails # {}
      /\ Complete(done.line) => Shown(done.line) = a /\ Shows!Made(a)
  BY OutcomeParts, EmptyIsLine DEF Honest
<1> HIDE DEF done
<1>3. LineInv' /\ Reported
  <2>1. lines' \in [Lines -> Line]
    BY <1>1, <1>2 DEF LineInv
  <2>2. lost' \in Nat /\ (lost' > lost => done.lost > 0)
    BY <1>1, <1>2 DEF LineInv
  <2>3. QED
    BY <2>1, <2>2, <1>1, <1>2 DEF LineInv, Reported
<1>4. ShownLines[out] = Null /\ ShownScreen' = ShownScreen
  BY <1>1, EmptyIsLine, ShownIfComplete DEF ShownLines, ShownScreen
<1>5. ShownLines' = [ShownLines EXCEPT ![out] = Shown(done.line)]
  BY <1>1, <1>2, OneLineChanges DEF LineInv
<1>6. CASE Complete(done.line)
  BY <1>2, <1>3, <1>4, <1>5, <1>6, MakeStep DEF Promised
<1>7. CASE ~Complete(done.line)
  <2>1. ShownLines' = ShownLines
    BY <1>2, <1>4, <1>5, <1>7, ShownIfComplete DEF ShownLines
  <2>2. QED
    BY <2>1, <1>3, <1>4 DEF Promised
<1>8. QED
  BY <1>3, <1>6, <1>7

\* A call on a line that is there makes the picture it asks for.
LEMMA CanBeMade ==
  ASSUME LineInv, NEW l \in Lines, Complete(lines[l])
  PROVE  /\ lines[l] \in Full /\ ShownLines[l] = Shown(lines[l]) /\ ShownLines[l] # Null
         /\ \A k \in -Width .. Width :
              /\ asked' = <<"shift", l, k>> => Shows!Made(Shows!Shifted(Shown(lines[l]), k))
              /\ asked' = <<"extract", l, k>> => Shows!Made(Shows!Rolled(Shown(lines[l]), k))
         /\ \A map \in Palettes :
              asked' = <<"map", l, map>> => Shows!Made(Shows!Recolored(Shown(lines[l]), map))
<1>1. lines[l] \in Full /\ ShownLines[l] = Shown(lines[l]) /\ ShownLines[l] # Null
  BY CompleteIsFull, FullShows DEF LineInv, ShownLines
<1>2. l \in Shows!There
  BY <1>1 DEF Shows!There, ShownLines
<1>3. QED
  BY <1>1, <1>2 DEF Shows!Made, ShownLines

\* The same, of two.
LEMMA CanBeMadeOfTwo ==
  ASSUME LineInv, NEW l \in Lines, NEW k \in Lines, NEW j \in {l, k},
         Complete(lines[l]), Complete(lines[k]), NEW start \in Pixels
  PROVE  /\ lines[l] \in Full /\ lines[k] \in Full /\ lines[j].opacity \in SUBSET Pixels
         /\ asked' = <<"lay", l, k, j>> =>
              Shows!Made(Shows!Stacked(Shown(lines[l]), Shown(lines[k]), lines[j].opacity))
         /\ asked' = <<"join", l, k, start>> =>
              Shows!Made(Shows!Joined(Shown(lines[l]), Shown(lines[k]), start))
<1>1. /\ lines[l] \in Full /\ ShownLines[l] = Shown(lines[l]) /\ ShownLines[l] # Null
      /\ lines[k] \in Full /\ ShownLines[k] = Shown(lines[k]) /\ ShownLines[k] # Null
      /\ ShownLines[j].opaque = lines[j].opacity /\ lines[j].opacity \in SUBSET Pixels
  BY CanBeMade, FullShows DEF ShownLines, Full, Parts
<1>2. l \in Shows!There /\ k \in Shows!There /\ start \in Shows!Pixels
  BY <1>1 DEF Shows!There, ShownLines, Shows!Pixels, Pixels
<1>3. asked' = <<"lay", l, k, j>> => Shows!Made(Shows!Stacked(ShownLines[l], ShownLines[k], ShownLines[j].opaque))
  BY <1>2 DEF Shows!Made, ShownLines
<1>4. asked' = <<"join", l, k, start>> => Shows!Made(Shows!Joined(ShownLines[l], ShownLines[k], start))
  BY <1>2 DEF Shows!Made, ShownLines
<1>5. QED
  BY <1>1, <1>3, <1>4

\* The calls that make lines.
LEMMA CreateLineShows ==
  ASSUME LineInv, NEW out \in Lines, CreateLine(out)
  PROVE  LineInv' /\ Reported /\ Promised
<1>1. PICK fails : Makes(out, <<"create">>, {}, fails, image_line_create(fails))
  BY DEF CreateLine
<1>2. Shows!Made(Shows!Blank)
  BY <1>1 DEF Shows!Made, Makes, Called
<1>3. QED
  BY <1>1, <1>2, CreateIsHonest, MakesShows

LEMMA ShiftLineShows ==
  ASSUME LineInv, NEW out \in Lines, NEW l \in Lines, ShiftLine(out, l)
  PROVE  LineInv' /\ Reported /\ Promised
<1>1. PICK fails \in Shortages(Plain), shift \in -Width .. Width :
        Makes(out, <<"shift", l, shift>>, {l}, fails, image_line_shift(lines[l], shift, fails))
  BY DEF ShiftLine
<1>2. shift \in Int
  BY ImageAssumption
<1> DEFINE o == image_line_shift(lines[l], shift, fails)
           a == Shows!Shifted(Shown(lines[l]), shift)
<1>asked. asked' = <<"shift", l, shift>>
  BY <1>1 DEF Makes, Called
<1>3. Complete(lines[l]) => Honest(o, fails, a) /\ Shows!Made(a)
  BY <1>asked, <1>2, CanBeMade, ShiftIsHonest
<1> HIDE DEF o, a
<1>4. Makes(out, <<"shift", l, shift>>, {l}, fails, o)
  BY <1>1 DEF o
<1>5. QED
  BY <1>3, <1>4, MakesShows

LEMMA ExtractLineShows ==
  ASSUME LineInv, NEW out \in Lines, NEW l \in Lines, ExtractLine(out, l)
  PROVE  LineInv' /\ Reported /\ Promised
<1>1. PICK fails \in Shortages(Plain), index \in -Width .. Width :
        Makes(out, <<"extract", l, index>>, {l}, fails, image_line_extract_wrap_ext(lines[l], index, fails))
  BY DEF ExtractLine
<1>2. index \in Int
  BY ImageAssumption
<1> DEFINE o == image_line_extract_wrap_ext(lines[l], index, fails)
           a == Shows!Rolled(Shown(lines[l]), index)
<1>asked. asked' = <<"extract", l, index>>
  BY <1>1 DEF Makes, Called
<1>3. Complete(lines[l]) => Honest(o, fails, a) /\ Shows!Made(a)
  BY <1>asked, <1>2, CanBeMade, RollIsHonest
<1> HIDE DEF o, a
<1>4. Makes(out, <<"extract", l, index>>, {l}, fails, o)
  BY <1>1 DEF o
<1>5. QED
  BY <1>3, <1>4, MakesShows

LEMMA MapLineShows ==
  ASSUME LineInv, NEW out \in Lines, NEW l \in Lines, MapLine(out, l)
  PROVE  LineInv' /\ Reported /\ Promised
<1>0. PICK map \in Palettes : \E fails :
        Makes(out, <<"map", l, map>>, {l}, fails, image_line_map_colors(lines[l], map, fails))
  BY DEF MapLine
<1>1. PICK fails :
        Makes(out, <<"map", l, map>>, {l}, fails, image_line_map_colors(lines[l], map, fails))
  BY <1>0
<1>2. map \in [1 .. 4 -> 0 .. 3]
  BY ImageAssumption
<1> DEFINE o == image_line_map_colors(lines[l], map, fails)
           a == Shows!Recolored(Shown(lines[l]), map)
<1>asked. asked' = <<"map", l, map>>
  BY <1>1 DEF Makes, Called
<1>3. Complete(lines[l]) => Honest(o, fails, a) /\ Shows!Made(a)
  BY <1>asked, <1>2, CanBeMade, RecolorIsHonest
<1> HIDE DEF o, a
<1>4. Makes(out, <<"map", l, map>>, {l}, fails, o)
  BY <1>1 DEF o
<1>5. QED
  BY <1>3, <1>4, MakesShows

LEMMA LayLineShows ==
  ASSUME LineInv, NEW out \in Lines, NEW l \in Lines, NEW k \in Lines, NEW j \in {l, k},
         LayLine(out, l, k, j)
  PROVE  LineInv' /\ Reported /\ Promised
<1>1. PICK fails :
        Makes(out, <<"lay", l, k, j>>, {l, k, j}, fails,
              image_line_below_with_opacity(lines[l], lines[k], lines[j].opacity, fails))
  BY DEF LayLine
<1>2. 0 \in Pixels
  BY ImageAssumption DEF Pixels
<1> DEFINE o == image_line_below_with_opacity(lines[l], lines[k], lines[j].opacity, fails)
           a == Shows!Stacked(Shown(lines[l]), Shown(lines[k]), lines[j].opacity)
<1>asked. asked' = <<"lay", l, k, j>>
  BY <1>1 DEF Makes, Called
<1>3. Complete(lines[l]) /\ Complete(lines[k]) => Honest(o, fails, a) /\ Shows!Made(a)
  BY <1>asked, <1>2, CanBeMadeOfTwo, StackIsHonest
<1> HIDE DEF o, a
<1>4. Makes(out, <<"lay", l, k, j>>, {l, k, j}, fails, o)
  BY <1>1 DEF o
<1>5. QED
  BY <1>3, <1>4, MakesShows

LEMMA JoinLinesShows ==
  ASSUME LineInv, NEW out \in Lines, NEW l \in Lines, NEW k \in Lines, JoinLines(out, l, k)
  PROVE  LineInv' /\ Reported /\ Promised
<1>0. PICK start \in Pixels : \E fails :
        Makes(out, <<"join", l, k, start>>, {l, k}, fails, image_line_join(lines[l], lines[k], start, fails))
  BY DEF JoinLines
<1>1. PICK fails :
        Makes(out, <<"join", l, k, start>>, {l, k}, fails, image_line_join(lines[l], lines[k], start, fails))
  BY <1>0
<1> DEFINE o == image_line_join(lines[l], lines[k], start, fails)
           a == Shows!Joined(Shown(lines[l]), Shown(lines[k]), start)
<1>asked. asked' = <<"join", l, k, start>>
  BY <1>1 DEF Makes, Called
<1>3. Complete(lines[l]) /\ Complete(lines[k]) => Honest(o, fails, a) /\ Shows!Made(a)
  BY <1>asked, CanBeMadeOfTwo, JoinIsHonest
<1> HIDE DEF o, a
<1>4. Makes(out, <<"join", l, k, start>>, {l, k}, fails, o)
  BY <1>1 DEF o
<1>5. QED
  BY <1>3, <1>4, MakesShows

\* A word set in a line paints the pixels of the word.
LEMMA SetWordShows ==
  ASSUME LineInv, NEW l \in Lines, SetWord(l)
  PROVE  LineInv' /\ Reported /\ Promised
<1> DEFINE word(i) == WordBits * i .. WordBits * (i + 1) - 1
           color(msb, lsb, p) == image_get_pixel([lsb |-> lsb, msb |-> msb], p)
<1>0. PICK index \in 0 .. (Width \div WordBits) - 1 :
        \E msb \in SUBSET word(index), lsb \in SUBSET word(index) :
          /\ Complete(lines[l])
          /\ lines' = [lines EXCEPT ![l] = image_line_set_word(@, index, msb, lsb)]
          /\ Called(<<"set_word", l, [p \in word(index) |-> color(msb, lsb, p)]>>, "ERR_NONE", {}, 0)
          /\ UNCHANGED image
  BY DEF SetWord
<1>1. PICK msb \in SUBSET word(index), lsb \in SUBSET word(index) :
        /\ Complete(lines[l])
        /\ lines' = [lines EXCEPT ![l] = image_line_set_word(@, index, msb, lsb)]
        /\ Called(<<"set_word", l, [p \in word(index) |-> color(msb, lsb, p)]>>, "ERR_NONE", {}, 0)
        /\ UNCHANGED image
  BY <1>0
<1> DEFINE W == word(index)
           colors == [p \in W |-> color(msb, lsb, p)]
           old == lines[l]
           new == image_line_set_word(lines[l], index, msb, lsb)
<1>2. W \subseteq Pixels
  <2> DEFINE n == Width \div WordBits
  <2>1. n \in Nat /\ Width = WordBits * n
    BY ImageAssumption
  <2> HIDE DEF n
  <2>2. index \in Nat /\ index + 1 <= n
    BY <2>1 DEF n
  <2>3. WordBits * (index + 1) <= WordBits * n /\ WordBits * index \in Nat /\ WordBits * (index + 1) \in Nat
    BY <2>1, <2>2, ImageAssumption
  <2>4. QED
    BY <2>1, <2>3, ImageAssumption DEF Pixels
<1>3. old \in Full /\ ShownLines[l] = Shown(old) /\ ShownLines[l] # Null
  BY <1>1, CanBeMade
<1>4. /\ new = [lsb |-> (old.lsb \ W) \cup lsb, msb |-> (old.msb \ W) \cup msb,
                opacity |-> (old.opacity \ W) \cup (msb \cup lsb)]
      /\ msb \subseteq W /\ lsb \subseteq W
  BY DEF image_line_set_word
<1> HIDE DEF new, W
<1>5. new \in Full
  <2>1. old.lsb \in SUBSET Pixels /\ old.msb \in SUBSET Pixels /\ old.opacity \in SUBSET Pixels
    BY <1>3 DEF Full, Parts
  <2>2. /\ (old.lsb \ W) \cup lsb \in SUBSET Pixels /\ (old.msb \ W) \cup msb \in SUBSET Pixels
        /\ (old.opacity \ W) \cup (msb \cup lsb) \in SUBSET Pixels
    BY <2>1, <1>2, <1>4
  <2> DEFINE a == (old.lsb \ W) \cup lsb
             b == (old.msb \ W) \cup msb
             c == (old.opacity \ W) \cup (msb \cup lsb)
  <2>3. new = [lsb |-> a, msb |-> b, opacity |-> c]
    BY <1>4
  <2> HIDE DEF a, b, c
  <2>4. QED
    BY <2>2, <2>3, RecordIsFull DEF a, b, c
<1>6. Shown(new) = Shows!Painted(Shown(old), colors)
  <2>1. /\ Shown(old) = [color |-> [p \in Pixels |-> image_get_pixel(old, p)], opaque |-> old.opacity]
        /\ Shown(new) = [color |-> [p \in Pixels |-> image_get_pixel(new, p)], opaque |-> new.opacity]
    BY <1>3, <1>5, FullShows DEF Shown, Full, Complete
  <2>2. DOMAIN colors = W /\ \A p \in W : colors[p] = color(msb, lsb, p)
    OBVIOUS
  <2> HIDE DEF colors, color
  <2>3. ASSUME NEW p \in W
        PROVE  image_get_pixel(new, p) = colors[p] /\ (p \in new.opacity <=> colors[p] # 0)
    <3>1. /\ p \in new.msb <=> p \in msb
          /\ p \in new.lsb <=> p \in lsb
          /\ p \in new.opacity <=> p \in msb \/ p \in lsb
      BY <1>4
    <3>2. colors[p] = (IF p \in msb THEN 2 ELSE 0) + (IF p \in lsb THEN 1 ELSE 0)
      BY <2>2 DEF color, image_get_pixel
    <3>3. QED
      BY <3>1, <3>2 DEF image_get_pixel
  <2>4. ASSUME NEW p \in Pixels, p \notin W
        PROVE  image_get_pixel(new, p) = image_get_pixel(old, p) /\ (p \in new.opacity <=> p \in old.opacity)
    <3>1. /\ p \in new.msb <=> p \in old.msb
          /\ p \in new.lsb <=> p \in old.lsb
          /\ p \in new.opacity <=> p \in old.opacity
      BY <1>4, <2>4
    <3>2. QED
      BY <3>1 DEF image_get_pixel
  <2> HIDE DEF old
  <2>5. [p \in Pixels |-> image_get_pixel(new, p)]
          = [p \in Pixels |-> IF p \in W THEN colors[p] ELSE image_get_pixel(old, p)]
    BY <2>3, <2>4
  <2>6. new.opacity = {p \in Pixels : IF p \in W THEN colors[p] # 0 ELSE p \in old.opacity}
    <3>1. new.opacity \subseteq Pixels
      BY <1>5 DEF Full, Parts
    <3>2. QED
      BY <3>1, <1>2, <2>3, <2>4
  <2>7. Shows!Painted(Shown(old), colors)
          = [color |-> [p \in Pixels |-> IF p \in W THEN colors[p] ELSE image_get_pixel(old, p)],
             opaque |-> {p \in Pixels : IF p \in W THEN colors[p] # 0 ELSE p \in old.opacity}]
    <3> DEFINE before == Shown(old)
    <3>1. before.opaque = old.opacity /\ \A p \in Pixels : before.color[p] = image_get_pixel(old, p)
      BY <2>1
    <3> HIDE DEF before
    <3>2. [p \in Pixels |-> IF p \in DOMAIN colors THEN colors[p] ELSE before.color[p]]
            = [p \in Pixels |-> IF p \in W THEN colors[p] ELSE image_get_pixel(old, p)]
      BY <2>2, <3>1
    <3>3. {p \in Pixels : IF p \in DOMAIN colors THEN colors[p] # 0 ELSE p \in before.opaque}
            = {p \in Pixels : IF p \in W THEN colors[p] # 0 ELSE p \in old.opacity}
      BY <2>2, <3>1
    <3>4. Shows!Painted(before, colors)
            = [color |-> [p \in Pixels |-> IF p \in DOMAIN colors THEN colors[p] ELSE before.color[p]],
               opaque |-> {p \in Pixels : IF p \in DOMAIN colors THEN colors[p] # 0 ELSE p \in before.opaque}]
      BY DEF Shows!Painted, Shows!Picture, Shows!Pixels, Pixels
    <3>5. QED
      BY <3>2, <3>3, <3>4 DEF before
  <2>8. QED
    BY <2>1, <2>5, <2>6, <2>7
<1>7. /\ lines' = [lines EXCEPT ![l] = new] /\ image' = image /\ lost' = lost + 0
      /\ err' = "ERR_NONE" /\ asked' = <<"set_word", l, colors>>
  BY <1>1 DEF Called, new, W
<1>8. new \in Line /\ Shown(new) # Null
  BY <1>5, FullShows DEF Full, Line
<1>9. ShownLines' = [ShownLines EXCEPT ![l] = Shown(new)] /\ lines' \in [Lines -> Line]
  BY <1>7, <1>8, OneLineChanges DEF LineInv
<1>10. ShownScreen' = ShownScreen
  BY <1>7 DEF ShownScreen
<1>11. Shows!Next
  BY <1>3, <1>6, <1>7, <1>9, <1>10, PaintStep
<1>12. QED
  BY <1>7, <1>9, <1>11 DEF LineInv, Reported, Promised

\* A line freed is no longer there.
LEMMA FreeShows ==
  ASSUME LineInv, NEW l \in Lines, image_line_free(l)
  PROVE  LineInv' /\ Reported /\ Promised
<1>1. /\ lines' = [lines EXCEPT ![l] = Empty] /\ image' = image /\ lost' = lost + 0
      /\ err' = "ERR_NONE" /\ asked' = <<"free", l>>
  BY DEF image_line_free, Called
<1>2. ShownLines' = [ShownLines EXCEPT ![l] = Null] /\ lines' \in [Lines -> Line]
  BY <1>1, EmptyIsLine, ShownIfComplete, OneLineChanges DEF LineInv
<1>3. ShownScreen' = ShownScreen
  BY <1>1 DEF ShownScreen
<1>4. Shows!Next
  BY <1>1, <1>2, <1>3, DropStep
<1>5. QED
  BY <1>1, <1>2, <1>4 DEF LineInv, Reported, Promised

\* A call on the image that is refused.
LEMMA RefusedShows ==
  ASSUME LineInv, UNCHANGED <<lines, image>>, NEW what, Called(what, "ERR_BAD_PARAMETER", {}, 0)
  PROVE  LineInv' /\ Reported /\ Promised
<1>1. ShownLines' = ShownLines /\ ShownScreen' = ShownScreen
  BY DEF ShownLines, ShownScreen
<1>2. QED
  BY <1>1 DEF LineInv, Called, Reported, Promised

\* A line that goes into the image, and stays with the program or not.
LEMMA GoesIntoImage ==
  ASSUME LineInv, NEW l \in Lines, NEW y \in 1 .. Height, image # Null, Complete(lines[l]),
         image' = [image EXCEPT ![y] = lines[l]],
         \/ lines' = lines /\ Called(<<"set_line", l, y>>, "ERR_NONE", {}, 0)
         \/ lines' = [lines EXCEPT ![l] = Empty] /\ Called(<<"own_line", l, y>>, "ERR_NONE", {}, 0)
  PROVE  LineInv' /\ Reported /\ Promised
<1>1. lines[l] \in Full /\ ShownLines[l] = Shown(lines[l]) /\ ShownLines[l] # Null
  BY CanBeMade
<1>2. image \in [1 .. Height -> Full] /\ image' \in [1 .. Height -> Full] /\ image' # Null
  BY <1>1, NullAssumption DEF LineInv, Full
<1>3. /\ ShownScreen = [z \in 1 .. Height |-> Shown(image[z]).color]
      /\ ShownScreen' = [z \in 1 .. Height |-> Shown(image'[z]).color]
  BY <1>2 DEF ShownScreen
<1>4. ShownScreen' = [ShownScreen EXCEPT ![y] = ShownLines[l].color]
  BY <1>1, <1>2, <1>3
<1>5. ShownScreen # Null
  <2>1. \A z \in 1 .. Height : Shown(image[z]).color \in [Pixels -> 0 .. 3]
    BY <1>2, FullShows
  <2>2. ShownScreen \in [1 .. Height -> [Pixels -> 0 .. 3]]
    BY <1>3, <2>1
  <2>3. QED
    BY <2>2, NullAssumption
<1>6. /\ \/ asked' = <<"set_line", l, y>> /\ ShownLines' = ShownLines
         \/ asked' = <<"own_line", l, y>> /\ ShownLines' = [ShownLines EXCEPT ![l] = Null]
      /\ lines' \in [Lines -> Line]
  <2>1. CASE lines' = lines /\ Called(<<"set_line", l, y>>, "ERR_NONE", {}, 0)
    BY <2>1 DEF ShownLines, LineInv, Called
  <2>2. CASE lines' = [lines EXCEPT ![l] = Empty] /\ Called(<<"own_line", l, y>>, "ERR_NONE", {}, 0)
    BY <2>2, EmptyIsLine, ShownIfComplete, OneLineChanges DEF LineInv, Called
  <2>3. QED
    BY <2>1, <2>2
<1>7. Shows!Next
  BY <1>1, <1>4, <1>5, <1>6, PutStep
<1>8. err' = "ERR_NONE" /\ lost' = lost + 0
  BY DEF Called
<1>9. QED
  BY <1>2, <1>6, <1>7, <1>8 DEF LineInv, Reported, Promised

\* An image begins blank, or is not there.
LEMMA ImageCreateShows ==
  ASSUME LineInv, image_create
  PROVE  LineInv' /\ Reported /\ Promised
<1>1. PICK fails :
        /\ image' = IF fails # {} THEN Null ELSE [y \in 1 .. Height |-> image_line_create({}).line]
        /\ Called(<<"image_create">>, IF fails # {} THEN "ERR_MEM" ELSE "ERR_NONE", fails, 0)
  BY DEF image_create
<1>2. /\ image = Null /\ lines' = lines /\ lost' = lost + 0 /\ ShownLines' = ShownLines
      /\ asked' = <<"image_create">>
  BY <1>1 DEF image_create, Called, ShownLines
<1> DEFINE fresh == image_line_create({}).line
<1>3. fresh \in Full /\ Shown(fresh) = Shows!Blank
  <2> DEFINE line == [x \in Parts |-> {}]
  <2>1. image_line_create({}) = valid(line, 0)
    BY DEF image_line_create, do_image_line
  <2>2. line \in Full /\ Complete(line)
    BY NullAssumption DEF Full, Complete
  <2> HIDE DEF line
  <2>3. fresh = line
    BY <2>1, <2>2, OutcomeParts DEF valid
  <2>4. QED
    BY <2>2, <2>3, CreateIsHonest DEF Honest
<1> HIDE DEF fresh
<1>4. CASE fails # {}
  <2>1. image' = Null /\ err' = "ERR_MEM" /\ short' = TRUE
    BY <1>1, <1>4 DEF Called
  <2>2. ShownScreen' = ShownScreen
    BY <1>2, <2>1 DEF ShownScreen
  <2>3. QED
    BY <1>2, <2>1, <2>2 DEF LineInv, Reported, Promised
<1>5. CASE fails = {}
  <2>1. image' = [y \in 1 .. Height |-> fresh] /\ err' = "ERR_NONE"
    BY <1>1, <1>5 DEF Called, fresh
  <2>2. image' \in [1 .. Height -> Full] /\ image' # Null
    BY <1>3, <2>1, NullAssumption DEF Full
  <2>3. ShownScreen = Null /\ ShownScreen' = [y \in 1 .. Height |-> Shows!Blank.color]
    BY <1>2, <1>3, <2>1, <2>2 DEF ShownScreen
  <2>4. Shows!Open
    BY <1>2, <2>3 DEF Shows!Open, ShownLines, ShownScreen
  <2>5. QED
    BY <1>2, <2>1, <2>2, <2>4 DEF LineInv, Reported, Promised, Shows!Next
<1>6. QED
  BY <1>4, <1>5

LEMMA ImageFreeShows ==
  ASSUME LineInv, image_free
  PROVE  LineInv' /\ Reported /\ Promised
<1>1. /\ image' = Null /\ lines' = lines /\ lost' = lost + 0 /\ err' = "ERR_NONE"
      /\ asked' = <<"image_free">>
  BY DEF image_free, Called
<1>2. ShownScreen' = Null /\ ShownLines' = ShownLines
  BY <1>1 DEF ShownScreen, ShownLines
<1>3. Shows!Close
  BY <1>1, <1>2 DEF Shows!Close, ShownScreen, ShownLines
<1>4. QED
  BY <1>1, <1>3 DEF LineInv, Reported, Promised, Shows!Next

\* Every action maps to a step of Picture or to none, and reports what it loses.
LEMMA StepShows ==
  ASSUME LineInv, ImageNext
  PROVE  LineInv' /\ Reported /\ Promised
<1>1. ASSUME NEW out \in Lines, CreateLine(out) PROVE LineInv' /\ Reported /\ Promised
  BY <1>1, CreateLineShows
<1>2. ASSUME NEW out \in Lines, NEW l \in Lines,
             ShiftLine(out, l) \/ ExtractLine(out, l) \/ MapLine(out, l)
      PROVE  LineInv' /\ Reported /\ Promised
  BY <1>2, ShiftLineShows, ExtractLineShows, MapLineShows
<1>3. ASSUME NEW out \in Lines, NEW l \in Lines, NEW k \in Lines, JoinLines(out, l, k)
      PROVE  LineInv' /\ Reported /\ Promised
  BY <1>3, JoinLinesShows
<1>4. ASSUME NEW out \in Lines, NEW l \in Lines, NEW k \in Lines, NEW j \in {l, k}, LayLine(out, l, k, j)
      PROVE  LineInv' /\ Reported /\ Promised
  BY <1>4, LayLineShows
<1>5. ASSUME NEW l \in Lines, SetWord(l) \/ image_line_free(l) PROVE LineInv' /\ Reported /\ Promised
  BY <1>5, SetWordShows, FreeShows
<1>6. ASSUME NEW y \in 1 .. Height, NEW l \in Lines, image_set_line(y, l)
      PROVE  LineInv' /\ Reported /\ Promised
  BY <1>6, GoesIntoImage, RefusedShows DEF image_set_line
<1>7. ASSUME NEW y \in 1 .. Height, NEW l \in Lines, image_own_line_content(y, l)
      PROVE  LineInv' /\ Reported /\ Promised
  BY <1>7, GoesIntoImage, RefusedShows DEF image_own_line_content
<1>8. QED
  BY <1>1, <1>2, <1>3, <1>4, <1>5, <1>6, <1>7, ImageCreateShows, ImageFreeShows DEF ImageNext

\* The lines that have been painted at first are pictures.
LEMMA PaintedShows == ImageInit => LineInv /\ Shows!Init
<1> SUFFICES ASSUME ImageInit PROVE LineInv /\ Shows!Init
  OBVIOUS
<1>1. \A l \in DOMAIN Start : Painted(Start[l]) \in Full
  BY ImageAssumption DEF Painted, Full, Parts
<1>2. lines \in [Lines -> Line]
  BY <1>1, EmptyIsLine DEF ImageInit, Full, Line
<1>3. LineInv
  BY <1>2 DEF LineInv, ImageInit
<1>4. \A l \in Lines : Shown(lines[l]) \in {Null} \cup [color : [Pixels -> 0 .. 3], opaque : SUBSET Pixels]
  BY <1>2, ShownIfComplete, FullShows
<1>5. QED
  BY <1>3, <1>4 DEF Shows!Init, Shows!Pixels, Pixels, ImageInit

\* Whichever allocations fail, a call of image.c makes the picture that image.h promises for its
\* arguments, of lines that are there, or no picture: Image implements Picture.
THEOREM ImageImplementsPicture == ImageSpec => ImplementsPicture
<1>1. ImageInit => LineInv /\ Shows!Init
  BY PaintedShows
<1>2. LineInv /\ [ImageNext]_vars => LineInv'
  BY StepShows DEF LineInv, vars
<1>3. LineInv /\ [ImageNext]_vars => [Shows!Next]_Shows!vars
  <2>1. ASSUME LineInv, ImageNext PROVE [Shows!Next]_Shows!vars
    BY <2>1, StepShows DEF Promised, ShownLines, ShownScreen, Shows!vars
  <2>2. ASSUME UNCHANGED vars PROVE UNCHANGED Shows!vars
    BY <2>2 DEF vars, Shows!vars
  <2>3. QED
    BY <2>1, <2>2
<1>4. QED
  BY <1>1, <1>2, <1>3, PTL DEF ImageSpec, ImplementsPicture, Shows!Spec

\* No call of image.c loses a vector without returning ERR_MEM, and none returns ERR_MEM when
\* every allocation has succeeded.
THEOREM LossesAreReported == ImageSpec => LossIsReported
<1>1. ImageInit => LineInv
  BY PaintedShows
<1>2. LineInv /\ [ImageNext]_vars => LineInv'
  BY StepShows DEF LineInv, vars
<1>3. LineInv /\ [ImageNext]_vars =>
        [(lost' > lost => err' = "ERR_MEM") /\ (err' = "ERR_MEM" => short')]_vars
  BY StepShows DEF Reported
<1>4. QED
  BY <1>1, <1>2, <1>3, PTL DEF ImageSpec, LossIsReported
===============================================================================
