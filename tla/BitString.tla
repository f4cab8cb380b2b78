----------------------------- MODULE BitString -----------------------------
(***************************************************************************)
(* What the operations on bit vectors promise to the pictures made of      *)
(* them, bit by bit.  A string of bits is its size and the set of the      *)
(* positions that hold a one; there are no chunks here.                    *)
(***************************************************************************)
EXTENDS Integers

Of(size, Holds(_)) == [size |-> size, ones |-> {i \in 0 .. size - 1 : Holds(i)}]

Filled(size, value) == LET Holds(i) == value = 1 IN Of(size, Holds)
Not(a)    == LET Holds(i) == i \notin a.ones IN Of(a.size, Holds)
And(a, b) == LET Holds(i) == i \in a.ones /\ i \in b.ones IN Of(a.size, Holds)
Or(a, b)  == LET Holds(i) == i \in a.ones \/ i \in b.ones IN Of(a.size, Holds)
Xor(a, b) == LET Holds(i) == (i \in a.ones) # (i \in b.ones) IN Of(a.size, Holds)
\* Beyond either end there are zeros, or the string again.
Extract(a, index, size) ==
    LET Holds(i) == i + index \in a.ones IN Of(size, Holds)
ExtractWrapping(a, index, size) ==
    LET Holds(i) == (i + index) % a.size \in a.ones IN Of(size, Holds)
\* To higher positions for a positive distance.
Shift(a, distance) == LET Holds(i) == i - distance \in a.ones IN Of(a.size, Holds)
\* The first string up to the place, the second one from there.
Join(a, b, place) ==
    LET Holds(i) == IF i < place THEN i \in a.ones ELSE i \in b.ones
    IN  Of(a.size, Holds)
=============================================================================
