------------------------------ MODULE MCCpuAlu ------------------------------
(* A machine of nibbles of 2 bits: bytes 0 to 15, words 0 to 255. *)
EXTENDS CpuAlu

MCBytes == {7}
MCWords == {127}
\* With and without bits in the low nibble.
MCPoppedFlags == {[up |-> FlagNames, low |-> 0], [up |-> {"C"}, low |-> 5]}
=============================================================================
