-------------------------------- MODULE MCTimer --------------------------------
(* A narrow timer for TLC: 3-bit bytes and a 6-bit counter.  The four selectable *)
(* bits keep the order of the real ones (9, 3, 5, 7 become 4, 1, 2, 3) and the   *)
(* slowest one stays above the lowest bit of DIV.  TAC is off, or on with each   *)
(* of the four.                                                                  *)
EXTENDS Timer

TacWeightDef == [s \in 0..3 |-> CASE s = 0 -> 16 [] s = 1 -> 2 [] s = 2 -> 4 [] s = 3 -> 8]

WriteValuesDef ==
  [r \in TimerRegs |->
    CASE r = REG_DIV -> {5}
      [] r = REG_TIMA -> {0, ByteMax}
      [] r = REG_TMA -> {0, ByteMax - 1, ByteMax}
      [] r = REG_TAC -> {0, 4, 5, 6, 7}]
===============================================================================
