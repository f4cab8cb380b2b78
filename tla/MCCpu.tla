--------------------------------- MODULE MCCpu ---------------------------------
(* Instances of Cpu for TLC: bytes of 2 values, so 4 addresses, all of them a   *)
(* stack of two words, and an idle_time that wraps at 16.                       *)
EXTENDS Cpu

Families == DOMAIN Instruction
===============================================================================
