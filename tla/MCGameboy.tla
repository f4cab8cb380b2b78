------------------------------- MODULE MCGameboy -------------------------------
(* Instances of Gameboy for TLC.  The stores runs let the program store to every *)
(* kind of address and fail; the interrupts runs let it sleep, mask and unmask.  *)
EXTENDS Gameboy

DIV == 65284
TIMA == 65285
TMA == 65286
TAC == 65287
Registers == DIV..TAC

TacWeightDef == [s \in 0..3 |-> IF s = 1 THEN 1 ELSE 2]

StoresValuesDef ==
  [r \in Registers |-> IF r = TAC THEN {0, 5} ELSE {7}]
StoresAddrsDef == {DIV, TIMA, TAC, REG_P1, REG_DMA, REG_BOOT_ROM_DISABLE, 49152}
StoresAddrs16Def == {DIV - 1, DIV, REG_BOOT_ROM_DISABLE - 1, REG_BOOT_ROM_DISABLE, 57088}

InterruptsValuesDef ==
  [r \in Registers |-> IF r = TAC THEN {0, 5} ELSE {6}]
InterruptsAddrsDef == {TAC, TIMA, REG_IF - 1, REG_IF, REG_IE}
\* A word over IF from below and from IF on, over IE, and a stack in work RAM.
InterruptsAddrs16Def == {REG_IF - 1, REG_IF, REG_IE - 1, 57088}
RamOnly == {57088}
MaskAddrs == {REG_IF, REG_IE}
===============================================================================
