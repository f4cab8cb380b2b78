------------------------------ MODULE MCLifecycle ------------------------------
(* The memory map of the Game Boy on 20 addresses: the same order, the boot ROM   *)
(* over the start of the cartridge, an echo shorter than the work RAM, IF over    *)
(* a register, IE after the high RAM.                                      *)
EXTENDS Lifecycle

At(b, e) == [start |-> b, end |-> e]
Layout ==
  [CARTRIDGE |-> At(0, 3), BOOT_ROM |-> At(0, 1), VIDEO_RAM |-> At(4, 5),
   EXTERN_RAM |-> At(6, 6), WORK_RAM |-> At(7, 9), ECHO_RAM |-> At(10, 11),
   GRAPH_RAM |-> At(12, 12), USELESS |-> At(13, 13), REGISTERS |-> At(14, 16),
   HIGH_RAM |-> At(17, 18)]

StartDef == [c \in Components |-> Layout[c].start]
EndDef == [c \in Components |-> Layout[c].end]
===============================================================================
