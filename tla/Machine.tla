------------------------------ MODULE Machine ------------------------------
(***************************************************************************)
(* The machine executing instructions at full width: the fetch of          *)
(* cpu_do_cycle through the tables of opcode.c, and cpu_dispatch.  Cpu     *)
(* models when an instruction is fetched and what interrupts do; here it   *)
(* is what each of the instructions does.                                  *)
(***************************************************************************)
EXTENDS Mnemonics

CONSTANTS Starts,       \* the machines to start from
          Depth         \* bound: instructions executed
VARIABLES m,            \* the machine
          executed      \* the instructions executed so far
machineVars == <<m, executed>>

MachineInit == m \in Starts /\ executed = 0

\* An error ends the simulation.
cpu_do_cycle ==
    /\ Fine(m) /\ executed < Depth
    /\ m' = cpu_dispatch(m, Fetched(m))
    /\ executed' = executed + 1

MachineNext == cpu_do_cycle
MachineSpec == MachineInit /\ [][MachineNext]_machineVars

-----------------------------------------------------------------------------
(* The state of a machine: bytes, words, flags and one of three codes.  A memory
   is what was written to it, one byte past the last address with the last word. *)
Codes == {"ERR_NONE", "ERR_BAD_PARAMETER", "ERR_INSTR"}
IsMachine(s) ==
    /\ s \in [reg : [R8s -> U8], F : FlagBytes, SP : U16, PC : U16, IME : 0 .. 1, HALT : 0 .. 1,
              idle_time : U8, write_listener : U16, mem : [DOMAIN s.mem -> U8],
              gap : SUBSET U16, err : Codes]
    /\ DOMAIN s.mem \subseteq 0 .. Word

(* The machine of the emulator: nibbles of four bits, and machines to start from. *)
Setting == NibbleBits = 4 /\ Depth \in Nat /\ \A s \in Starts : IsMachine(s)

(* The low nibble of F is clear: cpu_init zeroes it, and nothing sets it. *)
Initialised == \A s \in Starts : s.F.low = 0

(* Whatever is executed, from whatever state, registers stay bytes, SP, PC and the
   addresses that are written stay words: no sum, difference or rotation of cpu-alu.c
   and no step of HL or SP leaves its width. *)
MachineTypeOK == IsMachine(m) /\ executed \in 0 .. Depth

(* One step of a machine that goes by the names of opcode.h alone. *)
AsNamed ==
    /\ Fine(m) /\ executed < Depth
    /\ executed' = executed + 1
    /\ \/ \E row \in Named(m) : m' = Meaning(m, row)
       \/ Named(m) = {} /\ m' = Fail(m, "ERR_INSTR")

(* Every byte at PC is executed as the row of opcode.h that carries it is
   named: the order of the tables in opcode.c, the families, the operands that
   extract_reg and its like cut out of an opcode, the lengths, the conditions
   and the overlap of the pairs with the registers agree for all 512 entries. *)
ExecutesAsNamed == MachineInit /\ [][AsNamed]_machineVars

(* An instruction that returns an error has changed nothing: not SP when a push
   fails, not HL when the store of LD (HL+),A fails, not PC. *)
FailureChangesNothing == [][~Fine(m') => m' = Fail(m, m'.err)]_machineVars
=============================================================================
