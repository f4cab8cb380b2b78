---------------------------------- MODULE Cpu ----------------------------------
(***************************************************************************)
(* The control of the CPU (cpu.c, and the stack of cpu-storage.c): fetch,  *)
(* jumps, calls and returns, the stack in memory, interrupts, HALT, and    *)
(* idle_time, which spreads an instruction over its machine cycles.        *)
(*                                                                         *)
(* The program is any sequence of instructions: what a fetch finds and     *)
(* how a condition comes out is chosen freely.  The rest of the machine    *)
(* requests interrupts between two calls of cpu_cycle.  Instructions that  *)
(* only move or compute data are the families NOP, LD_R8_N8 and LD_N16R_A. *)
(***************************************************************************)
EXTENDS Integers

CONSTANTS
  ByteCount,        \* 2^8: the values of a byte
  StackTop,         \* where the program's stack begins, above its first word
  MaxDepth,         \* bound: words on the stack
  PushWords,        \* what the program pushes with PUSH_R16
  Targets,          \* where it jumps to and calls
  IdleMod,          \* 2^8: idle_time is a uint8_t
  INTERRUPTS,       \* the interrupts modelled, a subset of the indices 0..4
  VectorStep,       \* 8: the distance of two handlers
  Program,          \* the instruction families the program uses
  MaxHaltIdle       \* bound: idle time left over when a HALT is executed

AddrCount == ByteCount * ByteCount
Addr == 0..(AddrCount - 1)
StackAddrs == (StackTop - 2 * MaxDepth)..(StackTop - 1)

\* bytes, cycles and xtra_cycles of the families, from opcode.h
Timing(b, c, x) == [bytes |-> b, cycles |-> c, xtra |-> x]
Instruction ==
  [NOP |-> Timing(1, 1, 0),      STOP |-> Timing(1, 0, 0),     HALT |-> Timing(1, 1, 0),
   EDI |-> Timing(1, 1, 0),      LD_R8_N8 |-> Timing(2, 2, 0), LD_N8R_A |-> Timing(2, 3, 0),
   LD_N16R_A |-> Timing(3, 4, 0),
   JP_N16 |-> Timing(3, 4, 0),   JP_CC_N16 |-> Timing(3, 3, 1), JP_HL |-> Timing(1, 1, 0),
   JR_E8 |-> Timing(2, 3, 0),    JR_CC_E8 |-> Timing(2, 2, 1),
   CALL_N16 |-> Timing(3, 6, 0), CALL_CC_N16 |-> Timing(3, 3, 3), RST_U3 |-> Timing(1, 4, 0),
   RET |-> Timing(1, 4, 0),      RET_CC |-> Timing(1, 2, 3),   RETI |-> Timing(1, 4, 0),
   PUSH_R16 |-> Timing(1, 4, 0), POP_R16 |-> Timing(1, 3, 0)]

INTERRUPT_CYCLES == 5

ASSUME CpuAssumption ==
  /\ ByteCount \in Nat \ {0, 1} /\ IdleMod \in Nat \ {0}
  /\ MaxDepth \in Nat \ {0} /\ StackTop \in Nat
  /\ 2 * MaxDepth <= StackTop /\ StackTop <= AddrCount
  /\ PushWords \subseteq Addr /\ Targets \subseteq Addr
  /\ INTERRUPTS \subseteq 0..4 /\ VectorStep \in Nat
  /\ Program \subseteq DOMAIN Instruction
  /\ MaxHaltIdle \in Nat

VARIABLES
  PC, SP,           \* cpu_t.PC and cpu_t.SP
  ram,              \* the bytes of the stack
  IME, HALT,        \* cpu_t.IME and cpu_t.HALT
  IFR, IER,         \* cpu_t.IF and cpu_t.IE, as sets of interrupts
  idle_time,        \* cpu_t.idle_time
  owed              \* history: the cycles of the last instruction or interrupt by the
                    \* table, minus those gone by since, its first included

machine == <<PC, SP, ram, IME, HALT, IFR, IER>>
vars == <<machine, idle_time, owed>>

TypeOK ==
  /\ PC \in Addr /\ SP \in Nat
  /\ ram \in [StackAddrs -> 0..(ByteCount - 1)]
  /\ IME \in BOOLEAN /\ HALT \in BOOLEAN
  /\ IFR \in SUBSET INTERRUPTS /\ IER \in SUBSET INTERRUPTS
  /\ idle_time \in 0..(IdleMod - 1)
  /\ owed \in Int

\* The boot ROM's first instruction has set SP; no interrupt is enabled yet.
Init ==
  /\ PC = 0 /\ SP = StackTop /\ ram = [a \in StackAddrs |-> 0]
  /\ IME = FALSE /\ HALT = FALSE /\ IFR = {} /\ IER = {}
  /\ idle_time = 0 /\ owed = 0

-------------------------------------------------------------------------------
(* The stack: bit.c, bus.c and cpu-storage.c *)

lsb8(word) == word % ByteCount
msb8(word) == word \div ByteCount
merge8(lo, hi) == lo + ByteCount * hi

\* Mutant: a PC wider than its 16 bits.
WidePlus(addr, n) == addr + n

Plus(addr, n) == (addr + n) % AddrCount

cpu_read16_at_idx(addr) == merge8(ram[addr], ram[addr + 1])

cpu_write16_at_idx(addr, word) ==
  ram' = [a \in StackAddrs |->
           IF a = addr THEN lsb8(word) ELSE IF a = addr + 1 THEN msb8(word) ELSE ram[a]]

Depth == (StackTop - SP) \div 2

cpu_SP_push(word) ==
  /\ Depth < MaxDepth
  /\ SP' = SP - 2
  /\ cpu_write16_at_idx(SP - 2, word)

\* The word at SP is read, then SP moves up.
cpu_SP_pop ==
  /\ Depth > 0
  /\ SP' = SP + 2
  /\ UNCHANGED ram

Popped == cpu_read16_at_idx(SP)

-------------------------------------------------------------------------------
(* Time *)

Pending == IFR \cap IER

\* look_for_interrupt: the lowest index.
look_for_interrupt == CHOOSE i \in Pending : \A j \in Pending : i <= j

\* Mutant: a CPU in HALT wakes up only if interrupts are allowed.
ReadyIfAllowed == IF HALT THEN IME /\ Pending # {} ELSE idle_time = 0

\* This cpu_cycle calls cpu_do_cycle.
Ready == IF HALT THEN Pending # {} ELSE idle_time = 0

\* Mutant: interrupts are looked for only when the CPU sleeps.
WokenOnly == HALT /\ IME /\ Pending # {}

\* cpu_do_cycle enters a handler instead of fetching.
Interrupted == IME /\ Pending # {}

\* Mutant: the cycle of the fetch is not counted, and HALT starts from the old rest.
ChargeLess(cycles) ==
  /\ idle_time' = (idle_time + cycles - (IF HALT THEN 2 ELSE 1)) % IdleMod
  /\ owed' = cycles - 1

\* idle_time takes the cycles of what has begun.  cpu_cycle decrements it at once,
\* except on the path that has just left HALT.
Charge(cycles) ==
  /\ idle_time' = (idle_time + cycles - (IF HALT THEN 0 ELSE 1)) % IdleMod
  /\ owed' = cycles - 1

-------------------------------------------------------------------------------
(* cpu_dispatch: one operator per group of families.  t is the table's row. *)

\* Mutant: the call pushes its own address.
CallHere(t, target) ==
  /\ cpu_SP_push(PC)
  /\ PC' = target
  /\ Charge(t.cycles + t.xtra)
  /\ UNCHANGED IME

\* A condition that fails, and every family that does not touch PC itself.
Skip(t) ==
  /\ PC' = Plus(PC, t.bytes)
  /\ Charge(t.cycles)
  /\ UNCHANGED <<SP, ram>>

\* xtra is 0 but for the conditional families.
Take(t, target) ==
  /\ PC' = target
  /\ Charge(t.cycles + t.xtra)
  /\ UNCHANGED <<SP, ram, IME>>

CallTo(t, target) ==
  /\ cpu_SP_push(Plus(PC, t.bytes))
  /\ PC' = target
  /\ Charge(t.cycles + t.xtra)
  /\ UNCHANGED IME

Return(t) ==
  /\ cpu_SP_pop
  /\ PC' = Popped
  /\ Charge(t.cycles + t.xtra)

\* LD_N8R_A can reach IF and IE; the other stores, and the stack, lie elsewhere (module
\* Gameboy has words and return addresses that reach IF and IE).
cpu_dispatch(family, t) ==
  /\ HALT' = (family = "HALT")
  /\ IF family = "LD_N8R_A"
     THEN \/ IFR' \in SUBSET INTERRUPTS /\ UNCHANGED IER
          \/ IER' \in SUBSET INTERRUPTS /\ UNCHANGED IFR
     ELSE UNCHANGED <<IFR, IER>>
  /\ \/ /\ family \in {"NOP", "STOP", "HALT", "LD_R8_N8", "LD_N8R_A", "LD_N16R_A"}
        /\ family = "HALT" => idle_time <= MaxHaltIdle
        /\ Skip(t) /\ UNCHANGED IME
     \/ family = "EDI" /\ IME' \in BOOLEAN /\ Skip(t)
     \/ family \in {"JP_CC_N16", "JR_CC_E8", "CALL_CC_N16", "RET_CC"} /\ Skip(t) /\ UNCHANGED IME
     \/ /\ family \in {"JP_N16", "JP_CC_N16", "JP_HL", "JR_E8", "JR_CC_E8"}
        /\ \E target \in Targets : Take(t, target)
     \/ /\ family \in {"CALL_N16", "CALL_CC_N16", "RST_U3"}
        /\ \E target \in Targets : CallTo(t, target)
     \/ family \in {"RET", "RET_CC"} /\ Return(t) /\ UNCHANGED IME
     \/ family = "RETI" /\ Return(t) /\ IME' = TRUE
     \/ /\ family = "PUSH_R16"
        /\ \E word \in PushWords : cpu_SP_push(word)
        /\ PC' = Plus(PC, t.bytes) /\ Charge(t.cycles) /\ UNCHANGED IME
     \/ /\ family = "POP_R16"
        /\ cpu_SP_pop
        /\ PC' = Plus(PC, t.bytes) /\ Charge(t.cycles) /\ UNCHANGED IME

-------------------------------------------------------------------------------
(* cpu_do_cycle and cpu_cycle *)

interrupt_address(i) == Plus(8 * VectorStep, VectorStep * i)

EnterHandler ==
  /\ Ready /\ Interrupted
  /\ IME' = FALSE /\ HALT' = FALSE
  /\ IFR' = IFR \ {look_for_interrupt}
  /\ cpu_SP_push(PC)
  /\ PC' = interrupt_address(look_for_interrupt)
  /\ Charge(INTERRUPT_CYCLES)
  /\ UNCHANGED IER

\* Bound: the program leaves a word free for a handler while interrupts are allowed.
RoomForHandler == IME' => Depth' < MaxDepth

FetchAndExecute ==
  /\ Ready /\ ~Interrupted
  /\ \E family \in Program : cpu_dispatch(family, Instruction[family])
  /\ RoomForHandler

\* The last instruction still takes its time.
Wait ==
  /\ ~HALT /\ idle_time > 0
  /\ idle_time' = idle_time - 1
  /\ owed' = owed - 1
  /\ UNCHANGED machine

\* In HALT with nothing pending cpu_cycle changes nothing.
cpu_cycle == EnterHandler \/ FetchAndExecute \/ Wait

\* cpu_request_interrupt, called by the timer, the LCD controller or the joypad.
cpu_request_interrupt(i) ==
  /\ IFR' = IFR \cup {i}
  /\ UNCHANGED <<PC, SP, ram, IME, HALT, IER, idle_time, owed>>

Next == cpu_cycle \/ \E i \in INTERRUPTS : cpu_request_interrupt(i)

Spec == Init /\ [][Next]_vars

\* gameboy_run_until calls cpu_cycle in every machine cycle.
FairSpec == Spec /\ WF_vars(cpu_cycle)

-------------------------------------------------------------------------------
(* Properties *)

\* The bytes below StackTop, SP, PC, IME, IF and IE (cpu_SP_push, cpu_SP_pop,
\* cpu_do_cycle) implement a stack of words: whatever the interleaving of calls,
\* pushes and interrupts, a return comes back to where the call or the interrupt
\* left, and an interrupt is taken only when allowed, the most urgent one first.
Stack == INSTANCE CallStack WITH
  WordCount <- AddrCount,
  Vector <- interrupt_address,
  pc <- PC,
  stack <- [k \in 1..Depth |-> cpu_read16_at_idx(SP + 2 * (k - 1))],
  allowed <- IME,
  requested <- IFR,
  enabled <- IER

ImplementsCallStack == Stack!Spec

\* An instruction is never cut short: when the CPU is about to fetch the next one, at
\* least the cycles that opcode.h gives the last one have gone by (idle_time).
NeverEarly == ~HALT /\ idle_time = 0 => owed <= 0

\* Every instruction takes exactly the cycles of opcode.h ("either idle_time was 0 and
\* the cycles value of the new instruction was affected to idle_time", cpu.c:379).
OnTime == ~HALT /\ idle_time = 0 => owed = 0

\* Liveness: with interrupts allowed, a requested and enabled interrupt is taken, or the
\* program withdraws it or disallows interrupts: no instruction keeps it waiting for ever.
Served ==
  \A i \in INTERRUPTS : (IME /\ i \in Pending) ~> (~IME \/ i \notin Pending)

\* Liveness: a CPU in HALT fetches again once an enabled interrupt is requested, also
\* with IME off, when nothing is going to serve it.  (It may fetch another HALT, and so
\* be seen in HALT again, but then PC has moved.)
Resumes ==
  \A a \in Addr : (HALT /\ PC = a /\ Pending # {}) ~> (~HALT \/ PC # a \/ Pending = {})
===============================================================================
