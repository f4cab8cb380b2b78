-------------------------------- MODULE Gameboy --------------------------------
(***************************************************************************)
(* gameboy_run_until (gameboy.c): the loop that steps the timer, the LCD   *)
(* controller and the CPU, and then hands the address the CPU stored to,   *)
(* cpu_t.write_listener, to the four bus listeners, once per machine       *)
(* cycle.                                                                  *)
(*                                                                         *)
(* The CPU is reduced to what the rest of the machine can tell: sleeping   *)
(* in HALT, waiting out idle_time, entering an interrupt handler, storing  *)
(* a byte or a 16-bit word, changing IME, failing on an unknown opcode.    *)
(* Module Cpu has its program counter and stack.  The timer is module      *)
(* Timer.  The LCD controller and the joypad are binaries without source:  *)
(* only their calls and the interrupts they request are modelled.          *)
(*                                                                         *)
(* `cycles` only grows, so the state keeps todo, the cycles left to the    *)
(* target of the current call.                                             *)
(***************************************************************************)
EXTENDS Integers

CONSTANTS
  CounterMod, DivUnit, ByteMax, TacWeight, IncCycle, INTERRUPTS, WriteValues,
                    \* the timer's, see module Timer
  IdleMod,          \* 2^8: idle_time is a uint8_t
  INTERRUPT_CYCLES, \* 5: the cost of entering a handler
  Program,          \* the instructions the program is made of, see Instructions
  StoreAddrs,       \* where the program stores a byte
  Store16Addrs,     \* where the program stores a word, or the stack lies
  MaxRun,           \* bound: cycles asked for by one call of gameboy_run_until
  MaxAborted        \* bound: calls that an unknown instruction cuts short

MaxAddress == 65535     \* an addr_t has 16 bits
Addresses == 0..MaxAddress
REG_P1   == 65280       \* 0xFF00
REG_IF   == 65295       \* 0xFF0F
REG_DMA  == 65350       \* 0xFF46, stands for the LCD controller's registers
REG_BOOT_ROM_DISABLE == 65360   \* 0xFF50
REG_IE   == 65535       \* 0xFFFF
VBLANK == 0
JOYPAD == 4

Instructions == {"NOP", "HALT", "EI", "DI", "STORE", "STORE16", "UNKN"}

\* What Timer assumes of its constants, and the five interrupts of interrupt_t.
ASSUME TimerFits ==
  /\ CounterMod \in Nat \ {0} /\ DivUnit \in Nat \ {0} /\ IncCycle \in Nat \ {0}
  /\ ByteMax \in Nat \ {0}
  /\ 2 \in INTERRUPTS /\ INTERRUPTS \subseteq VBLANK..JOYPAD
  /\ WriteValues \in [65284..65287 -> SUBSET (0..ByteMax)]

ASSUME GameboyAssumption ==
  /\ IdleMod \in Nat \ {0} /\ INTERRUPT_CYCLES \in 1..IdleMod
  /\ Program \subseteq Instructions
  /\ StoreAddrs \subseteq 1..MaxAddress /\ Store16Addrs \subseteq 1..(MaxAddress - 1)
  /\ MaxRun \in Nat \ {0} /\ MaxAborted \in Nat

VARIABLES
  phase,            \* the call of gameboy_run_until that comes next, or "returned"
  counter, mem, IFR, write_listener,    \* see module Timer
  IER,              \* cpu_t.IE, as the set of the enabled interrupts
  IME, HALT,        \* cpu_t.IME and cpu_t.HALT
  idle_time,        \* cpu_t.idle_time
  boot,             \* gameboy_t.boot
  low,              \* what addresses 0x00..0xFE ("body") and 0xFF ("last") reach
  todo,             \* cycle - gameboy_t.cycles in the current call
  result,           \* what the last call of gameboy_run_until returned
  stored,           \* history: where the CPU stored in this cycle, 0 for nowhere
  reached,          \* history: the bytes it stored there, two of them for a word
  heard,            \* history: the stores of this cycle their owner was told of
  ahead,            \* history: timer cycles run minus machine cycles completed
  aborted           \* history: calls cut short by a failing cpu_cycle

timerVars == <<counter, mem>>
cpuVars   == <<IER, IME, HALT, idle_time>>
busVars   == <<boot, low>>
history   == <<stored, reached, heard, ahead, aborted>>
vars == <<phase, timerVars, IFR, write_listener, cpuVars, busVars, todo, result, history>>

T == INSTANCE Timer

Phases == {"returned", "timer_cycle", "lcdc_cycle", "cpu_cycle", "timer_bus_listener",
           "bootrom_bus_listener", "lcdc_bus_listener", "joypad_bus_listener"}

TypeOK ==
  /\ phase \in Phases
  /\ counter \in 0..(CounterMod - 1)
  /\ mem \in [T!TimerRegs -> T!Byte]
  /\ IFR \in SUBSET INTERRUPTS /\ IER \in SUBSET INTERRUPTS
  /\ write_listener \in Addresses
  /\ IME \in BOOLEAN /\ HALT \in BOOLEAN /\ idle_time \in 0..(IdleMod - 1)
  /\ boot \in BOOLEAN
  /\ low \in [{"body", "last"} -> {"BOOT_ROM", "CARTRIDGE", "NOTHING"}]
  /\ todo \in 0..MaxRun
  /\ result \in {"ERR_NONE", "ERR_BAD_PARAMETER", "ERR_INSTR"}
  /\ stored \in Addresses /\ reached \subseteq Addresses
  /\ heard \subseteq Addresses /\ 0 \notin heard
  /\ ahead \in Nat /\ aborted \in 0..MaxAborted

\* gameboy_create has succeeded: cartridge plugged first, the boot ROM over it.
Init ==
  /\ phase = "returned"
  /\ counter = 0 /\ mem = [r \in T!TimerRegs |-> 0]
  /\ IFR = {} /\ IER = {} /\ write_listener = 0
  /\ IME = FALSE /\ HALT = FALSE /\ idle_time = 0
  /\ boot = TRUE /\ low = [p \in {"body", "last"} |-> "BOOT_ROM"]
  /\ todo = 0 /\ result = "ERR_NONE"
  /\ stored = 0 /\ reached = {} /\ heard = {} /\ ahead = 0 /\ aborted = 0

-------------------------------------------------------------------------------
(* Which listener acts on which store *)

Watched == [timer_bus_listener |-> {T!REG_DIV, T!REG_TAC},
            bootrom_bus_listener |-> {REG_BOOT_ROM_DISABLE},
            lcdc_bus_listener |-> {REG_DMA},
            joypad_bus_listener |-> {REG_P1}]

Told == heard' = heard \cup ({write_listener} \cap Watched[phase])

-------------------------------------------------------------------------------
(* cpu_cycle *)

Pending == IFR \cap IER

\* look_for_interrupt: the lowest index wins.
look_for_interrupt == CHOOSE i \in Pending : \A j \in Pending : i <= j

\* cpu_cycle calls cpu_do_cycle.
Ready == IF HALT THEN Pending # {} ELSE idle_time = 0

Interrupted == IME /\ Pending # {}

\* Mutant: the cycle is taken off twice.
ChargeTwice(cost) == idle_time' = idle_time + cost - 2

\* Leaving HALT charges the cost without the decrement of the other path.
Charge(cost) ==
  idle_time' = (idle_time + cost - (IF HALT THEN 0 ELSE 1)) % IdleMod

\* The CPU has stored the bytes, the first one at a.  IF and IE are bytes on the bus
\* like any other: a store that reaches one rewrites it, else it is as given.
StoreTo(a, bytes, requests) ==
  /\ IFR' \in IF REG_IF \in bytes THEN SUBSET INTERRUPTS ELSE {requests}
  /\ IER' \in IF REG_IE \in bytes THEN SUBSET INTERRUPTS ELSE {IER}
  /\ stored' = a /\ reached' = bytes

StoreWord(a, lo, hi) ==
  mem' = [r \in T!TimerRegs |-> IF r = a THEN lo ELSE IF r = a + 1 THEN hi ELSE mem[r]]

\* Mutant: the listener is given the address of the second byte.
StoreHighAddress(a, lo, hi, requests) ==
  /\ StoreWord(a, lo, hi) /\ StoreTo(a, {a, a + 1}, requests)
  /\ write_listener' = a + 1

\* cpu_write16_at_idx: two bytes stored, only the first address is left for the
\* listeners.  `requests` is IF as the store finds it.
Store16(a, lo, hi, requests) ==
  /\ StoreWord(a, lo, hi) /\ StoreTo(a, {a, a + 1}, requests)
  /\ write_listener' = a

\* cpu_write_at_idx in a register, in IF, in IE or elsewhere.
Store(a) ==
  /\ write_listener' = a
  /\ IF a \in T!TimerRegs
     THEN \E v \in WriteValues[a] : mem' = [mem EXCEPT ![a] = v]
     ELSE UNCHANGED mem
  /\ StoreTo(a, {a}, IFR)

ValuesAt(a) == IF a \in T!TimerRegs THEN WriteValues[a] ELSE {0}

NoStore == write_listener' = 0 /\ stored' = 0 /\ reached' = {} /\ UNCHANGED mem

\* HALT and no interrupt is waiting.
Sleep ==
  /\ HALT /\ Pending = {}
  /\ NoStore
  /\ UNCHANGED <<IFR, cpuVars>>

\* The previous instruction still takes its time.
Wait ==
  /\ ~HALT /\ idle_time > 0
  /\ NoStore
  /\ idle_time' = idle_time - 1
  /\ UNCHANGED <<IFR, IER, IME, HALT>>

\* The bit in IF is cleared first; then the return address is pushed on the stack, a
\* 16-bit store.  A stack that lies over IF or IE rewrites it.
Interrupt ==
  /\ Ready /\ Interrupted
  /\ IME' = FALSE /\ HALT' = FALSE
  /\ \E a \in Store16Addrs : \E lo \in ValuesAt(a), hi \in ValuesAt(a + 1) :
       Store16(a, lo, hi, IFR \ {look_for_interrupt})
  /\ Charge(INTERRUPT_CYCLES)

Simple(op) ==
  /\ op \in {"NOP", "HALT", "EI", "DI"}
  /\ NoStore
  /\ HALT' = (op = "HALT")
  /\ IME' = CASE op = "EI" -> TRUE [] op = "DI" -> FALSE [] OTHER -> IME
  /\ Charge(1)
  /\ UNCHANGED <<IFR, IER>>

StoreInstruction(op) ==
  /\ HALT' = FALSE
  /\ UNCHANGED IME
  /\ Charge(2)
  /\ \/ op = "STORE" /\ \E a \in StoreAddrs : Store(a)
     \/ /\ op = "STORE16"
        /\ \E a \in Store16Addrs : \E lo \in ValuesAt(a), hi \in ValuesAt(a + 1) :
             Store16(a, lo, hi, IFR)

Execute ==
  /\ Ready /\ ~Interrupted
  /\ \E op \in Program : Simple(op) \/ StoreInstruction(op)

\* An unknown opcode: cpu_dispatch changes nothing and returns ERR_INSTR.  Each
\* M_REQUIRE_NO_ERR on the way up calls again what has failed, and the call of
\* cpu_cycle made again in gameboy_run_until no longer finds the CPU in HALT: with
\* idle time left over it only waits, returns ERR_NONE, and so does the loop.
Fail ==
  /\ Ready /\ ~Interrupted
  /\ "UNKN" \in Program
  /\ HALT' = FALSE
  /\ write_listener' = 0
  /\ IF idle_time > 0
     THEN idle_time' = idle_time - 1 /\ result' = "ERR_NONE"
     ELSE UNCHANGED idle_time /\ result' = "ERR_INSTR"
  /\ stored' = 0 /\ reached' = {}
  /\ UNCHANGED <<mem, IFR, IER, IME>>

-------------------------------------------------------------------------------
(* The loop *)

Goto(from, to) == phase = from /\ phase' = to

\* The caller asks for cycles up to d from now; a target in the past is refused.
RunUntil(d) ==
  /\ phase = "returned"
  /\ \/ d < 0 /\ result' = "ERR_BAD_PARAMETER" /\ UNCHANGED <<phase, todo>>
     \/ d = 0 /\ result' = "ERR_NONE" /\ todo' = 0 /\ UNCHANGED phase
     \/ d > 0 /\ todo' = d /\ phase' = "timer_cycle" /\ UNCHANGED result
  /\ UNCHANGED <<timerVars, IFR, write_listener, cpuVars, busVars, history>>

TimerCycle ==
  /\ Goto("timer_cycle", "lcdc_cycle")
  /\ T!timer_cycle
  /\ stored' = 0 /\ reached' = {} /\ heard' = {} /\ ahead' = ahead + 1
  /\ UNCHANGED <<cpuVars, busVars, todo, result, aborted>>

\* lcdc_cycle is external: it may request VBLANK.
LcdcCycle ==
  /\ Goto("lcdc_cycle", "cpu_cycle")
  /\ \/ IFR' = IFR
     \/ VBLANK \in INTERRUPTS /\ IFR' = IFR \cup {VBLANK}
  /\ UNCHANGED <<timerVars, write_listener, cpuVars, busVars, todo, result, history>>

CpuCycle ==
  /\ Goto("cpu_cycle", "timer_bus_listener")
  /\ Sleep \/ Wait \/ Interrupt \/ Execute
  /\ UNCHANGED <<counter, busVars, todo, result, heard, ahead, aborted>>

\* The failing cpu_cycle ends the call: no listener runs, the cycle is not counted.
CpuCycleFails ==
  /\ Goto("cpu_cycle", "returned")
  /\ aborted < MaxAborted /\ aborted' = aborted + 1
  /\ Fail
  /\ UNCHANGED <<counter, busVars, todo, heard, ahead>>

TimerListener ==
  /\ Goto("timer_bus_listener", "bootrom_bus_listener")
  /\ T!timer_bus_listener(write_listener)
  /\ Told
  /\ UNCHANGED <<cpuVars, busVars, todo, result, stored, reached, ahead, aborted>>

\* bus_unplug stops one address short of the component's end.
bus_unplug(map) == [map EXCEPT !["body"] = "NOTHING"]
cartridge_plug(map) == [p \in DOMAIN map |-> "CARTRIDGE"]

\* Mutant: the cartridge is not plugged again.
UnplugOnly(addr) ==
  IF addr = REG_BOOT_ROM_DISABLE /\ boot
  THEN low' = bus_unplug(low) /\ boot' = FALSE
  ELSE UNCHANGED busVars

bootrom_bus_listener(addr) ==
  IF addr = REG_BOOT_ROM_DISABLE /\ boot
  THEN low' = cartridge_plug(bus_unplug(low)) /\ boot' = FALSE
  ELSE UNCHANGED busVars

BootromListener ==
  /\ Goto("bootrom_bus_listener", "lcdc_bus_listener")
  /\ bootrom_bus_listener(write_listener)
  /\ Told
  /\ UNCHANGED <<timerVars, IFR, write_listener, cpuVars, todo, result, stored, reached, ahead, aborted>>

LcdcListener ==
  /\ Goto("lcdc_bus_listener", "joypad_bus_listener")
  /\ Told
  /\ UNCHANGED <<timerVars, IFR, write_listener, cpuVars, busVars, todo, result, stored, reached,
                 ahead, aborted>>

\* Mutant: only the cycles that end an instruction are counted.
CountFetches ==
  IF HALT \/ idle_time > 0 THEN UNCHANGED <<todo, ahead>> ELSE todo' = todo - 1 /\ ahead' = ahead - 1

\* Mutant: the cycles that the CPU sleeps through are not counted.
CountAwake == todo' = (IF HALT THEN todo ELSE todo - 1) /\ ahead' = ahead - 1

\* cycles++
CountCycle == todo' = todo - 1 /\ ahead' = ahead - 1

\* The last listener, then cycles++ and the test of the loop.
JoypadListener ==
  /\ phase = "joypad_bus_listener"
  /\ Told
  /\ CountCycle
  /\ \/ todo' > 0 /\ phase' = "timer_cycle" /\ UNCHANGED result
     \/ todo' = 0 /\ phase' = "returned" /\ result' = "ERR_NONE"
  /\ UNCHANGED <<timerVars, IFR, write_listener, cpuVars, busVars, stored, reached, aborted>>

\* A key event between two calls; the joypad is external and requests its interrupt.
KeyPressed ==
  /\ phase = "returned"
  /\ JOYPAD \in INTERRUPTS
  /\ IFR' = IFR \cup {JOYPAD}
  /\ UNCHANGED <<phase, timerVars, write_listener, cpuVars, busVars, todo, result, history>>

InLoop == TimerCycle \/ LcdcCycle \/ CpuCycle \/ CpuCycleFails \/ TimerListener
          \/ BootromListener \/ LcdcListener \/ JoypadListener

Next == InLoop \/ KeyPressed \/ \E d \in -1..MaxRun : RunUntil(d)

\* The loop runs to its end, and the window's timeout calls again with a later target.
Fairness == WF_vars(InLoop) /\ WF_vars(\E d \in 1..MaxRun : RunUntil(d))

Spec == Init /\ [][Next]_vars
FairSpec == Spec /\ Fairness

-------------------------------------------------------------------------------
(* Properties *)

\* A byte that the CPU stores where a component watches is made known to it before the
\* next cycle begins, although there is one slot, write_listener, which timer_cycle,
\* cpu_cycle and the timer's own listener all overwrite.  Nothing goes unheard but the
\* second byte of a word: one stored at 0xFF4F leaves the boot ROM on.
WatchedAll == UNION {Watched[l] : l \in DOMAIN Watched}
StoreIsHeard ==
  phase \in {"returned", "timer_cycle"} => reached \cap WatchedAll \subseteq heard \cup {stored + 1}

\* The low addresses belong to the boot ROM while boot is set and to the cartridge
\* from then on: bootrom_bus_listener never leaves a hole or a byte of the boot ROM
\* behind, although bus_unplug forgets its last address.
BootMapping == low = [p \in {"body", "last"} |-> IF boot THEN "BOOT_ROM" ELSE "CARTRIDGE"]

\* The timer runs exactly one cycle ahead of the machine for each call that a failing
\* instruction cut short, and one more while a cycle is under way: gameboy_run_until
\* has stepped the timer before cpu_cycle fails and does not undo it.
TimerLead ==
  ahead = aborted + (IF phase \in {"returned", "timer_cycle"} THEN 0 ELSE 1)

\* Only the CPU takes a request for an interrupt away: the one whose handler it enters,
\* with IME set, or any of them by a store of which a byte reaches IF.  A word stored
\* one address below does, and so does a return address pushed there on the way into a
\* handler, which can lose the other requests.  Timer, LCD, keys and the later calls of
\* the loop, the timer's listener among them, lose none.
RequestKept ==
  [][\/ IFR \subseteq IFR'
     \/ /\ phase = "cpu_cycle"
        /\ \/ REG_IF \in reached'
           \/ IME /\ ~IME' /\ IFR \ IFR' = {look_for_interrupt}]_vars

\* A call that returns ERR_NONE has reached its target ("Runs a gamefor for/until a
\* given cycle", gameboy.h).
ReturnMeansDone == phase = "returned" /\ result = "ERR_NONE" => todo = 0

\* Liveness: a program waiting in HALT with the timer running and its interrupt
\* enabled gets to run again: the loop keeps the timer going while the CPU sleeps.
\* (HALT itself may stay set: the instruction it wakes up to can be HALT again.)
TimerWaits == HALT /\ T!bit_get(mem[T!REG_TAC], 4) /\ T!TIMER \in IER
TimerWakes == TimerWaits ~> (phase = "cpu_cycle" /\ Ready)

\* Liveness: a call of gameboy_run_until returns.
CallReturns == phase # "returned" ~> phase = "returned"
===============================================================================
