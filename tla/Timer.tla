--------------------------------- MODULE Timer ---------------------------------
(***************************************************************************)
(* The timer of the emulator (timer.c) together with the part of the main  *)
(* loop that drives it (gameboy_run_until, gameboy.c).                     *)
(*                                                                         *)
(* One 16-bit counter advances by IncCycle every machine cycle.  DIV shows *)
(* its high byte, and TIMA counts the falling edges of the bit that TAC    *)
(* selects.  The CPU reaches the timer only through the bus: it writes a   *)
(* register and leaves the address in write_listener, and the loop hands   *)
(* that one address to timer_bus_listener after cpu_cycle has returned.    *)
(*                                                                         *)
(* The registers keep the addresses of timer.h.  The widths are constants, *)
(* so that TLC runs on a narrow timer and the proofs cover the real one.   *)
(***************************************************************************)
EXTENDS Integers

CONSTANTS
  CounterMod,   \* 2^16 in the code: the counter wraps there
  DivUnit,      \* 2^8: one step of DIV
  ByteMax,      \* 255
  TacWeight,    \* TacWeight[s]: weight of the counter bit for the TAC selector s
  IncCycle,     \* 4: what one machine cycle adds to the counter
  INTERRUPTS,   \* the interrupts modelled, a subset of the indices 0..4
  WriteValues   \* WriteValues[r]: the bytes the program writes in register r

REG_DIV  == 65284       \* 0xFF04
REG_TIMA == 65285       \* 0xFF05
REG_TMA  == 65286       \* 0xFF06
REG_TAC  == 65287       \* 0xFF07
TimerRegs == REG_DIV..REG_TAC

TIMER == 2              \* its index in interrupt_t
NoAddress == 0          \* write_listener holds 0 when nothing was written

Byte == 0..ByteMax

ASSUME TimerAssumption ==
  /\ CounterMod \in Nat \ {0} /\ DivUnit \in Nat \ {0} /\ IncCycle \in Nat \ {0}
  /\ ByteMax \in Nat \ {0}
  /\ TacWeight \in [0..3 -> Nat \ {0}]
  /\ TIMER \in INTERRUPTS
  /\ WriteValues \in [TimerRegs -> SUBSET Byte]

\* A period is a whole number of machine cycles, and the counter wraps at the end of one.
ASSUME PeriodsFit ==
  /\ CounterMod % IncCycle = 0
  /\ \A s \in 0..3 : TacWeight[s] % IncCycle = 0 /\ CounterMod % (2 * TacWeight[s]) = 0

VARIABLES
  phase,            \* the call of gameboy_run_until that comes next
  counter,          \* gbtimer_t.counter
  mem,              \* the bytes at the timer's addresses
  IFR,              \* cpu_t.IF, as the set of the requested interrupts
  write_listener    \* cpu_t.write_listener

vars == <<phase, counter, mem, IFR, write_listener>>

TypeOK ==
  /\ phase \in {"timer_cycle", "cpu_cycle", "timer_bus_listener"}
  /\ counter \in 0..(CounterMod - 1)
  /\ mem \in [TimerRegs -> Byte]
  /\ IFR \in SUBSET INTERRUPTS
  /\ write_listener \in {NoAddress} \cup (REG_DIV - 1)..REG_TAC

Init ==
  /\ phase = "timer_cycle"
  /\ counter = 0
  /\ mem = [r \in TimerRegs |-> 0]
  /\ IFR = {}
  /\ write_listener = NoAddress

-------------------------------------------------------------------------------
(* Helpers of bit.c, cpu-storage.c and timer.c *)

\* A bit of a value, given by the weight of its position (bit_get).
bit_get(value, weight) == (value \div weight) % 2 = 1

\* The high byte of the counter, truncated to the width of data_t.
msb8(value) == (value \div DivUnit) % (ByteMax + 1)

\* What the edge detector looks at: the enable bit of TAC and the selected bit.
timer_state(c, m) ==
  /\ bit_get(m[REG_TAC], 4)
  /\ bit_get(c, TacWeight[m[REG_TAC] % 4])

\* Mutants of the increment: rising edges; no reload and no request; the request
\* assigned to IF instead of added to it.
RisingIncr(old, c, m, from) ==
  IF ~old /\ timer_state(c, m) /\ m[REG_TIMA] < ByteMax
  THEN mem' = [m EXCEPT ![REG_TIMA] = @ + 1] /\ IFR' = IFR /\ write_listener' = REG_TIMA
  ELSE mem' = m /\ IFR' = IFR /\ write_listener' = from

SaturatingIncr(old, c, m, from) ==
  /\ mem' = IF old /\ ~timer_state(c, m) /\ m[REG_TIMA] < ByteMax
            THEN [m EXCEPT ![REG_TIMA] = @ + 1] ELSE m
  /\ IFR' = IFR
  /\ write_listener' = from

OverwritingIncr(old, c, m, from) ==
  /\ mem' = IF old /\ ~timer_state(c, m)
            THEN [m EXCEPT ![REG_TIMA] = IF @ = ByteMax THEN m[REG_TMA] ELSE @ + 1] ELSE m
  /\ IFR' = IF old /\ ~timer_state(c, m) /\ m[REG_TIMA] = ByteMax THEN {TIMER} ELSE IFR
  /\ write_listener' = from

\* Advance TIMA if the state was `old` and is low for the counter c, memory m.
\* `from` is the address the caller left in write_listener.
timer_incr_if_state_change(old, c, m, from) ==
  LET falling == old /\ ~timer_state(c, m) IN
  \/ /\ ~falling
     /\ mem' = m /\ IFR' = IFR /\ write_listener' = from
  \/ /\ falling
     /\ m[REG_TIMA] = ByteMax
     /\ IFR' = IFR \cup {TIMER}
     /\ mem' = [m EXCEPT ![REG_TIMA] = m[REG_TMA]]
     /\ write_listener' = REG_TIMA
  \/ /\ falling
     /\ m[REG_TIMA] # ByteMax
     /\ IFR' = IFR
     /\ mem' = [m EXCEPT ![REG_TIMA] = @ + 1]
     /\ write_listener' = REG_TIMA

-------------------------------------------------------------------------------
(* The entry points of timer.c *)

\* Mutant: DIV is written before the counter advances.
LateDivCycle ==
  LET c == (counter + IncCycle) % CounterMod IN
  /\ counter' = c
  /\ timer_incr_if_state_change(timer_state(counter, mem), c,
                                [mem EXCEPT ![REG_DIV] = msb8(counter)], REG_DIV)

\* Mutant: a counter that does not wrap.
WideCycle ==
  /\ counter' = counter + IncCycle
  /\ timer_incr_if_state_change(timer_state(counter, mem), counter + IncCycle,
                                [mem EXCEPT ![REG_DIV] = msb8(counter + IncCycle)], REG_DIV)

timer_cycle ==
  LET c == (counter + IncCycle) % CounterMod IN
  /\ counter' = c
  /\ timer_incr_if_state_change(timer_state(counter, mem), c,
                                [mem EXCEPT ![REG_DIV] = msb8(c)], REG_DIV)

\* Mutant: the edge is looked for after the counter is already zero.
BlindListener(addr) ==
  /\ counter' = IF addr = REG_DIV THEN 0 ELSE counter
  /\ UNCHANGED <<mem, IFR, write_listener>>

\* A write to TAC compares the new state with itself, so it never advances TIMA.
timer_bus_listener(addr) ==
  \/ /\ addr = REG_DIV
     /\ counter' = 0
     /\ timer_incr_if_state_change(timer_state(counter, mem), 0, mem, addr)
  \/ /\ addr = REG_TAC
     /\ UNCHANGED counter
     /\ timer_incr_if_state_change(timer_state(counter, mem), counter, mem, addr)
  \/ /\ addr \notin {REG_DIV, REG_TAC}
     /\ UNCHANGED <<counter, mem, IFR, write_listener>>

-------------------------------------------------------------------------------
(* cpu_cycle, as far as the timer can tell *)

\* The cycle writes nothing here; it may serve the TIMER interrupt, or
\* the program may store IF.
CpuElsewhere ==
  /\ IFR' \in SUBSET INTERRUPTS
  /\ write_listener' = NoAddress
  /\ UNCHANGED mem

\* An 8-bit store in a timer register (cpu_write_at_idx).
CpuWrite(r, v) ==
  /\ mem' = [mem EXCEPT ![r] = v]
  /\ write_listener' = r
  /\ UNCHANGED IFR

\* A 16-bit store (cpu_write16_at_idx): two bytes, the address of the first.
CpuWrite16(a, lo, hi) ==
  /\ mem' = [r \in TimerRegs |-> IF r = a THEN lo ELSE IF r = a + 1 THEN hi ELSE mem[r]]
  /\ write_listener' = a
  /\ UNCHANGED IFR

ValuesAt(a) == IF a \in TimerRegs THEN WriteValues[a] ELSE {0}

-------------------------------------------------------------------------------
(* The loop of gameboy_run_until *)

TimerStep ==
  /\ phase = "timer_cycle" /\ phase' = "cpu_cycle"
  /\ timer_cycle

CpuStep ==
  /\ phase = "cpu_cycle" /\ phase' = "timer_bus_listener"
  /\ UNCHANGED counter
  /\ \/ CpuElsewhere
     \/ \E r \in TimerRegs : \E v \in WriteValues[r] : CpuWrite(r, v)
     \/ \E a \in (REG_DIV - 1)..REG_TAC :
          \E lo \in ValuesAt(a), hi \in ValuesAt(a + 1) : CpuWrite16(a, lo, hi)

ListenerStep ==
  /\ phase = "timer_bus_listener" /\ phase' = "timer_cycle"
  /\ timer_bus_listener(write_listener)

Next == TimerStep \/ CpuStep \/ ListenerStep

\* gameboy_run_until is one sequential loop: it never stops between two calls.
Spec == Init /\ [][Next]_vars /\ WF_vars(Next)

-------------------------------------------------------------------------------
(* Properties *)

\* Whenever the CPU runs, and so can read DIV, DIV is the high byte of the
\* counter: a value the program stored there never survives to be read back.
DivShowsCounter == phase = "cpu_cycle" => mem[REG_DIV] = msb8(counter)

\* The timer counts whole periods of machine cycles, rounding the one under way
\* when DIV is reset, and requests an interrupt at every overflow: the counter and
\* its edge detector (timer_incr_if_state_change) implement TimerClock.
Turn ==
  CASE phase = "timer_cycle" -> "clock"
    [] phase = "cpu_cycle" -> "program"
    [] OTHER -> "settle"
Age == counter \div IncCycle
Period(s) == (2 * TacWeight[s]) \div IncCycle
Rate == IF bit_get(mem[REG_TAC], 4) THEN Period(mem[REG_TAC] % 4) ELSE 0
Restart == phase = "timer_bus_listener" /\ write_listener = REG_DIV

Clock == INSTANCE TimerClock WITH
  Wrap <- CounterMod \div IncCycle,
  Periods <- {Period(s) : s \in 0..3},
  TimaMax <- ByteMax,
  turn <- Turn, age <- Age, rate <- Rate,
  tima <- mem[REG_TIMA], tma <- mem[REG_TMA],
  requested <- TIMER \in IFR,
  restart <- Restart

ImplementsClock == Clock!Spec

\* Liveness: a timer that stays enabled, in a program that stops storing to the
\* timer's registers, requests its interrupt again and again (counter wrap and
\* reload of TIMA included).
TimerRunning ==
  <>[](bit_get(mem[REG_TAC], 4)) /\ <>[][phase = "cpu_cycle" => mem' = mem]_vars
Overflows == TIMER \in IFR /\ phase = "cpu_cycle"
KeepsTicking == TimerRunning => []<>Overflows
===============================================================================
