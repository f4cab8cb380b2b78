----------------------------- MODULE GameboyProofs -----------------------------
(***************************************************************************)
(* Proofs about module Gameboy, for every program, every width of the      *)
(* timer and any number of cycles: every store is heard by the component   *)
(* that watches its address, the boot ROM hands over to the cartridge      *)
(* without a gap, the timer's lead over the machine is the number of calls *)
(* that failed, and a request for an interrupt is lost only to a store     *)
(* that reaches IF.                                                        *)
(***************************************************************************)
EXTENDS Gameboy, TLAPS

USE DEF history, timerVars, cpuVars, busVars

-------------------------------------------------------------------------------
(* The boot ROM and the cartridge *)

BootInv == boot \in BOOLEAN /\ BootMapping

\* Only the boot ROM's listener touches the low addresses, and it turns all of them over.
LEMMA BootStep == BootInv /\ [Next]_vars => BootInv'
<1> SUFFICES ASSUME BootInv, [Next]_vars
             PROVE  BootInv'
  OBVIOUS
<1>1. CASE BootromListener
  <2>1. bootrom_bus_listener(write_listener)
    BY <1>1 DEF BootromListener
  <2>2. CASE UNCHANGED busVars
    BY <2>2 DEF BootInv, BootMapping
  <2>3. CASE low' = cartridge_plug(bus_unplug(low)) /\ boot' = FALSE
    <3>1. DOMAIN low = {"body", "last"}
      BY DEF BootInv, BootMapping
    <3>2. DOMAIN bus_unplug(low) = {"body", "last"}
      BY <3>1 DEF bus_unplug
    <3>3. low' = [p \in {"body", "last"} |-> "CARTRIDGE"]
      BY <3>2, <2>3 DEF cartridge_plug
    <3>4. QED
      BY <3>3, <2>3 DEF BootInv, BootMapping
  <2>4. QED
    BY <2>1, <2>2, <2>3 DEF bootrom_bus_listener
<1>2. CASE UNCHANGED busVars
  BY <1>2 DEF BootInv, BootMapping
<1>3. QED
  BY <1>1, <1>2
     DEF Next, InLoop, vars, RunUntil, KeyPressed, TimerCycle, LcdcCycle, CpuCycle, CpuCycleFails,
         TimerListener, LcdcListener, JoypadListener

\* The low addresses never show a hole or the boot ROM's last byte after it is turned
\* off (bootrom_bus_listener, bus_unplug).
THEOREM BootRomHandsOver == Spec => []BootMapping
<1>1. Init => BootInv
  BY DEF Init, BootInv, BootMapping
<1>2. BootInv => BootMapping
  BY DEF BootInv
<1>3. QED
  BY <1>1, <1>2, BootStep, PTL DEF Spec

-------------------------------------------------------------------------------
(* The lead of the timer *)

LeadInv == phase \in Phases /\ aborted \in Nat /\ ahead \in Nat /\ TimerLead

\* The lead grows with timer_cycle and shrinks with cycles++; a call that fails in
\* between leaves it one larger, and counts as aborted.
LEMMA LeadStep == LeadInv /\ [Next]_vars => LeadInv'
<1> SUFFICES ASSUME LeadInv, [Next]_vars
             PROVE  LeadInv'
  OBVIOUS
<1> USE DEF Phases
<1>t. phase \in Phases /\ aborted \in Nat /\ ahead \in Nat
      /\ ahead = aborted + (IF phase \in {"returned", "timer_cycle"} THEN 0 ELSE 1)
  BY DEF LeadInv, TimerLead
<1>1. CASE TimerCycle
  BY <1>t, <1>1 DEF TimerCycle, Goto, LeadInv, TimerLead
<1>2. CASE CpuCycleFails
  BY <1>t, <1>2 DEF CpuCycleFails, Goto, LeadInv, TimerLead
<1>3. CASE JoypadListener
  BY <1>t, <1>3 DEF JoypadListener, CountCycle, LeadInv, TimerLead
<1>4. CASE LcdcCycle \/ CpuCycle \/ TimerListener \/ BootromListener \/ LcdcListener
  <2>1. UNCHANGED <<ahead, aborted>>
    BY <1>4 DEF LcdcCycle, CpuCycle, TimerListener, BootromListener, LcdcListener
  <2>2. /\ phase \in Phases \ {"returned", "timer_cycle"}
        /\ phase' \in Phases \ {"returned", "timer_cycle"}
    BY <1>4 DEF Goto, LcdcCycle, CpuCycle, TimerListener, BootromListener, LcdcListener
  <2>3. QED
    BY <1>t, <2>1, <2>2 DEF LeadInv, TimerLead
<1>5. ASSUME NEW d \in -1..MaxRun, RunUntil(d)
      PROVE  LeadInv'
  <2>1. UNCHANGED <<ahead, aborted>>
    BY <1>5 DEF RunUntil
  <2>2. phase = "returned" /\ phase' \in {"returned", "timer_cycle"}
    BY <1>5 DEF RunUntil
  <2>3. QED
    BY <1>t, <2>1, <2>2 DEF LeadInv, TimerLead
<1>6. CASE KeyPressed \/ UNCHANGED vars
  <2>1. UNCHANGED <<phase, ahead, aborted>>
    BY <1>6 DEF KeyPressed, vars
  <2>2. QED
    BY <1>t, <2>1 DEF LeadInv, TimerLead
<1>7. QED
  BY <1>1, <1>2, <1>3, <1>4, <1>5, <1>6 DEF Next, InLoop

\* The timer is ahead of the machine by one cycle for each call that a failing
\* instruction cut short, and by no more, however long it runs (gameboy_run_until).
THEOREM LeadIsAborted == Spec => []TimerLead
<1>1. Init => LeadInv
  BY DEF Init, LeadInv, TimerLead, Phases
<1>2. LeadInv => TimerLead
  BY DEF LeadInv
<1>3. QED
  BY <1>1, <1>2, LeadStep, PTL DEF Spec

-------------------------------------------------------------------------------
(* Stores and listeners *)

Listeners == {"timer_bus_listener", "bootrom_bus_listener", "lcdc_bus_listener",
              "joypad_bus_listener"}

\* The listeners that have been called when the loop is about to make the call p.
CalledBefore(p) ==
  CASE p = "bootrom_bus_listener" -> {"timer_bus_listener"}
    [] p = "lcdc_bus_listener"    -> {"timer_bus_listener", "bootrom_bus_listener"}
    [] p = "joypad_bus_listener"  -> Listeners \ {"joypad_bus_listener"}
    [] p \in {"timer_cycle", "returned"} -> Listeners
    [] OTHER -> {}

\* The slot keeps the store's address until its owner has heard it: the timer's listener
\* overwrites the slot only for a store that was its own.
SlotKept == phase \in Listeners => write_listener = stored \/ stored \in heard

\* Each listener called so far has been told if the store was its own.
HeardSoFar == \A l \in CalledBefore(phase) : stored \in Watched[l] => stored \in heard

HeardInv == phase \in Phases /\ SlotKept /\ HeardSoFar

\* No listener watches address 0, which stands for no store.
LEMMA ZeroUnwatched == \A l \in Listeners : 0 \notin Watched[l]
  BY DEF Listeners, Watched, T!REG_DIV, T!REG_TAC, REG_BOOT_ROM_DISABLE, REG_DMA, REG_P1

\* A store puts its address in the slot, and no store clears it.
LEMMA SlotIsStored ==
  ASSUME Sleep \/ Wait \/ Interrupt \/ Execute
  PROVE  write_listener' = stored' /\ reached' \subseteq {stored', stored' + 1}
<1>1. CASE Sleep
  BY <1>1 DEF Sleep, NoStore
<1>2. CASE Wait
  BY <1>2 DEF Wait, NoStore
<1>3. CASE Interrupt
  BY <1>3 DEF Interrupt, Store16, StoreTo
<1>4. CASE Execute
  <2>1. PICK op \in Program : Simple(op) \/ StoreInstruction(op)
    BY <1>4 DEF Execute
  <2>2. CASE Simple(op)
    BY <2>2 DEF Simple, NoStore
  <2>3. CASE StoreInstruction(op)
    BY <2>3 DEF StoreInstruction, Store, Store16, StoreTo
  <2>4. QED
    BY <2>1, <2>2, <2>3
<1>5. QED
  BY <1>1, <1>2, <1>3, <1>4

\* The timer's listener leaves the slot alone, or overwrites it after a store of its own.
LEMMA TimerListenerSlot ==
  ASSUME T!timer_bus_listener(write_listener)
  PROVE  write_listener' = write_listener \/ write_listener \in Watched["timer_bus_listener"]
<1>1. CASE write_listener \in {T!REG_DIV, T!REG_TAC}
  BY <1>1 DEF Watched
<1>2. CASE write_listener \notin {T!REG_DIV, T!REG_TAC}
  BY <1>2 DEF T!timer_bus_listener
<1>3. QED
  BY <1>1, <1>2

\* Being told adds the store to what was heard, if the slot still holds its address.
LEMMA ToldIsHeard ==
  ASSUME NEW l \in Listeners, phase = l, SlotKept, Told, stored' = stored
  PROVE  /\ stored \in Watched[l] => stored \in heard'
         /\ heard \subseteq heard'
  BY DEF SlotKept, Told

\* Every step keeps the invariant.
LEMMA HeardStep == HeardInv /\ [Next]_vars => HeardInv'
<1> SUFFICES ASSUME HeardInv, [Next]_vars
             PROVE  HeardInv'
  OBVIOUS
<1>t. phase \in Phases /\ SlotKept /\ HeardSoFar
  BY DEF HeardInv
<1>1. CASE TimerCycle
  <2>1. phase' = "lcdc_cycle"
    BY <1>1 DEF TimerCycle, Goto
  <2>2. QED
    BY <2>1 DEF HeardInv, SlotKept, HeardSoFar, CalledBefore, Listeners, Phases
<1>2. CASE LcdcCycle
  <2>1. phase' = "cpu_cycle"
    BY <1>2 DEF LcdcCycle, Goto
  <2>2. QED
    BY <2>1 DEF HeardInv, SlotKept, HeardSoFar, CalledBefore, Listeners, Phases
<1>3. CASE CpuCycle
  <2>1. phase' = "timer_bus_listener" /\ write_listener' = stored'
    BY <1>3, SlotIsStored DEF CpuCycle, Goto
  <2>2. QED
    BY <2>1 DEF HeardInv, SlotKept, HeardSoFar, CalledBefore, Listeners, Phases
<1>4. CASE CpuCycleFails
  <2>1. phase' = "returned" /\ stored' = 0
    BY <1>4 DEF CpuCycleFails, Goto, Fail
  <2>2. HeardSoFar'
    BY <2>1, ZeroUnwatched DEF HeardSoFar, CalledBefore, Watched
  <2>3. QED
    BY <2>1, <2>2 DEF HeardInv, SlotKept, Listeners, Phases
<1>5. CASE TimerListener
  <2>1. /\ phase = "timer_bus_listener" /\ phase' = "bootrom_bus_listener"
        /\ stored' = stored /\ Told
    BY <1>5 DEF TimerListener, Goto
  <2>2. stored \in Watched["timer_bus_listener"] => stored \in heard'
    BY <2>1, <1>t, ToldIsHeard DEF Listeners
  <2>3. heard \subseteq heard'
    BY <2>1, <1>t, ToldIsHeard DEF Listeners
  <2>4. write_listener' = write_listener \/ write_listener \in Watched["timer_bus_listener"]
    BY <1>5, TimerListenerSlot DEF TimerListener
  <2>5. SlotKept'
    BY <2>1, <2>2, <2>3, <2>4, <1>t DEF SlotKept, Listeners
  <2>6. HeardSoFar'
    BY <2>1, <2>2 DEF HeardSoFar, CalledBefore, Watched
  <2>7. QED
    BY <2>1, <2>5, <2>6 DEF HeardInv, Phases
<1>6. CASE BootromListener
  <2>1. /\ phase = "bootrom_bus_listener" /\ phase' = "lcdc_bus_listener"
        /\ stored' = stored /\ write_listener' = write_listener /\ Told
    BY <1>6 DEF BootromListener, Goto
  <2>2. /\ stored \in Watched["bootrom_bus_listener"] => stored \in heard'
        /\ heard \subseteq heard'
    BY <2>1, <1>t, ToldIsHeard DEF Listeners
  <2>3. stored \in Watched["timer_bus_listener"] => stored \in heard
    BY <2>1, <1>t DEF HeardSoFar, CalledBefore
  <2>4. SlotKept'
    BY <2>1, <2>2, <1>t DEF SlotKept, Listeners
  <2>5. HeardSoFar'
    BY <2>1, <2>2, <2>3 DEF HeardSoFar, CalledBefore, Watched
  <2>6. QED
    BY <2>1, <2>4, <2>5 DEF HeardInv, Phases
<1>7. CASE LcdcListener
  <2>1. /\ phase = "lcdc_bus_listener" /\ phase' = "joypad_bus_listener"
        /\ stored' = stored /\ write_listener' = write_listener /\ Told
    BY <1>7 DEF LcdcListener, Goto
  <2>2. /\ stored \in Watched["lcdc_bus_listener"] => stored \in heard'
        /\ heard \subseteq heard'
    BY <2>1, <1>t, ToldIsHeard DEF Listeners
  <2>3. \A l \in {"timer_bus_listener", "bootrom_bus_listener"} :
          stored \in Watched[l] => stored \in heard
    BY <2>1, <1>t DEF HeardSoFar, CalledBefore
  <2>4. SlotKept'
    BY <2>1, <2>2, <1>t DEF SlotKept, Listeners
  <2>5. HeardSoFar'
    BY <2>1, <2>2, <2>3 DEF HeardSoFar, CalledBefore, Watched, Listeners
  <2>6. QED
    BY <2>1, <2>4, <2>5 DEF HeardInv, Phases
<1>8. CASE JoypadListener
  <2>1. /\ phase = "joypad_bus_listener" /\ phase' \in {"timer_cycle", "returned"}
        /\ stored' = stored /\ Told
    BY <1>8 DEF JoypadListener
  <2>2. /\ stored \in Watched["joypad_bus_listener"] => stored \in heard'
        /\ heard \subseteq heard'
    BY <2>1, <1>t, ToldIsHeard DEF Listeners
  <2>3. \A l \in Listeners \ {"joypad_bus_listener"} :
          stored \in Watched[l] => stored \in heard
    BY <2>1, <1>t DEF HeardSoFar, CalledBefore
  <2>4. HeardSoFar'
    BY <2>1, <2>2, <2>3 DEF HeardSoFar, CalledBefore, Watched
  <2>5. QED
    BY <2>1, <2>4 DEF HeardInv, SlotKept, Listeners, Phases
<1>9. ASSUME NEW d \in -1..MaxRun, RunUntil(d)
      PROVE  HeardInv'
  <2>1. /\ phase = "returned" /\ phase' \in {"returned", "timer_cycle"}
        /\ stored' = stored /\ heard' = heard
    BY <1>9 DEF RunUntil
  <2>2. \A l \in Listeners : stored \in Watched[l] => stored \in heard
    BY <2>1, <1>t DEF HeardSoFar, CalledBefore
  <2>3. QED
    BY <2>1, <2>2 DEF HeardInv, SlotKept, HeardSoFar, CalledBefore, Watched, Listeners, Phases
<1>10. CASE KeyPressed \/ UNCHANGED vars
  <2>1. UNCHANGED <<phase, write_listener, stored, heard>>
    BY <1>10 DEF KeyPressed, vars
  <2>2. QED
    BY <2>1, <1>t DEF HeardInv, SlotKept, HeardSoFar, CalledBefore, Watched
<1>11. QED
  BY <1>1, <1>2, <1>3, <1>4, <1>5, <1>6, <1>7, <1>8, <1>9, <1>10 DEF Next, InLoop

\* What a store reaches begins where it is announced, and ends a byte later at most.
ReachedInv == reached \subseteq {stored, stored + 1}

LEMMA ReachedStep == ReachedInv /\ [Next]_vars => ReachedInv'
<1> SUFFICES ASSUME ReachedInv, [Next]_vars
             PROVE  ReachedInv'
  OBVIOUS
<1>1. CASE CpuCycle
  BY <1>1, SlotIsStored DEF CpuCycle, ReachedInv
<1>2. CASE TimerCycle
  BY <1>2 DEF TimerCycle, ReachedInv
<1>3. CASE CpuCycleFails
  BY <1>3 DEF CpuCycleFails, Fail, ReachedInv
<1>4. CASE UNCHANGED <<stored, reached>>
  BY <1>4 DEF ReachedInv
<1>5. QED
  BY <1>1, <1>2, <1>3, <1>4
     DEF Next, InLoop, vars, RunUntil, KeyPressed, LcdcCycle, TimerListener, BootromListener,
         LcdcListener, JoypadListener

\* Between two cycles, the component that watches an address at which the CPU has stored has
\* been told of it, but for the second byte of a word (gameboy_run_until,
\* cpu_t.write_listener).
THEOREM StoresAreHeard == Spec => []StoreIsHeard
<1>1. Init => HeardInv /\ ReachedInv
  BY ZeroUnwatched
     DEF Init, HeardInv, SlotKept, HeardSoFar, CalledBefore, Watched, Listeners, Phases, ReachedInv
<1>2. HeardInv /\ ReachedInv => StoreIsHeard
  <2> SUFFICES ASSUME HeardInv, ReachedInv, phase \in {"returned", "timer_cycle"},
                      NEW a \in reached \cap WatchedAll, a # stored + 1
               PROVE  a \in heard
    BY DEF StoreIsHeard
  <2>1. a = stored
    BY DEF ReachedInv
  <2>2. PICK l \in Listeners : stored \in Watched[l]
    BY <2>1 DEF WatchedAll, Watched, Listeners
  <2>3. QED
    BY <2>1, <2>2 DEF HeardInv, HeardSoFar, CalledBefore
<1>3. QED
  BY <1>1, <1>2, HeardStep, ReachedStep, PTL DEF Spec

-------------------------------------------------------------------------------
(* Types *)

\* A call that is under way has cycles left to run.
Asked == phase # "returned" => todo > 0
TypeInv == TypeOK /\ LeadInv /\ BootInv /\ Asked

LEMMA TimerFacts ==
  /\ T!REG_DIV \in T!TimerRegs /\ T!REG_TIMA \in T!TimerRegs /\ T!REG_TMA \in T!TimerRegs
  /\ T!TimerRegs \subseteq Addresses
  /\ T!TIMER \in INTERRUPTS /\ ByteMax \in Nat \ {0} /\ T!Byte = 0..ByteMax
  /\ WriteValues \in [T!TimerRegs -> SUBSET T!Byte]
  BY SMT, TimerFits
     DEF T!TimerRegs, T!REG_DIV, T!REG_TIMA, T!REG_TMA, T!REG_TAC, T!TIMER, T!Byte, Addresses, MaxAddress

\* Whatever the timer's state was, an increment keeps the types, and every request.
LEMMA IncrTypes ==
  ASSUME NEW old, NEW c, NEW m \in [T!TimerRegs -> T!Byte], NEW from \in Addresses,
         IFR \in SUBSET INTERRUPTS, T!timer_incr_if_state_change(old, c, m, from)
  PROVE  /\ mem' \in [T!TimerRegs -> T!Byte]
         /\ IFR' \in SUBSET INTERRUPTS /\ IFR \subseteq IFR'
         /\ write_listener' \in Addresses
<1> USE TimerFacts
<1> DEFINE falling == old /\ ~T!timer_state(c, m)
<1>1. CASE ~falling
  <2>1. mem' = m /\ IFR' = IFR /\ write_listener' = from
    BY <1>1 DEF T!timer_incr_if_state_change
  <2>2. QED
    BY <2>1
<1>2. CASE falling /\ m[T!REG_TIMA] = ByteMax
  <2>1. mem' = [m EXCEPT ![T!REG_TIMA] = m[T!REG_TMA]] /\ IFR' = IFR \cup {T!TIMER}
        /\ write_listener' = T!REG_TIMA
    BY <1>2 DEF T!timer_incr_if_state_change
  <2>2. QED
    BY <2>1
<1>3. CASE falling /\ m[T!REG_TIMA] # ByteMax
  <2>1. mem' = [m EXCEPT ![T!REG_TIMA] = @ + 1] /\ IFR' = IFR /\ write_listener' = T!REG_TIMA
    BY <1>3 DEF T!timer_incr_if_state_change
  <2>2. m[T!REG_TIMA] \in T!Byte
    OBVIOUS
  <2>3. m[T!REG_TIMA] + 1 \in T!Byte
    BY <2>2, <1>3
  <2>4. QED
    BY <2>1, <2>3
<1>4. QED
  BY <1>1, <1>2, <1>3

LEMMA TimerCycleTypes ==
  ASSUME TypeOK, T!timer_cycle
  PROVE  /\ counter' \in 0..(CounterMod - 1) /\ mem' \in [T!TimerRegs -> T!Byte]
         /\ IFR' \in SUBSET INTERRUPTS /\ IFR \subseteq IFR'
         /\ write_listener' \in Addresses
<1> USE TimerFacts
<1> DEFINE c == (counter + IncCycle) % CounterMod
           m == [mem EXCEPT ![T!REG_DIV] = T!msb8(c)]
<1>1. c \in 0..(CounterMod - 1) /\ c \in Nat
  BY SMT, TimerFits DEF TypeOK
<1>2. T!msb8(c) \in T!Byte
  <2>1. c \div DivUnit \in Int
    BY SMT, <1>1, TimerFits
  <2>2. QED
    BY SMT, <2>1 DEF T!msb8
<1>3. m \in [T!TimerRegs -> T!Byte]
  BY <1>2 DEF TypeOK
<1>4. counter' = c
      /\ T!timer_incr_if_state_change(T!timer_state(counter, mem), c, m, T!REG_DIV)
  BY DEF T!timer_cycle
<1>5. T!REG_DIV \in Addresses /\ IFR \in SUBSET INTERRUPTS
  BY DEF TypeOK
<1> HIDE DEF c, m
<1>6. QED
  BY <1>1, <1>3, <1>4, <1>5, IncrTypes

LEMMA TimerListenerTypes ==
  ASSUME TypeOK, T!timer_bus_listener(write_listener)
  PROVE  /\ counter' \in 0..(CounterMod - 1) /\ mem' \in [T!TimerRegs -> T!Byte]
         /\ IFR' \in SUBSET INTERRUPTS /\ IFR \subseteq IFR'
         /\ write_listener' \in Addresses
<1>t. /\ mem \in [T!TimerRegs -> T!Byte] /\ IFR \in SUBSET INTERRUPTS
      /\ write_listener \in Addresses /\ counter \in 0..(CounterMod - 1)
      /\ 0 \in 0..(CounterMod - 1)
  BY SMT, TimerFits DEF TypeOK
<1>1. CASE /\ counter' = 0
           /\ T!timer_incr_if_state_change(T!timer_state(counter, mem), 0, mem, write_listener)
  BY <1>1, <1>t, IncrTypes
<1>2. CASE /\ counter' = counter
           /\ T!timer_incr_if_state_change(T!timer_state(counter, mem), counter, mem, write_listener)
  BY <1>2, <1>t, IncrTypes
<1>3. CASE UNCHANGED <<counter, mem, IFR, write_listener>>
  BY <1>3, <1>t
<1>4. QED
  BY <1>1, <1>2, <1>3 DEF T!timer_bus_listener

\* What the program can do to the rest of the machine in one cpu_cycle.
LEMMA CpuTypes ==
  ASSUME TypeOK, Sleep \/ Wait \/ Interrupt \/ Execute
  PROVE  /\ mem' \in [T!TimerRegs -> T!Byte]
         /\ IFR' \in SUBSET INTERRUPTS /\ IER' \in SUBSET INTERRUPTS
         /\ IME' \in BOOLEAN /\ HALT' \in BOOLEAN /\ idle_time' \in 0..(IdleMod - 1)
         /\ write_listener' \in Addresses /\ stored' \in Addresses
         /\ reached' \subseteq Addresses
<1> USE TimerFacts
<1>t. /\ mem \in [T!TimerRegs -> T!Byte]
      /\ IFR \in SUBSET INTERRUPTS /\ IER \in SUBSET INTERRUPTS
      /\ IME \in BOOLEAN /\ HALT \in BOOLEAN /\ idle_time \in 0..(IdleMod - 1)
  BY DEF TypeOK
<1>g. /\ IdleMod \in Nat \ {0} /\ INTERRUPT_CYCLES \in Nat /\ 0 \in Addresses
      /\ StoreAddrs \subseteq Addresses
      /\ \A a \in Store16Addrs : a \in Addresses /\ a + 1 \in Addresses
  <2>1. MaxAddress \in Nat
    BY DEF MaxAddress
  <2>2. QED
    BY SMT, <2>1, GameboyAssumption DEF Addresses
<1>c. ASSUME NEW cost \in Nat, Charge(cost)
      PROVE  idle_time' \in 0..(IdleMod - 1)
  <2>1. idle_time + cost - (IF HALT THEN 0 ELSE 1) \in Int
    BY SMT, <1>t, <1>g
  <2>2. QED
    BY SMT, <1>c, <2>1, <1>g DEF Charge
<1>f. ASSUME NEW a \in Addresses, NEW bytes \in SUBSET Addresses,
             NEW requests \in SUBSET INTERRUPTS, StoreTo(a, bytes, requests)
      PROVE  /\ IFR' \in SUBSET INTERRUPTS /\ IER' \in SUBSET INTERRUPTS
             /\ stored' \in Addresses /\ reached' \subseteq Addresses
  BY <1>f, <1>t DEF StoreTo
<1>s. ASSUME NEW a \in Store16Addrs, NEW lo \in ValuesAt(a), NEW hi \in ValuesAt(a + 1),
             NEW requests \in SUBSET INTERRUPTS, Store16(a, lo, hi, requests)
      PROVE  /\ mem' \in [T!TimerRegs -> T!Byte]
             /\ IFR' \in SUBSET INTERRUPTS /\ IER' \in SUBSET INTERRUPTS
             /\ write_listener' \in Addresses /\ stored' \in Addresses
             /\ reached' \subseteq Addresses
  <2>1. lo \in T!Byte /\ hi \in T!Byte
    BY DEF ValuesAt
  <2>2. a \in Addresses /\ {a, a + 1} \in SUBSET Addresses
    BY <1>g
  <2>3. mem' \in [T!TimerRegs -> T!Byte]
    BY <1>s, <2>1, <1>t DEF Store16, StoreWord
  <2>4. StoreTo(a, {a, a + 1}, requests) /\ write_listener' = a
    BY <1>s DEF Store16
  <2>5. QED
    BY <2>2, <2>3, <2>4, <1>f
<1>1. CASE Sleep
  BY <1>1, <1>t, <1>g DEF Sleep, NoStore
<1>2. CASE Wait
  BY SMT, <1>2, <1>t, <1>g DEF Wait, NoStore
<1>3. CASE Interrupt
  <2>1. /\ IME' = FALSE /\ HALT' = FALSE /\ Charge(INTERRUPT_CYCLES)
        /\ \E a \in Store16Addrs : \E lo \in ValuesAt(a), hi \in ValuesAt(a + 1) :
             Store16(a, lo, hi, IFR \ {look_for_interrupt})
    BY <1>3 DEF Interrupt
  <2>2. IFR \ {look_for_interrupt} \in SUBSET INTERRUPTS
    BY <1>t
  <2>3. QED
    BY <2>1, <2>2, <1>c, <1>s, <1>t, <1>g
<1>4. ASSUME NEW op \in Program, Simple(op)
      PROVE  /\ mem' = mem /\ IFR' = IFR /\ IER' = IER
             /\ IME' \in BOOLEAN /\ HALT' \in BOOLEAN /\ idle_time' \in 0..(IdleMod - 1)
             /\ write_listener' = 0 /\ stored' = 0 /\ reached' = {}
  <2>1. Charge(1) /\ NoStore /\ HALT' = (op = "HALT") /\ UNCHANGED <<IFR, IER>>
        /\ IME' = CASE op = "EI" -> TRUE [] op = "DI" -> FALSE [] OTHER -> IME
    BY <1>4 DEF Simple
  <2>2. QED
    BY <2>1, <1>c, <1>t DEF NoStore
<1>5. ASSUME NEW op \in Program, StoreInstruction(op)
      PROVE  /\ mem' \in [T!TimerRegs -> T!Byte]
             /\ IFR' \in SUBSET INTERRUPTS /\ IER' \in SUBSET INTERRUPTS
             /\ IME' \in BOOLEAN /\ HALT' \in BOOLEAN /\ idle_time' \in 0..(IdleMod - 1)
             /\ write_listener' \in Addresses /\ stored' \in Addresses
             /\ reached' \subseteq Addresses
  <2>1. Charge(2) /\ HALT' = FALSE /\ IME' = IME
    BY <1>5 DEF StoreInstruction
  <2>2. ASSUME NEW a \in StoreAddrs, Store(a)
        PROVE  /\ mem' \in [T!TimerRegs -> T!Byte]
               /\ IFR' \in SUBSET INTERRUPTS /\ IER' \in SUBSET INTERRUPTS
               /\ write_listener' \in Addresses /\ stored' \in Addresses
               /\ reached' \subseteq Addresses
    <3>1. mem' \in [T!TimerRegs -> T!Byte]
      <4>1. CASE a \in T!TimerRegs
        <5>1. PICK v \in WriteValues[a] : mem' = [mem EXCEPT ![a] = v]
          BY <2>2, <4>1 DEF Store
        <5>2. v \in T!Byte
          BY <4>1
        <5>3. QED
          BY <5>1, <5>2, <1>t
      <4>2. CASE a \notin T!TimerRegs
        BY <2>2, <4>2, <1>t DEF Store
      <4>3. QED
        BY <4>1, <4>2
    <3>2. a \in Addresses /\ StoreTo(a, {a}, IFR) /\ write_listener' = a
      BY <2>2, <1>g DEF Store
    <3>3. /\ IFR' \in SUBSET INTERRUPTS /\ IER' \in SUBSET INTERRUPTS
          /\ stored' \in Addresses /\ reached' \subseteq Addresses
      BY <3>2, <1>t, <1>f
    <3>4. QED
      BY <3>1, <3>2, <3>3
  <2>3. CASE \E a \in StoreAddrs : Store(a)
    BY <2>1, <2>2, <2>3, <1>c, <1>t
  <2>4. CASE \E a \in Store16Addrs : \E lo \in ValuesAt(a), hi \in ValuesAt(a + 1) :
               Store16(a, lo, hi, IFR)
    BY <2>1, <2>4, <1>s, <1>c, <1>t
  <2>5. QED
    BY <1>5, <2>3, <2>4 DEF StoreInstruction
<1>6. CASE Execute
  BY <1>6, <1>4, <1>5, <1>t, <1>g DEF Execute
<1>7. QED
  BY <1>1, <1>2, <1>3, <1>6
LEMMA FailTypes ==
  ASSUME TypeOK, Fail
  PROVE  /\ mem' = mem /\ IFR' = IFR /\ IER' = IER /\ IME' = IME /\ HALT' = FALSE
         /\ idle_time' \in 0..(IdleMod - 1) /\ write_listener' = 0 /\ stored' = 0
         /\ reached' = {} /\ result' \in {"ERR_NONE", "ERR_INSTR"}
<1>1. idle_time \in 0..(IdleMod - 1) /\ IdleMod \in Nat
  BY GameboyAssumption DEF TypeOK
<1>2. QED
  BY <1>1 DEF Fail

\* A listener is told an address that it watches, or nothing.
LEMMA ToldTypes ==
  ASSUME TypeOK, Told, phase \in Listeners
  PROVE  heard' \subseteq Addresses \ {0}
<1>1. write_listener \in Addresses /\ heard \subseteq Addresses \ {0}
  BY DEF TypeOK
<1>2. QED
  BY <1>1, ZeroUnwatched DEF Told

LEMMA TypeStep == TypeInv /\ [Next]_vars => TypeInv'
<1> SUFFICES ASSUME TypeInv, [Next]_vars
             PROVE  TypeInv'
  OBVIOUS
<1>l. LeadInv' /\ BootInv'
  BY LeadStep, BootStep DEF TypeInv
<1>o. TypeOK /\ Asked
  BY DEF TypeInv
<1>z. 0 \in Addresses
  BY DEF Addresses, MaxAddress
<1> SUFFICES TypeOK' /\ Asked'
  BY <1>l DEF TypeInv
<1>p. phase' \in Phases /\ ahead' \in Nat
  BY <1>l DEF LeadInv
<1>b. boot' \in BOOLEAN /\ low' \in [{"body", "last"} -> {"BOOT_ROM", "CARTRIDGE", "NOTHING"}]
  BY <1>l DEF BootInv, BootMapping
<1>1. CASE TimerCycle
  <2>1. /\ counter' \in 0..(CounterMod - 1) /\ mem' \in [T!TimerRegs -> T!Byte]
        /\ IFR' \in SUBSET INTERRUPTS /\ write_listener' \in Addresses
    BY <1>1, <1>o, TimerCycleTypes DEF TimerCycle
  <2>2. /\ phase = "timer_cycle" /\ stored' = 0 /\ reached' = {} /\ heard' = {}
        /\ UNCHANGED <<cpuVars, busVars, todo, result, aborted>>
    BY <1>1 DEF TimerCycle, Goto
  <2>3. QED
    BY <2>1, <2>2, <1>o, <1>p, <1>b, <1>z DEF TypeOK, Asked
<1>2. CASE LcdcCycle
  <2>1. /\ phase = "lcdc_cycle" /\ IFR' \in SUBSET INTERRUPTS
        /\ UNCHANGED <<timerVars, write_listener, cpuVars, busVars, todo, result, history>>
    BY <1>2, <1>o DEF LcdcCycle, Goto, TypeOK
  <2>2. QED
    BY <2>1, <1>o, <1>p DEF TypeOK, Asked
<1>3. CASE CpuCycle
  <2>1. /\ mem' \in [T!TimerRegs -> T!Byte]
        /\ IFR' \in SUBSET INTERRUPTS /\ IER' \in SUBSET INTERRUPTS
        /\ IME' \in BOOLEAN /\ HALT' \in BOOLEAN /\ idle_time' \in 0..(IdleMod - 1)
        /\ write_listener' \in Addresses /\ stored' \in Addresses
        /\ reached' \subseteq Addresses
    BY <1>3, <1>o, CpuTypes DEF CpuCycle
  <2>2. phase = "cpu_cycle" /\ UNCHANGED <<counter, busVars, todo, result, heard, ahead, aborted>>
    BY <1>3 DEF CpuCycle, Goto
  <2>3. QED
    BY <2>1, <2>2, <1>o, <1>p DEF TypeOK, Asked
<1>4. CASE CpuCycleFails
  <2>1. /\ mem' = mem /\ IFR' = IFR /\ IER' = IER /\ IME' = IME /\ HALT' = FALSE
        /\ idle_time' \in 0..(IdleMod - 1) /\ write_listener' = 0 /\ stored' = 0
        /\ reached' = {} /\ result' \in {"ERR_NONE", "ERR_INSTR"}
    BY <1>4, <1>o, FailTypes DEF CpuCycleFails
  <2>2. /\ phase = "cpu_cycle" /\ phase' = "returned" /\ UNCHANGED <<counter, busVars, todo, heard>>
        /\ aborted < MaxAborted /\ aborted' = aborted + 1
    BY <1>4 DEF CpuCycleFails, Goto
  <2>3. aborted' \in 0..MaxAborted
    BY <2>2, <1>o, GameboyAssumption DEF TypeOK
  <2>4. QED
    BY <2>1, <2>2, <2>3, <1>o, <1>p, <1>z DEF TypeOK, Asked
<1>5. CASE TimerListener
  <2>1. /\ counter' \in 0..(CounterMod - 1) /\ mem' \in [T!TimerRegs -> T!Byte]
        /\ IFR' \in SUBSET INTERRUPTS /\ write_listener' \in Addresses
    BY <1>5, <1>o, TimerListenerTypes DEF TimerListener
  <2>2. /\ phase = "timer_bus_listener" /\ Told
        /\ UNCHANGED <<cpuVars, busVars, todo, result, stored, reached, aborted>>
    BY <1>5 DEF TimerListener, Goto
  <2>3. heard' \subseteq Addresses \ {0}
    BY <2>2, <1>o, ToldTypes DEF Listeners
  <2>4. QED
    BY <2>1, <2>2, <2>3, <1>o, <1>p, <1>b DEF TypeOK, Asked
<1>6. CASE BootromListener \/ LcdcListener
  <2>1. /\ phase \in Listeners /\ phase # "returned" /\ Told
        /\ UNCHANGED <<timerVars, IFR, write_listener, cpuVars, todo, result, stored, reached, aborted>>
    BY <1>6 DEF BootromListener, LcdcListener, Goto, Listeners
  <2>2. heard' \subseteq Addresses \ {0}
    BY <2>1, <1>o, ToldTypes
  <2>3. QED
    BY <2>1, <2>2, <1>o, <1>p, <1>b DEF TypeOK, Asked
<1>7. CASE JoypadListener
  <2>1. /\ phase = "joypad_bus_listener" /\ Told /\ todo' = todo - 1
        /\ \/ todo' > 0 /\ UNCHANGED result
           \/ phase' = "returned" /\ result' = "ERR_NONE"
        /\ UNCHANGED <<timerVars, IFR, write_listener, cpuVars, busVars, stored, reached, aborted>>
    BY <1>7 DEF JoypadListener, CountCycle
  <2>2. heard' \subseteq Addresses \ {0}
    BY <2>1, <1>o, ToldTypes DEF Listeners
  <2>3. todo' \in 0..MaxRun
    BY <2>1, <1>o, GameboyAssumption DEF TypeOK, Asked
  <2>4. QED
    BY <2>1, <2>2, <2>3, <1>o, <1>p, <1>b DEF TypeOK, Asked
<1>8. ASSUME NEW d \in -1..MaxRun, RunUntil(d)
      PROVE  TypeOK' /\ Asked'
  <2>1. /\ phase = "returned"
        /\ UNCHANGED <<timerVars, IFR, write_listener, cpuVars, busVars, history>>
        /\ result' \in {result, "ERR_NONE", "ERR_BAD_PARAMETER"}
    BY <1>8 DEF RunUntil
  <2>2. todo' \in 0..MaxRun /\ Asked'
    BY <1>8, <1>o, GameboyAssumption DEF RunUntil, TypeOK, Asked
  <2>3. QED
    BY <2>1, <2>2, <1>o, <1>p, <1>b DEF TypeOK
<1>9. CASE KeyPressed
  <2>1. /\ IFR' \in SUBSET INTERRUPTS
        /\ UNCHANGED <<phase, timerVars, write_listener, cpuVars, busVars, todo, result, history>>
    BY <1>9, <1>o DEF KeyPressed, TypeOK
  <2>2. QED
    BY <2>1, <1>o DEF TypeOK, Asked
<1>10. CASE UNCHANGED vars
  BY <1>10, <1>o DEF TypeOK, Asked, vars
<1>11. QED
  BY <1>1, <1>2, <1>3, <1>4, <1>5, <1>6, <1>7, <1>8, <1>9, <1>10 DEF Next, InLoop

LEMMA TypeInit == Init => TypeInv
<1> SUFFICES ASSUME Init PROVE TypeInv
  OBVIOUS
<1>1. LeadInv /\ BootInv /\ Asked
  BY DEF Init, LeadInv, TimerLead, Phases, BootInv, BootMapping, Asked
<1>2. /\ 0 \in 0..(CounterMod - 1) /\ 0 \in T!Byte /\ 0 \in 0..(IdleMod - 1) /\ 0 \in 0..MaxRun
      /\ 0 \in 0..MaxAborted
  BY TimerFits, GameboyAssumption DEF T!Byte
<1>a. 0 \in Addresses
  BY DEF Addresses, MaxAddress
<1>3. TypeOK
  BY <1>2, <1>a DEF Init, TypeOK, Phases
<1>4. QED
  BY <1>1, <1>3 DEF TypeInv

LEMMA TypeIsInvariant == Spec => []TypeInv
  BY TypeInit, TypeStep, PTL DEF Spec

\* The machine keeps its types: counters their width, IF and IE the five interrupts, the
\* slot and the listeners addresses, and no cycle runs in a call that has none left.
THEOREM TypeCorrect == Spec => []TypeOK
<1>1. TypeInv => TypeOK
  BY DEF TypeInv
<1>2. QED
  BY <1>1, TypeIsInvariant, PTL

-------------------------------------------------------------------------------
(* Requests *)

\* Of the interrupts there are, one that waits has the lowest index.
LEMMA LowestIsPending ==
  ASSUME IFR \in SUBSET INTERRUPTS, Pending # {}
  PROVE  look_for_interrupt \in Pending
<1>1. \A i \in Pending : i \in 0..4
  BY TimerFits DEF Pending, VBLANK, JOYPAD
<1>2. \E i \in Pending : \A j \in Pending : i <= j
  <2>1. PICK k \in Pending : TRUE
    OBVIOUS
  <2> DEFINE First(n) == n \in Pending /\ \A j \in Pending : n <= j
  <2>2. CASE \E n \in 0..4 : First(n)
    BY <2>2
  <2>3. CASE \A n \in 0..4 : ~First(n)
    <3>1. 0 \notin Pending
      BY <2>3, <1>1
    <3>2. 1 \notin Pending
      BY <2>3, <1>1, <3>1
    <3>3. 2 \notin Pending
      BY <2>3, <1>1, <3>1, <3>2
    <3>4. 3 \notin Pending
      BY <2>3, <1>1, <3>1, <3>2, <3>3
    <3>5. 4 \notin Pending
      BY <2>3, <1>1, <3>1, <3>2, <3>3, <3>4
    <3>6. QED
      BY <2>1, <1>1, <3>1, <3>2, <3>3, <3>4, <3>5
  <2>4. QED
    BY <2>2, <2>3
<1>3. QED
  BY <1>2 DEF look_for_interrupt

Kept ==
  \/ IFR \subseteq IFR'
  \/ /\ phase = "cpu_cycle"
     /\ \/ REG_IF \in reached'
        \/ IME /\ ~IME' /\ IFR \ IFR' = {look_for_interrupt}

\* A store that does not reach IF leaves the requests as it finds them.
LEMMA StoreKeeps ==
  ASSUME NEW a, NEW bytes, NEW requests, StoreTo(a, bytes, requests), REG_IF \notin reached'
  PROVE  IFR' = requests
  BY DEF StoreTo

\* Entering a handler takes the one request that it serves, unless the return address is
\* pushed over IF.
LEMMA HandlerKeeps ==
  ASSUME IFR \in SUBSET INTERRUPTS, Interrupt, phase = "cpu_cycle"
  PROVE  Kept
<1>1. IME /\ Pending # {} /\ IME' = FALSE
  BY DEF Interrupt, Interrupted
<1>2. look_for_interrupt \in IFR
  BY <1>1, LowestIsPending DEF Pending
<1>3. PICK a \in Store16Addrs : StoreTo(a, {a, a + 1}, IFR \ {look_for_interrupt})
  BY DEF Interrupt, Store16
<1>4. CASE REG_IF \notin reached'
  <2>1. IFR' = IFR \ {look_for_interrupt}
    BY <1>3, <1>4, StoreKeeps
  <2>2. QED
    BY <1>1, <1>2, <2>1 DEF Kept
<1>5. QED
  BY <1>4 DEF Kept

\* An instruction takes no request, unless it stores to IF.
LEMMA InstructionKeeps ==
  ASSUME Execute, phase = "cpu_cycle"
  PROVE  Kept
<1>1. PICK op \in Program : Simple(op) \/ StoreInstruction(op)
  BY DEF Execute
<1>2. CASE Simple(op)
  BY <1>2 DEF Simple, Kept
<1>3. CASE StoreInstruction(op) /\ REG_IF \notin reached'
  <2>1. \E a, bytes : StoreTo(a, bytes, IFR)
    BY <1>3 DEF StoreInstruction, Store, Store16
  <2>2. IFR' = IFR
    BY <2>1, <1>3, StoreKeeps
  <2>3. QED
    BY <2>2 DEF Kept
<1>4. QED
  BY <1>1, <1>2, <1>3 DEF Kept

\* The timer, the LCD controller and keys add requests; only the CPU takes one away,
\* when it enters the handler or a byte it stores reaches IF.
LEMMA StepKeeps == TypeInv /\ [Next]_vars => Kept \/ UNCHANGED vars
<1> SUFFICES ASSUME TypeInv, Next
             PROVE  Kept
  BY DEF vars
<1>o. TypeOK /\ IFR \in SUBSET INTERRUPTS
  BY DEF TypeInv, TypeOK
<1>1. CASE TimerCycle
  BY <1>1, <1>o, TimerCycleTypes DEF TimerCycle, Kept
<1>2. CASE TimerListener
  BY <1>2, <1>o, TimerListenerTypes DEF TimerListener, Kept
<1>3. CASE CpuCycle
  <2>1. phase = "cpu_cycle" /\ (Sleep \/ Wait \/ Interrupt \/ Execute)
    BY <1>3 DEF CpuCycle, Goto
  <2>2. CASE Sleep \/ Wait
    BY <2>2 DEF Sleep, Wait, Kept
  <2>3. QED
    BY <2>1, <2>2, <1>o, HandlerKeeps, InstructionKeeps
<1>4. CASE CpuCycleFails
  BY <1>4 DEF CpuCycleFails, Fail, Kept
<1>5. CASE LcdcCycle \/ BootromListener \/ LcdcListener \/ JoypadListener \/ KeyPressed
  BY <1>5 DEF LcdcCycle, BootromListener, LcdcListener, JoypadListener, KeyPressed, Kept
<1>6. ASSUME NEW d \in -1..MaxRun, RunUntil(d)
      PROVE  Kept
  BY <1>6 DEF RunUntil, Kept
<1>7. QED
  BY <1>1, <1>2, <1>3, <1>4, <1>5, <1>6 DEF Next, InLoop

\* A request stays until it is served or a byte that the CPU stores, by an instruction or as
\* a return address on a stack over IF, reaches IF; whatever the timer, the LCD controller and
\* the keys do meanwhile, for every program and stack (cpu_request_interrupt, bus_write16).
THEOREM RequestsAreKept == Spec => RequestKept
<1>1. TypeInv /\ [Next]_vars => [Kept]_vars
  BY StepKeeps
<1>2. Spec => [][Kept]_vars
  BY <1>1, TypeIsInvariant, PTL DEF Spec
<1>3. QED
  BY <1>2 DEF RequestKept, Kept
===============================================================================
