------------------------------- MODULE CpuProofs -------------------------------
(***************************************************************************)
(* Proofs about module Cpu, for every width of a byte, place and depth of  *)
(* the stack, set of interrupts and program: types are kept, no            *)
(* instruction is cut short, and Cpu implements CallStack.                 *)
(***************************************************************************)
EXTENDS Cpu, SequenceTheorems, TLAPS

Byte == 0..(ByteCount - 1)

-------------------------------------------------------------------------------
(* Words and bytes *)

\* The number of addresses is a positive number.
LEMMA AddrCountType == AddrCount \in Nat \ {0} /\ ByteCount <= AddrCount
<1>1. ByteCount \in Nat /\ ByteCount >= 2
  BY CpuAssumption
<1>2. QED
  BY <1>1, SMT DEF AddrCount

\* What a quotient is.
LEMMA Quotient ==
  ASSUME NEW p \in Nat, NEW u \in Nat \ {0}
  PROVE  /\ p \div u \in Nat
         /\ u * (p \div u) <= p
  BY SMT

\* A word has two bytes (lsb8, msb8).
LEMMA BytesOfWord ==
  ASSUME NEW w \in Addr
  PROVE  lsb8(w) \in Byte /\ msb8(w) \in Byte
<1>1. ByteCount \in Nat \ {0} /\ w \in Nat /\ w < ByteCount * ByteCount
  BY CpuAssumption, AddrCountType DEF Addr, AddrCount
<1>2. lsb8(w) \in Byte
  BY <1>1, SMT DEF lsb8, Byte
<1> DEFINE q == w \div ByteCount
<1>3. q \in Nat /\ ByteCount * q <= w
  BY <1>1, Quotient
<1> HIDE DEF q
<1>4. q < ByteCount
  <2>1. SUFFICES ASSUME q >= ByteCount
                 PROVE  FALSE
    BY <1>1, <1>3
  <2>2. ByteCount * q >= ByteCount * ByteCount
    BY <1>1, <1>3, <2>1, SMT
  <2>3. QED
    BY <1>1, <1>3, <2>2, SMT
<1>5. msb8(w) \in Byte
  BY <1>1, <1>3, <1>4 DEF msb8, Byte, q
<1>6. QED
  BY <1>2, <1>5

\* Two bytes make a word (merge8).
LEMMA WordOfBytes ==
  ASSUME NEW lo \in Byte, NEW hi \in Byte
  PROVE  merge8(lo, hi) \in Addr
<1>1. ByteCount \in Nat \ {0} /\ lo \in Nat /\ hi \in Nat /\ lo <= ByteCount - 1
      /\ hi <= ByteCount - 1
  BY CpuAssumption DEF Byte
<1>2. ByteCount * hi \in Nat /\ ByteCount * hi <= ByteCount * (ByteCount - 1)
  BY <1>1, SMT
<1>3. ByteCount * (ByteCount - 1) = ByteCount * ByteCount - ByteCount
  BY <1>1, SMT
<1>4. ByteCount * ByteCount \in Nat
  BY <1>1, SMT
<1>5. QED
  BY <1>1, <1>2, <1>3, <1>4, SMT DEF merge8, Addr, AddrCount

\* Addresses wrap (Plus).
LEMMA PlusType ==
  ASSUME NEW a \in Int, NEW n \in Int
  PROVE  Plus(a, n) \in Addr
<1>1. AddrCount \in Nat \ {0}
  BY AddrCountType
<1>2. QED
  BY <1>1, SMT DEF Plus, Addr

\* Handlers are at addresses (interrupt_address).
LEMMA HandlerType ==
  ASSUME NEW i \in INTERRUPTS
  PROVE  interrupt_address(i) \in Addr
<1>1. VectorStep \in Nat /\ i \in Nat
  BY CpuAssumption
<1>2. 8 * VectorStep \in Int /\ VectorStep * i \in Int
  BY <1>1, SMT
<1>3. QED
  BY <1>2, PlusType DEF interrupt_address

\* What the table gives an instruction are numbers.
LEMMA TableType ==
  ASSUME NEW f \in DOMAIN Instruction
  PROVE  /\ Instruction[f].bytes \in Nat
         /\ Instruction[f].cycles \in Nat
         /\ Instruction[f].xtra \in Nat
BY SMT DEF Instruction, Timing
-------------------------------------------------------------------------------
(* The inductive invariant: a step keeps the types because SP stays in the stack. *)

\* SP lies in the stack, on a word.  The bound on its depth, a guard of the model's pushes
\* and pops, and the steps of two bytes see to that.
SPInStack ==
  /\ SP \in (StackTop - 2 * MaxDepth)..StackTop
  /\ (StackTop - SP) % 2 = 0

IInv == TypeOK /\ SPInStack

\* Where the stack is, without its quotient: depth words below StackTop.
LEMMA StackRange ==
  ASSUME SPInStack
  PROVE  /\ SP \in Nat /\ Depth \in 0..MaxDepth
         /\ SP = StackTop - 2 * Depth
BY CpuAssumption, SMT DEF SPInStack, Depth

\* The word on top of the stack is a word, and its bytes are in ram.
LEMMA PoppedType ==
  ASSUME IInv, Depth > 0
  PROVE  Popped \in Addr
<1>1. SP \in StackAddrs /\ SP + 1 \in StackAddrs
  BY StackRange, CpuAssumption, SMT DEF IInv, StackAddrs
<1>2. ram[SP] \in Byte /\ ram[SP + 1] \in Byte
  BY <1>1 DEF IInv, TypeOK, Byte
<1>3. QED
  BY <1>2, WordOfBytes DEF Popped, cpu_read16_at_idx

\* A store of a word keeps the type of ram.
LEMMA StoreType ==
  ASSUME IInv, NEW a \in Int, NEW word \in Addr, cpu_write16_at_idx(a, word)
  PROVE  ram' \in [StackAddrs -> Byte]
<1>1. ram \in [StackAddrs -> Byte]
  BY DEF IInv, TypeOK, Byte
<1>2. lsb8(word) \in Byte /\ msb8(word) \in Byte
  BY BytesOfWord
<1>3. QED
  BY <1>1, <1>2 DEF cpu_write16_at_idx

\* What a push does (cpu_SP_push).
LEMMA PushEffect ==
  ASSUME IInv, NEW word \in Addr, cpu_SP_push(word)
  PROVE  ram' \in [StackAddrs -> Byte] /\ SPInStack'
<1>1. SP \in Nat /\ Depth \in 0..MaxDepth /\ SP = StackTop - 2 * Depth
  BY StackRange DEF IInv
<1>2. Depth < MaxDepth /\ SP' = SP - 2
  BY DEF cpu_SP_push
<1>3. SPInStack'
  BY <1>1, <1>2, CpuAssumption, SMT DEF SPInStack
<1>4. ram' \in [StackAddrs -> Byte]
  BY <1>1, StoreType DEF cpu_SP_push
<1>5. QED
  BY <1>3, <1>4

\* What a pop does (cpu_SP_pop).
LEMMA PopEffect ==
  ASSUME IInv, cpu_SP_pop
  PROVE  ram' \in [StackAddrs -> Byte] /\ SPInStack' /\ Popped \in Addr
<1>1. SP \in Nat /\ Depth \in 0..MaxDepth /\ SP = StackTop - 2 * Depth
  BY StackRange DEF IInv
<1>2. Depth > 0 /\ SP' = SP + 2 /\ ram' = ram
  BY DEF cpu_SP_pop
<1>3. SPInStack'
  BY <1>1, <1>2, CpuAssumption, SMT DEF SPInStack
<1>4. QED
  BY <1>2, <1>3, PoppedType DEF IInv, TypeOK, Byte

\* idle_time and owed keep their types (Charge).
LEMMA ChargeType ==
  ASSUME IInv, NEW n \in Nat, Charge(n)
  PROVE  idle_time' \in 0..(IdleMod - 1) /\ owed' \in Int
<1>1. idle_time \in Nat /\ IdleMod \in Nat \ {0}
  BY CpuAssumption DEF IInv, TypeOK
<1>2. QED
  BY <1>1, SMT DEF Charge

-------------------------------------------------------------------------------
(* One lemma for each group of instructions: what it does to PC, SP, ram and time *)

\* PC, SP, ram and the times keep their types after a step.
PlaceOK == PC \in Addr /\ ram \in [StackAddrs -> Byte] /\ SPInStack
TimeOK  == idle_time \in 0..(IdleMod - 1) /\ owed \in Int

\* The next instruction in memory is at an address.
LEMMA NextAddress ==
  ASSUME IInv, NEW f \in DOMAIN Instruction
  PROVE  Plus(PC, Instruction[f].bytes) \in Addr
<1>1. PC \in Int
  BY CpuAssumption, AddrCountType DEF IInv, TypeOK, Addr
<1>2. Instruction[f].bytes \in Int
  BY TableType
<1>3. QED
  BY <1>1, <1>2, PlusType

\* Families that only move on (Skip).
LEMMA SkipStep ==
  ASSUME IInv, NEW f \in DOMAIN Instruction, Skip(Instruction[f])
  PROVE  PlaceOK' /\ TimeOK'
<1>1. PC' \in Addr
  BY NextAddress DEF Skip
<1>2. TimeOK'
  BY TableType, ChargeType DEF Skip, TimeOK
<1>3. ram' \in [StackAddrs -> Byte] /\ SPInStack'
  BY DEF Skip, IInv, TypeOK, SPInStack, Byte
<1>4. QED
  BY <1>1, <1>2, <1>3 DEF PlaceOK

\* The time of an instruction whose condition holds.
LEMMA FullTime ==
  ASSUME IInv, NEW f \in DOMAIN Instruction,
         Charge(Instruction[f].cycles + Instruction[f].xtra)
  PROVE  TimeOK'
<1>1. Instruction[f].cycles + Instruction[f].xtra \in Nat
  BY TableType, SMT
<1>2. QED
  BY <1>1, ChargeType DEF TimeOK

\* Jumps (Take).
LEMMA TakeStep ==
  ASSUME IInv, NEW f \in DOMAIN Instruction, NEW target \in Targets,
         Take(Instruction[f], target)
  PROVE  PlaceOK' /\ TimeOK'
<1>1. PC' \in Addr
  BY CpuAssumption DEF Take
<1>2. TimeOK'
  BY FullTime DEF Take
<1>3. ram' \in [StackAddrs -> Byte] /\ SPInStack'
  BY DEF Take, IInv, TypeOK, SPInStack, Byte
<1>4. QED
  BY <1>1, <1>2, <1>3 DEF PlaceOK

\* Calls (CallTo).
LEMMA CallStep ==
  ASSUME IInv, NEW f \in DOMAIN Instruction, NEW target \in Targets,
         CallTo(Instruction[f], target)
  PROVE  PlaceOK' /\ TimeOK'
<1>1. PC' \in Addr
  BY CpuAssumption DEF CallTo
<1>2. TimeOK'
  BY FullTime DEF CallTo
<1>3. ram' \in [StackAddrs -> Byte] /\ SPInStack'
  BY NextAddress, PushEffect DEF CallTo
<1>4. QED
  BY <1>1, <1>2, <1>3 DEF PlaceOK

\* Returns (Return).
LEMMA ReturnStep ==
  ASSUME IInv, NEW f \in DOMAIN Instruction, Return(Instruction[f])
  PROVE  PlaceOK' /\ TimeOK'
<1>1. TimeOK'
  BY FullTime DEF Return
<1>2. QED
  BY <1>1, PopEffect DEF Return, PlaceOK

\* PUSH.
LEMMA PushStep ==
  ASSUME IInv, NEW f \in DOMAIN Instruction, NEW word \in PushWords, cpu_SP_push(word),
         PC' = Plus(PC, Instruction[f].bytes), Charge(Instruction[f].cycles)
  PROVE  PlaceOK' /\ TimeOK'
<1>1. word \in Addr
  BY CpuAssumption
<1>2. TimeOK'
  BY TableType, ChargeType DEF TimeOK
<1>3. QED
  BY <1>1, <1>2, NextAddress, PushEffect DEF PlaceOK

\* POP.
LEMMA PopStep ==
  ASSUME IInv, NEW f \in DOMAIN Instruction, cpu_SP_pop,
         PC' = Plus(PC, Instruction[f].bytes), Charge(Instruction[f].cycles)
  PROVE  PlaceOK' /\ TimeOK'
<1>1. TimeOK'
  BY TableType, ChargeType DEF TimeOK
<1>2. QED
  BY <1>1, NextAddress, PopEffect DEF PlaceOK

\* Any instruction (cpu_dispatch).
LEMMA DispatchStep ==
  ASSUME IInv, NEW f \in Program, cpu_dispatch(f, Instruction[f])
  PROVE  PlaceOK' /\ TimeOK'
<1> DEFINE t == Instruction[f]
<1>f. f \in DOMAIN Instruction
  BY CpuAssumption
<1>1. CASE Skip(t)
  BY <1>f, <1>1, SkipStep
<1>2. CASE \E target \in Targets : Take(t, target)
  BY <1>f, <1>2, TakeStep
<1>3. CASE \E target \in Targets : CallTo(t, target)
  BY <1>f, <1>3, CallStep
<1>4. CASE Return(t)
  BY <1>f, <1>4, ReturnStep
<1>5. CASE /\ \E word \in PushWords : cpu_SP_push(word)
           /\ PC' = Plus(PC, t.bytes) /\ Charge(t.cycles)
  BY <1>f, <1>5, PushStep
<1>6. CASE cpu_SP_pop /\ PC' = Plus(PC, t.bytes) /\ Charge(t.cycles)
  BY <1>f, <1>6, PopStep
<1>7. QED
  BY <1>1, <1>2, <1>3, <1>4, <1>5, <1>6, Zenon DEF cpu_dispatch

\* What an instruction does to the switches (cpu_dispatch).
LEMMA DispatchSwitches ==
  ASSUME IInv, NEW f \in Program, cpu_dispatch(f, Instruction[f])
  PROVE  /\ IME' \in BOOLEAN /\ HALT' \in BOOLEAN
         /\ IFR' \in SUBSET INTERRUPTS /\ IER' \in SUBSET INTERRUPTS
<1>1. IME \in BOOLEAN /\ IFR \in SUBSET INTERRUPTS /\ IER \in SUBSET INTERRUPTS
  BY DEF IInv, TypeOK
<1>2. HALT' \in BOOLEAN
  BY Zenon DEF cpu_dispatch
<1>3. IFR' \in SUBSET INTERRUPTS /\ IER' \in SUBSET INTERRUPTS
  BY <1>1, Zenon DEF cpu_dispatch
<1>4. IME' = IME \/ IME' \in BOOLEAN
  BY Zenon DEF cpu_dispatch, Take, CallTo
<1>5. QED
  BY <1>1, <1>2, <1>3, <1>4

-------------------------------------------------------------------------------
(* The steps of cpu_cycle *)

\* Together these are the invariant in the next state.
LEMMA Assemble ==
  ASSUME PlaceOK', TimeOK',
         IME' \in BOOLEAN, HALT' \in BOOLEAN,
         IFR' \in SUBSET INTERRUPTS, IER' \in SUBSET INTERRUPTS
  PROVE  IInv'
<1>1. SP' \in Nat
  BY CpuAssumption DEF PlaceOK, SPInStack
<1>2. TypeOK'
  BY <1>1 DEF PlaceOK, TimeOK, TypeOK, Byte
<1>3. QED
  BY <1>2 DEF PlaceOK, IInv

\* An instruction.
LEMMA FetchStep == IInv /\ FetchAndExecute => IInv'
<1> SUFFICES ASSUME IInv, FetchAndExecute
             PROVE  IInv'
  OBVIOUS
<1>1. PICK f \in Program : cpu_dispatch(f, Instruction[f])
  BY DEF FetchAndExecute
<1>2. QED
  BY <1>1, DispatchStep, DispatchSwitches, Assemble

\* The interrupt that is served is pending, and no other is more urgent
\* (look_for_interrupt).
LEMMA LowestIsPending ==
  ASSUME IInv, Pending # {}
  PROVE  /\ look_for_interrupt \in Pending /\ look_for_interrupt \in INTERRUPTS
         /\ \A j \in Pending : look_for_interrupt <= j
<1>1. Pending \subseteq INTERRUPTS /\ Pending \subseteq 0..4
  BY CpuAssumption DEF Pending, IInv, TypeOK
<1>2. \E i \in Pending : \A j \in Pending : i <= j
  <2>1. \A j \in Pending : j \in {0, 1, 2, 3, 4}
    BY <1>1, SMT
  <2>2. CASE 0 \in Pending
    BY <2>1, <2>2, SMT
  <2>3. CASE 0 \notin Pending /\ 1 \in Pending
    BY <2>1, <2>3, SMT
  <2>4. CASE Pending \cap {0, 1} = {} /\ 2 \in Pending
    BY <2>1, <2>4, SMT
  <2>5. CASE Pending \cap {0, 1, 2} = {} /\ 3 \in Pending
    BY <2>1, <2>5, SMT
  <2>6. CASE Pending \cap {0, 1, 2, 3} = {}
    BY <2>1, <2>6, SMT
  <2>7. QED
    BY <2>2, <2>3, <2>4, <2>5, <2>6
<1>3. look_for_interrupt \in Pending /\ \A j \in Pending : look_for_interrupt <= j
  BY <1>2 DEF look_for_interrupt
<1>4. QED
  BY <1>1, <1>3

\* Entering a handler.
LEMMA HandlerStep == IInv /\ EnterHandler => IInv'
<1> SUFFICES ASSUME IInv, EnterHandler
             PROVE  IInv'
  OBVIOUS
<1>1. look_for_interrupt \in INTERRUPTS
  BY LowestIsPending DEF EnterHandler, Interrupted
<1>2. PC' \in Addr
  BY <1>1, HandlerType DEF EnterHandler
<1>3. PC \in Addr
  BY DEF IInv, TypeOK
<1>4. ram' \in [StackAddrs -> Byte] /\ SPInStack'
  BY <1>3, PushEffect DEF EnterHandler
<1>5. TimeOK'
  BY ChargeType DEF EnterHandler, INTERRUPT_CYCLES, TimeOK
<1>6. IFR' \in SUBSET INTERRUPTS /\ IER' \in SUBSET INTERRUPTS
  BY DEF EnterHandler, IInv, TypeOK
<1>7. IME' \in BOOLEAN /\ HALT' \in BOOLEAN
  BY DEF EnterHandler
<1>8. QED
  BY <1>2, <1>4, <1>5, <1>6, <1>7, Assemble DEF PlaceOK

\* Every step keeps the invariant.
LEMMA NextIInv == IInv /\ [Next]_vars => IInv'
<1> SUFFICES ASSUME IInv, [Next]_vars
             PROVE  IInv'
  OBVIOUS
<1>1. CASE EnterHandler
  BY <1>1, HandlerStep
<1>2. CASE FetchAndExecute
  BY <1>2, FetchStep
<1>3. CASE Wait
  <2>1. idle_time \in 0..(IdleMod - 1) /\ IdleMod \in Nat /\ owed \in Int
    BY CpuAssumption DEF IInv, TypeOK
  <2>2. TimeOK'
    BY <1>3, <2>1, SMT DEF Wait, TimeOK
  <2>3. QED
    BY <1>3, <2>2 DEF Wait, machine, TimeOK, IInv, TypeOK, SPInStack
<1>4. ASSUME NEW i \in INTERRUPTS, cpu_request_interrupt(i)
      PROVE  IInv'
  BY <1>4 DEF cpu_request_interrupt, IInv, TypeOK, SPInStack
<1>5. CASE UNCHANGED vars
  BY <1>5 DEF vars, machine, IInv, TypeOK, SPInStack
<1>6. QED
  BY <1>1, <1>2, <1>3, <1>4, <1>5 DEF Next, cpu_cycle

\* It holds at the start.
LEMMA InitIInv == Init => IInv
<1> SUFFICES ASSUME Init
             PROVE  IInv
  OBVIOUS
<1>1. SPInStack
  BY CpuAssumption, SMT DEF Init, SPInStack
<1>2. 0 \in Addr /\ 0 \in Byte
  BY CpuAssumption, AddrCountType DEF Addr, Byte
<1>3. TypeOK
  <2>1. IME \in BOOLEAN /\ HALT \in BOOLEAN
    BY Zenon DEF Init
  <2>2. IFR \in SUBSET INTERRUPTS /\ IER \in SUBSET INTERRUPTS
    BY DEF Init
  <2>3. ram \in [StackAddrs -> Byte] /\ PC \in Addr
    BY <1>2 DEF Init
  <2>4. SP \in Nat /\ idle_time \in 0..(IdleMod - 1) /\ owed \in Int
    BY CpuAssumption, SMT DEF Init
  <2>5. QED
    BY <2>1, <2>2, <2>3, <2>4 DEF TypeOK, Byte
<1>4. QED
  BY <1>1, <1>3 DEF IInv

-------------------------------------------------------------------------------
\* Registers, stack and times keep their types in every run (cpu_cycle).
THEOREM TypeCorrect == Spec => []TypeOK
<1>1. IInv => TypeOK
  BY DEF IInv
<1>2. QED
  BY <1>1, InitIInv, NextIInv, PTL DEF Spec

-------------------------------------------------------------------------------
(* Time.  idle_time covers what an instruction still owes, and in HALT it is far *)
(* from wrapping.  The first conjunct alone is not inductive: leaving HALT adds  *)
(* the cycles of an instruction to what was left over, modulo IdleMod.           *)

Covered == ~HALT => owed <= idle_time
HaltIdle == HALT => idle_time <= MaxHaltIdle + 1
TimeInv == IInv /\ Covered /\ HaltIdle

\* idle_time is wide enough for an instruction after a HALT; it is 2^8 in the code.
WideEnough == MaxHaltIdle + 7 < IdleMod

\* No instruction of the table takes more than six cycles.
LEMMA TableBound ==
  ASSUME NEW f \in DOMAIN Instruction
  PROVE  /\ Instruction[f].cycles \in 0..6
         /\ Instruction[f].cycles + Instruction[f].xtra \in 0..6
BY SMT DEF Instruction, Timing

\* What begins now is covered (Charge).
LEMMA ChargeCovers ==
  ASSUME TimeInv, WideEnough, Ready, NEW n \in 0..6, Charge(n)
  PROVE  /\ owed' <= idle_time'
         /\ n = 1 /\ idle_time <= MaxHaltIdle => idle_time' <= MaxHaltIdle + 1
<1>1. idle_time \in Nat /\ IdleMod \in Nat \ {0} /\ MaxHaltIdle \in Nat
  BY CpuAssumption DEF TimeInv, IInv, TypeOK
<1>2. CASE HALT
  <2>1. idle_time <= MaxHaltIdle + 1
    BY <1>2 DEF TimeInv, HaltIdle
  <2>2. idle_time' = (idle_time + n) % IdleMod /\ owed' = n - 1
    BY <1>1, <1>2 DEF Charge
  <2>3. idle_time + n < IdleMod
    BY <1>1, <2>1 DEF WideEnough
  <2>4. idle_time' = idle_time + n
    BY <1>1, <2>2, <2>3, SMT
  <2>5. QED
    BY <1>1, <2>2, <2>4
<1>3. CASE ~HALT
  <2>1. idle_time = 0
    BY <1>3 DEF Ready
  <2>2. idle_time' = (n - 1) % IdleMod /\ owed' = n - 1
    BY <1>3, <2>1 DEF Charge
  <2>3. CASE n = 0
    BY <1>1, <2>2, <2>3, SMT
  <2>4. CASE n > 0
    <3>1. n - 1 < IdleMod
      BY <1>1 DEF WideEnough
    <3>2. idle_time' = n - 1
      BY <1>1, <2>2, <2>4, <3>1, SMT
    <3>3. QED
      BY <1>1, <2>2, <3>2
  <2>5. QED
    BY <2>3, <2>4
<1>4. QED
  BY <1>2, <1>3

\* Every instruction charges the cycles of the table, with or without the extra ones.
LEMMA DispatchCharges ==
  ASSUME IInv, NEW f \in Program, cpu_dispatch(f, Instruction[f])
  PROVE  /\ \E n \in 0..6 : Charge(n) /\ (f = "HALT" => n = 1)
         /\ HALT' = (f = "HALT")
         /\ f = "HALT" => idle_time <= MaxHaltIdle
<1> DEFINE t == Instruction[f]
<1>1. t.cycles \in 0..6 /\ t.cycles + t.xtra \in 0..6
  BY TableBound, CpuAssumption
<1>2. Charge(t.cycles) \/ Charge(t.cycles + t.xtra)
  BY Zenon DEF cpu_dispatch, Skip, Take, CallTo, Return
<1>3. f = "HALT" => t.cycles = 1 /\ t.cycles + t.xtra = 1
  BY SMT DEF Instruction, Timing
<1>4. HALT' = (f = "HALT")
  BY DEF cpu_dispatch
<1>5. f = "HALT" => idle_time <= MaxHaltIdle
  BY DEF cpu_dispatch
<1>6. QED
  BY <1>1, <1>2, <1>3, <1>4, <1>5

\* One step keeps the instruction under way covered.
LEMMA NextTimeInv == WideEnough /\ TimeInv /\ [Next]_vars => TimeInv'
<1> SUFFICES ASSUME WideEnough, TimeInv, [Next]_vars
             PROVE  TimeInv'
  OBVIOUS
<1>0. IInv'
  BY NextIInv DEF TimeInv
<1>1. CASE EnterHandler
  <2>1. Ready /\ Charge(5) /\ ~HALT'
    BY <1>1 DEF EnterHandler, INTERRUPT_CYCLES
  <2>2. owed' <= idle_time'
    BY <2>1, ChargeCovers
  <2>3. QED
    BY <1>0, <2>1, <2>2 DEF TimeInv, Covered, HaltIdle
<1>2. CASE FetchAndExecute
  <2>1. PICK f \in Program : cpu_dispatch(f, Instruction[f])
    BY <1>2 DEF FetchAndExecute
  <2>2. PICK n \in 0..6 : Charge(n) /\ (f = "HALT" => n = 1)
    BY <2>1, DispatchCharges DEF TimeInv
  <2>3. /\ owed' <= idle_time'
        /\ n = 1 /\ idle_time <= MaxHaltIdle => idle_time' <= MaxHaltIdle + 1
    BY <1>2, <2>2, ChargeCovers DEF FetchAndExecute
  <2>4. HALT' => idle_time' <= MaxHaltIdle + 1
    BY <2>1, <2>2, <2>3, DispatchCharges DEF TimeInv
  <2>5. QED
    BY <1>0, <2>3, <2>4 DEF TimeInv, Covered, HaltIdle
<1>3. CASE Wait
  <2>1. ~HALT /\ ~HALT' /\ owed <= idle_time
    BY <1>3 DEF Wait, machine, TimeInv, Covered
  <2>2. owed' <= idle_time'
    BY <1>3, <2>1, CpuAssumption, SMT DEF Wait, TimeInv, IInv, TypeOK
  <2>3. QED
    BY <1>0, <2>1, <2>2 DEF TimeInv, Covered, HaltIdle
<1>4. ASSUME NEW i \in INTERRUPTS, cpu_request_interrupt(i)
      PROVE  TimeInv'
  BY <1>0, <1>4 DEF cpu_request_interrupt, TimeInv, Covered, HaltIdle
<1>5. CASE UNCHANGED vars
  BY <1>0, <1>5 DEF vars, machine, TimeInv, Covered, HaltIdle
<1>6. QED
  BY <1>1, <1>2, <1>3, <1>4, <1>5 DEF Next, cpu_cycle

\* An instruction always gets at least its cycles of the table before the next one is
\* fetched, whatever interrupts and HALTs there are (idle_time in cpu_cycle).
THEOREM NeverCutShort ==
  ASSUME WideEnough
  PROVE  Spec => []NeverEarly
<1>1. Init => TimeInv
  <2>1. Init => Covered /\ HaltIdle
    BY DEF Init, Covered, HaltIdle
  <2>2. QED
    BY <2>1, InitIInv DEF TimeInv
<1>2. TimeInv => NeverEarly
  BY DEF TimeInv, Covered, NeverEarly
<1>3. TimeInv /\ [Next]_vars => TimeInv'
  BY NextTimeInv
<1>4. QED
  BY <1>1, <1>2, <1>3, PTL DEF Spec

-------------------------------------------------------------------------------
(* Sequences given as functions *)

\* A number is put together again from its quotient and its remainder.
LEMMA Recompose ==
  ASSUME NEW p \in Nat, NEW u \in Nat \ {0}
  PROVE  (p % u) + u * (p \div u) = p
  BY SMT

\* t is r with one element more in front: as a concatenation, and as head and tail.
LEMMA InFront ==
  ASSUME NEW n \in Nat, NEW W, NEW r \in [1..n -> W], NEW t \in [1..(n + 1) -> W],
         \A k \in 1..n : t[k + 1] = r[k]
  PROVE  t = <<t[1]>> \o r /\ t # <<>> /\ Head(t) = t[1] /\ Tail(t) = r
<1>1. r \in Seq(W) /\ t \in Seq(W) /\ Len(r) = n /\ Len(t) = n + 1 /\ t[1] \in W
  OBVIOUS
<1>2. t # <<>> /\ Head(t) = t[1]
  BY <1>1
<1>3. Tail(t) \in Seq(W) /\ Len(Tail(t)) = n /\ \A k \in 1..n : Tail(t)[k] = t[k + 1]
  BY <1>1, <1>2
<1>4. Tail(t) = r
  BY <1>1, <1>3
<1> DEFINE c == <<t[1]>> \o r
<1>5. c \in Seq(W) /\ Len(c) = n + 1
  BY <1>1
<1>6. ASSUME NEW k \in 1..(n + 1)
      PROVE  t[k] = c[k]
  <2>1. CASE k = 1
    BY <1>1, <2>1
  <2>2. CASE k # 1
    <3>1. k - 1 \in 1..n /\ c[k] = r[k - 1]
      BY <1>1, <2>2
    <3>2. t[(k - 1) + 1] = r[k - 1]
      BY <3>1
    <3>3. QED
      BY <3>1, <3>2
  <2>3. QED
    BY <2>1, <2>2
<1>7. t = c
  BY <1>1, <1>5, <1>6
<1>8. QED
  BY <1>2, <1>4, <1>7

-------------------------------------------------------------------------------
(* The stack that the bytes stand for *)

SeenStack == [k \in 1..Depth |-> cpu_read16_at_idx(SP + 2 * (k - 1))]

\* The bytes of the k-th word lie in the stack.
LEMMA WordPlace ==
  ASSUME SPInStack, NEW k \in 1..Depth
  PROVE  SP + 2 * (k - 1) \in StackAddrs /\ SP + 2 * (k - 1) + 1 \in StackAddrs
BY StackRange, CpuAssumption, SMT DEF StackAddrs

SeenOK == SeenStack \in [1..Depth -> Addr]

\* Its words are words.
LEMMA SeenType == IInv => SeenOK
<1> SUFFICES ASSUME IInv
             PROVE  SeenOK
  OBVIOUS
<1>1. ASSUME NEW k \in 1..Depth
      PROVE  cpu_read16_at_idx(SP + 2 * (k - 1)) \in Addr
  <2>1. ram[SP + 2 * (k - 1)] \in Byte /\ ram[SP + 2 * (k - 1) + 1] \in Byte
    BY WordPlace DEF IInv, TypeOK, Byte
  <2>2. QED
    BY <2>1, WordOfBytes DEF cpu_read16_at_idx
<1>2. QED
  BY <1>1 DEF SeenStack, SeenOK

\* The same of the next state.
LEMMA SeenTypeNext == IInv' => SeenOK'
  BY SeenType, PTL

\* A push puts one word in front (cpu_SP_push).
LEMMA PushSeen ==
  ASSUME IInv, IInv', NEW word \in Addr, cpu_SP_push(word)
  PROVE  SeenStack' = <<word>> \o SeenStack
<1>1. SP \in Nat /\ Depth \in 0..MaxDepth /\ SP = StackTop - 2 * Depth
  BY StackRange DEF IInv
<1>2. Depth < MaxDepth /\ SP' = SP - 2 /\ cpu_write16_at_idx(SP - 2, word)
  BY DEF cpu_SP_push
<1>3. Depth' = Depth + 1
  BY <1>1, <1>2, CpuAssumption, SMT DEF Depth
<1>4. SP - 2 \in StackAddrs /\ SP - 1 \in StackAddrs
  BY <1>1, <1>2, CpuAssumption, SMT DEF StackAddrs
<1>5. SeenStack'[1] = word
  <2>1. ram'[SP - 2] = lsb8(word) /\ ram'[SP - 1] = msb8(word)
    BY <1>1, <1>2, <1>4 DEF cpu_write16_at_idx
  <2>2. SeenStack'[1] = merge8(ram'[SP - 2], ram'[SP - 1])
    <3>1. 1 \in 1..Depth'
      BY <1>1, <1>3
    <3>2. SP' + 2 * (1 - 1) = SP - 2 /\ SP - 2 + 1 = SP - 1
      BY <1>1, <1>2
    <3>3. SeenStack'[1] = merge8(ram'[SP' + 2 * (1 - 1)], ram'[SP' + 2 * (1 - 1) + 1])
      BY <3>1 DEF SeenStack, cpu_read16_at_idx
    <3>4. QED
      BY <3>2, <3>3
  <2>3. word \in Nat /\ ByteCount \in Nat \ {0}
    BY CpuAssumption, AddrCountType DEF Addr
  <2>4. QED
    BY <2>1, <2>2, <2>3, Recompose DEF merge8, lsb8, msb8
<1>6. ASSUME NEW k \in 1..Depth
      PROVE  SeenStack'[k + 1] = SeenStack[k]
  <2> DEFINE a == SP + 2 * (k - 1)
  <2>1. a \in StackAddrs /\ a + 1 \in StackAddrs
    BY WordPlace DEF IInv
  <2>2. a >= SP /\ a \in Int
    BY <1>1
  <2>3. SP' + 2 * ((k + 1) - 1) = a /\ k + 1 \in 1..Depth'
    BY <1>1, <1>2, <1>3
  <2> HIDE DEF a
  <2>4. ram'[a] = ram[a] /\ ram'[a + 1] = ram[a + 1]
    BY <1>1, <1>2, <2>1, <2>2, SMT DEF cpu_write16_at_idx
  <2>5. SeenStack'[k + 1] = merge8(ram'[a], ram'[a + 1])
    <3>1. SeenStack'[k + 1] = merge8(ram'[SP' + 2 * ((k + 1) - 1)],
                                     ram'[SP' + 2 * ((k + 1) - 1) + 1])
      BY <2>3 DEF SeenStack, cpu_read16_at_idx
    <3>2. QED
      BY <2>3, <3>1
  <2>6. SeenStack[k] = merge8(ram[a], ram[a + 1])
    BY DEF SeenStack, cpu_read16_at_idx, a
  <2>7. QED
    BY <2>4, <2>5, <2>6
<1>7. SeenStack \in [1..Depth -> Addr] /\ SeenStack' \in [1..(Depth + 1) -> Addr]
  <2>1. SeenStack' \in [1..Depth' -> Addr]
    BY SeenTypeNext DEF SeenOK
  <2>2. QED
    BY <1>3, <2>1, SeenType DEF SeenOK
<1>8. QED
  BY <1>1, <1>5, <1>6, <1>7, InFront

\* A pop takes the first word off (cpu_SP_pop).
LEMMA PopSeen ==
  ASSUME IInv, IInv', cpu_SP_pop
  PROVE  SeenStack # <<>> /\ Head(SeenStack) = Popped /\ Tail(SeenStack) = SeenStack'
<1>1. SP \in Nat /\ Depth \in 0..MaxDepth /\ SP = StackTop - 2 * Depth
  BY StackRange DEF IInv
<1>2. Depth > 0 /\ SP' = SP + 2 /\ ram' = ram
  BY DEF cpu_SP_pop
<1>3. Depth' = Depth - 1
  BY <1>1, <1>2, CpuAssumption, SMT DEF Depth
<1>4. SeenStack[1] = Popped
  <2>1. SP + 2 * (1 - 1) = SP /\ 1 \in 1..Depth
    BY <1>1, <1>2
  <2>2. SeenStack[1] = cpu_read16_at_idx(SP + 2 * (1 - 1))
    BY <2>1 DEF SeenStack
  <2>3. QED
    BY <2>1, <2>2 DEF Popped
<1>5. ASSUME NEW k \in 1..(Depth - 1)
      PROVE  SeenStack[k + 1] = SeenStack'[k]
  <2>1. SP' + 2 * (k - 1) = SP + 2 * ((k + 1) - 1) /\ k + 1 \in 1..Depth /\ k \in 1..Depth'
    BY <1>1, <1>2, <1>3
  <2>2. SeenStack'[k] = merge8(ram'[SP' + 2 * (k - 1)], ram'[SP' + 2 * (k - 1) + 1])
    BY <2>1 DEF SeenStack, cpu_read16_at_idx
  <2>3. SeenStack[k + 1] = merge8(ram[SP + 2 * ((k + 1) - 1)],
                                  ram[SP + 2 * ((k + 1) - 1) + 1])
    BY <2>1 DEF SeenStack, cpu_read16_at_idx
  <2>4. QED
    BY <1>2, <2>1, <2>2, <2>3
<1>6. SeenStack \in [1..((Depth - 1) + 1) -> Addr] /\ SeenStack' \in [1..(Depth - 1) -> Addr]
  <2>1. SeenStack' \in [1..Depth' -> Addr]
    BY SeenTypeNext DEF SeenOK
  <2>2. QED
    BY <1>1, <1>3, <2>1, SeenType DEF SeenOK
<1>7. QED
  BY <1>1, <1>2, <1>4, <1>5, <1>6, InFront

-------------------------------------------------------------------------------
(* Every step is one of CallStack *)

\* A step that moves neither SP nor a byte of the stack keeps the words.
LEMMA SameSeen ==
  ASSUME UNCHANGED <<SP, ram>>
  PROVE  SeenStack' = SeenStack
BY DEF SeenStack, Depth, cpu_read16_at_idx

\* Addresses are the words of CallStack.
LEMMA AddrWords == Stack!Words = Addr
BY DEF Stack!Words, Addr

\* The next instruction, as CallStack sees it.
LEMMA AfterPlus ==
  ASSUME NEW n \in Nat
  PROVE  Plus(PC, n) = Stack!After(n)
BY DEF Plus, Stack!After

\* Lengths of instructions, and of those that touch the stack or the switches.
LEMMA Lengths ==
  /\ \A f \in DOMAIN Instruction : Instruction[f].bytes \in 1..3
  /\ \A f \in {"EDI", "PUSH_R16", "POP_R16"} : Instruction[f].bytes = 1
  /\ Instruction["LD_N8R_A"].bytes = 2
BY SMT DEF Instruction, Timing

\* Families that only move on.
LEMMA SkipIsStep ==
  ASSUME IInv, IInv', NEW f \in Program, cpu_dispatch(f, Instruction[f]),
         Skip(Instruction[f]), IME' = IME \/ f = "EDI"
  PROVE  Stack!Next
<1>1. SeenStack' = SeenStack /\ PC' = Plus(PC, Instruction[f].bytes)
  BY SameSeen DEF Skip
<1>2. f \in DOMAIN Instruction /\ PC' \in Stack!Words
  BY CpuAssumption, AddrWords DEF IInv, TypeOK
<1>3. IME' \in BOOLEAN /\ IFR' \in SUBSET INTERRUPTS /\ IER' \in SUBSET INTERRUPTS
  BY DEF IInv, TypeOK
<1>4. CASE f = "EDI"
  <2>1. PC' = Stack!After(1)
    BY <1>1, <1>4, Lengths, AfterPlus
  <2>2. IFR' = IFR /\ IER' = IER
    BY <1>4 DEF cpu_dispatch
  <2>3. Stack!Configure
    BY <1>1, <1>3, <2>1, <2>2 DEF Stack!Configure, SeenStack
  <2>4. QED
    BY <2>3 DEF Stack!Next
<1>5. CASE f = "LD_N8R_A"
  <2>1. PC' = Stack!After(2)
    BY <1>1, <1>5, Lengths, AfterPlus
  <2>2. IME' = IME
    BY <1>5
  <2>3. Stack!Configure
    BY <1>1, <1>3, <2>1, <2>2 DEF Stack!Configure, SeenStack
  <2>4. QED
    BY <2>3 DEF Stack!Next
<1>6. CASE f \notin {"EDI", "LD_N8R_A"}
  <2>1. IFR' = IFR /\ IER' = IER
    BY <1>6 DEF cpu_dispatch
  <2>2. IME' = IME
    BY <1>6
  <2>3. Stack!Jump
    BY <1>1, <1>2, <2>1, <2>2 DEF Stack!Jump, SeenStack
  <2>4. QED
    BY <2>3 DEF Stack!Next
<1>7. QED
  BY <1>4, <1>5, <1>6

\* Jumps.
LEMMA TakeIsStep ==
  ASSUME IInv, IInv', NEW target \in Targets, NEW t, Take(t, target), UNCHANGED <<IFR, IER>>
  PROVE  Stack!Next
<1>1. SeenStack' = SeenStack /\ UNCHANGED IME /\ PC' \in Stack!Words
  BY SameSeen, AddrWords DEF Take, IInv, TypeOK
<1>2. Stack!Jump
  BY <1>1 DEF Stack!Jump, SeenStack
<1>3. QED
  BY <1>2 DEF Stack!Next

\* Calls leave the address that follows them.
LEMMA CallIsStep ==
  ASSUME IInv, IInv', NEW f \in DOMAIN Instruction, NEW target \in Targets,
         CallTo(Instruction[f], target), UNCHANGED <<IFR, IER>>
  PROVE  Stack!Next
<1> DEFINE n == Instruction[f].bytes
<1>1. n \in 1..3
  BY Lengths
<1> HIDE DEF n
<1>2. Plus(PC, n) \in Addr /\ Plus(PC, n) = Stack!After(n)
  BY <1>1, NextAddress, AfterPlus DEF n
<1>3. cpu_SP_push(Plus(PC, n)) /\ UNCHANGED IME
  BY DEF CallTo, n
<1>4. SeenStack' = <<Stack!After(n)>> \o SeenStack
  BY <1>2, <1>3, PushSeen
<1>5. PC' \in Stack!Words
  BY AddrWords DEF IInv, TypeOK
<1>6. Stack!Call
  BY <1>1, <1>3, <1>4, <1>5 DEF Stack!Call, SeenStack
<1>7. QED
  BY <1>6 DEF Stack!Next

\* Returns come back to the word on top.
LEMMA ReturnIsStep ==
  ASSUME IInv, IInv', NEW t, Return(t), IME' = IME \/ IME' = TRUE, UNCHANGED <<IFR, IER>>
  PROVE  Stack!Next
<1>1. SeenStack # <<>> /\ Head(SeenStack) = Popped /\ Tail(SeenStack) = SeenStack'
  BY PopSeen DEF Return
<1>2. PC' = Head(SeenStack)
  BY <1>1 DEF Return
<1>3. Stack!Return
  BY <1>1, <1>2 DEF Stack!Return, SeenStack
<1>4. QED
  BY <1>3 DEF Stack!Next

\* PUSH.
LEMMA PushIsStep ==
  ASSUME IInv, IInv', NEW word \in PushWords, cpu_SP_push(word),
         PC' = Stack!After(1), UNCHANGED <<IME, IFR, IER>>
  PROVE  Stack!Next
<1>1. word \in Addr
  BY CpuAssumption
<1>2. SeenStack' = <<word>> \o SeenStack
  BY <1>1, PushSeen
<1>3. Stack!Push
  BY <1>1, <1>2, AddrWords DEF Stack!Push, SeenStack
<1>4. QED
  BY <1>3 DEF Stack!Next

\* POP.
LEMMA PopIsStep ==
  ASSUME IInv, IInv', cpu_SP_pop, PC' = Stack!After(1), UNCHANGED <<IME, IFR, IER>>
  PROVE  Stack!Next
<1>1. SeenStack # <<>> /\ Tail(SeenStack) = SeenStack'
  BY PopSeen
<1>2. Stack!Pop
  BY <1>1 DEF Stack!Pop, SeenStack
<1>3. QED
  BY <1>2 DEF Stack!Next

\* Any instruction.
LEMMA FetchIsStep ==
  ASSUME IInv, IInv', FetchAndExecute
  PROVE  Stack!Next
<1>1. PICK f \in Program : cpu_dispatch(f, Instruction[f])
  BY DEF FetchAndExecute
<1> DEFINE t == Instruction[f]
<1>f. f \in DOMAIN Instruction
  BY CpuAssumption
<1>2. CASE Skip(t) /\ (IME' = IME \/ f = "EDI")
  BY <1>1, <1>2, SkipIsStep
<1>3. CASE f = "LD_N8R_A"
  <2>1. Skip(t) /\ IME' = IME
    BY <1>1, <1>3 DEF cpu_dispatch
  <2>2. QED
    BY <1>2, <2>1
<1>4. CASE f # "LD_N8R_A"
  <2>1. UNCHANGED <<IFR, IER>>
    BY <1>1, <1>4 DEF cpu_dispatch
  <2>2. CASE \E target \in Targets : Take(t, target)
    BY <2>1, <2>2, TakeIsStep
  <2>3. CASE \E target \in Targets : CallTo(t, target)
    BY <1>f, <2>1, <2>3, CallIsStep
  <2>4. CASE Return(t) /\ (UNCHANGED IME \/ IME' = TRUE)
    BY <2>1, <2>4, ReturnIsStep
  <2>5. CASE /\ f = "PUSH_R16" /\ \E word \in PushWords : cpu_SP_push(word)
             /\ PC' = Plus(PC, t.bytes) /\ UNCHANGED IME
    <3>1. PC' = Stack!After(1)
      BY <2>5, Lengths, AfterPlus
    <3>2. QED
      BY <2>1, <2>5, <3>1, PushIsStep
  <2>6. CASE /\ f = "POP_R16" /\ cpu_SP_pop
             /\ PC' = Plus(PC, t.bytes) /\ UNCHANGED IME
    <3>1. PC' = Stack!After(1)
      BY <2>6, Lengths, AfterPlus
    <3>2. QED
      BY <2>1, <2>6, <3>1, PopIsStep
  <2>7. QED
    BY <1>1, <1>2, <2>2, <2>3, <2>4, <2>5, <2>6, Zenon DEF cpu_dispatch
<1>5. QED
  BY <1>3, <1>4

\* Entering a handler takes the most urgent interrupt and leaves where it came from.
LEMMA HandlerIsStep ==
  ASSUME IInv, IInv', EnterHandler
  PROVE  Stack!Next
<1>1. /\ look_for_interrupt \in IFR \cap IER
      /\ \A j \in IFR \cap IER : look_for_interrupt <= j
  BY LowestIsPending DEF EnterHandler, Interrupted, Pending
<1>2. SeenStack' = <<PC>> \o SeenStack
  BY PushSeen DEF EnterHandler, IInv, TypeOK
<1>3. Stack!Interrupt
  BY <1>1, <1>2 DEF Stack!Interrupt, EnterHandler, Interrupted, SeenStack
<1>4. QED
  BY <1>3 DEF Stack!Next

\* Every step is one of CallStack, or none.
LEMMA StepIsStep == IInv /\ IInv' /\ [Next]_vars => [Stack!Next]_(Stack!vars)
<1> SUFFICES ASSUME IInv, IInv', [Next]_vars
             PROVE  [Stack!Next]_(Stack!vars)
  OBVIOUS
<1>1. CASE EnterHandler
  BY <1>1, HandlerIsStep
<1>2. CASE FetchAndExecute
  BY <1>2, FetchIsStep
<1>3. CASE Wait \/ UNCHANGED vars
  <2>1. UNCHANGED <<PC, SP, ram, IME, IFR, IER>>
    BY <1>3 DEF Wait, vars, machine
  <2>2. SeenStack' = SeenStack
    BY <2>1, SameSeen
  <2>3. QED
    BY <2>1, <2>2 DEF Stack!vars, SeenStack
<1>4. ASSUME NEW i \in INTERRUPTS, cpu_request_interrupt(i)
      PROVE  Stack!Next
  <2>1. SeenStack' = SeenStack
    BY <1>4, SameSeen DEF cpu_request_interrupt
  <2>2. Stack!Request
    BY <1>4, <2>1 DEF cpu_request_interrupt, Stack!Request, SeenStack
  <2>3. QED
    BY <2>2 DEF Stack!Next
<1>5. QED
  BY <1>1, <1>2, <1>3, <1>4 DEF Next, cpu_cycle

\* The empty stack at the start.
LEMMA StartIsStart == Init => Stack!Init
<1> SUFFICES ASSUME Init
             PROVE  Stack!Init
  OBVIOUS
<1>1. Depth = 0
  BY CpuAssumption, SMT DEF Init, Depth
<1>2. SeenStack = <<>>
  BY <1>1 DEF SeenStack
<1>3. PC \in Stack!Words
  BY InitIInv, AddrWords DEF IInv, TypeOK
<1>4. QED
  BY <1>2, <1>3 DEF Init, Stack!Init, SeenStack

\* Bytes in memory, SP and PC implement a stack of words, and interrupts enter it by
\* priority and only when allowed, for every program, width and depth of the stack
\* (cpu_do_cycle, cpu_dispatch, cpu_SP_push, cpu_SP_pop).
THEOREM StackIsImplemented == Spec => ImplementsCallStack
<1>1. IInv /\ [Next]_vars => [Stack!Next]_(Stack!vars)
  BY NextIInv, StepIsStep
<1>2. QED
  BY <1>1, InitIInv, NextIInv, StartIsStart, PTL DEF Spec, ImplementsCallStack, Stack!Spec
===============================================================================
