# Verification of the Game Boy emulator

TLA+ models of the emulator under `src/gameboy_emulator`, the TLC runs that check them on small
instances, and TLAPS proofs of theorems about them for every value of their constants.
`PROJECT.json` lists the components, the runs, the lines of code each definition stands for, the
hazards with the properties that watch them, the findings and the theorems.

## 1. The system

The program is single-threaded. GTK's loop calls `generate_image` at a fixed rate; it turns wall-clock
time into a number of machine cycles and calls `gameboy_run_until`, which steps every part of the
machine once per machine cycle and then hands one address, the one the CPU stored to, to the listeners
of the parts:

    GTK timeout, keys                       gbsimulator.c, sidlib.c
        |  generate_image: target = cycles worth of (now - start)
        v
    gameboy_run_until(target)               gameboy.c
        while cycles < target:
            timer_cycle  ->  lcdc_cycle  ->  cpu_cycle          memory, cpu.IF, cpu.write_listener
            timer_bus_listener, bootrom_bus_listener,
            lcdc_bus_listener, joypad_bus_listener   (write_listener)
            cycles++

All shared state is reached through `cpu_t`: the bus (a table of 65536 pointers into the components'
memories), the interrupt registers IF and IE, and the single slot `write_listener`.

| Component | State | Operations | Interacts by | What is hard, and what makes it correct |
|---|---|---|---|---|
| Timer (`timer.c`) | 16-bit counter; DIV, TIMA, TMA, TAC in memory | `timer_init`, `timer_cycle`, `timer_bus_listener` | bytes on the bus that the program overwrites; IF; `write_listener` | Everything hangs on falling edges of one counter bit ANDed with the enable bit: wrap, DIV reset, change of rate and TIMA overflow meet. It must count periods and request an interrupt per overflow. |
| Main loop (`gameboy.c`) | `cycles`, `boot` | `gameboy_run_until`, four listeners | calls everything, ignores or propagates errors | One slot carries a store through a cycle in which timer, CPU and interrupts overwrite it; a failing instruction leaves in the middle of a cycle. Every store must be heard, every call return. |
| CPU control (`cpu.c`) | PC, SP, IME, IF, IE, HALT, `idle_time` | `cpu_cycle`, `cpu_do_cycle`, `cpu_dispatch`, `cpu_request_interrupt` | stack through the bus; IF set by others | Interrupts between any two instructions, HALT with IME off, the accounting of machine cycles. Returns must match calls, interrupts be served, no instruction cut short. |
| CPU loads and stores (`cpu-storage.c`) | registers, memory | `cpu_read*/write*_at_idx`, push, pop, `cpu_dispatch_storage` | bus, `write_listener` | A word is two bytes but one announcement; the second byte may lie where nothing is plugged; HL and SP move with the access or not at all. |
| CPU arithmetic (`cpu-alu.c`, `alu.c`, `bit.c`, `cpu-registers.c`) | A..L, F | `cpu_dispatch_alu`, `alu_*`, `bit_*` | registers | Nibble-wise carries and borrows, four sources for each flag, pairs that overlap registers. Sequences joined by the carry must be exact. |
| Opcode tables (`opcode.c`, `.h`) | 500 rows, two tables of 256 | lookup by `cpu_dispatch`, operands cut out of an opcode | | Written by hand: order, family, length, cycles and operand bits of every entry must agree with what the row is called. |
| Bus and components (`bus.c`, `component.c`, `memory.c`) | pointers; ranges; memories | create, share, free; plug, forced plug, remap, unplug; read, write | raw pointers | Stale and dangling pointers, overlapping plugs, shared memory, a search whose index wraps, words over the end of a range. A plugged range must stay whole and live. |
| Creation, boot and end (`gameboy.c`, `bootrom.c`, `cartridge.c`, `cpu.c`, `error.h`) | all of the above | `gameboy_create`, `gameboy_free`, boot ROM disable | error codes | Eighteen calls that can fail, and a macro that evaluates a failed call twice. No hole in the map, no double free, no leak without a failure. |
| Simulator (`gbsimulator.c`, `sidlib.c`) | `start`, `paused`, timeout | frame, pause, resume, quit | wall clock; `gameboy_run_until` | The clock may be set at any time, pauses shift `start`. The machine must get the active time and no more. |
| Bit vectors (`bit_vector.c`) | chunks of 32 bits | create, not, and, or, xor, extract, shift, join | values | Negative indexes, chunk boundaries, ones beyond the size, wrapping. |
| Images (`image.c`) | three vectors per line; lines per image | create, shift, extract, join, set word, colours, below, place a line, read a pixel | bit vectors | A colour is split over two vectors and an operation is done vector by vector, with allocations that may fail between them. Colour and opacity of a pixel must stay together. |
| LCD controller, joypad | | `lcdc_*`, `joypad_*` | IF, bus | Binaries without source: external. |

## 2. Modules

| Module | Stands for | State and actions, and what they correspond to |
|---|---|---|
| `TimerClock` | what a timer promises (abstract) | time since the divider's restart, the selected period, TIMA, a request; no bits |
| `Timer` | `timer.c`, and the part of the loop around it | `counter`, `mem` (the four bytes), `IFR`, `write_listener`, `phase`. `TimerStep`, `CpuStep`, `ListenerStep` are the three calls of the loop; `timer_incr_if_state_change` is the edge detector |
| `Gameboy` | `gameboy_run_until` | composes `Timer` (by `INSTANCE`) with a CPU reduced to what others notice, the boot ROM's listener and the external parts. One action per call of the loop (`TimerCycle` .. `JoypadListener`), `RunUntil` for its entry, `CpuCycleFails` for its early exit |
| `CallStack` | what a CPU promises to its program (abstract) | a stack of words, a PC, interrupts by priority; no memory, no SP, no time |
| `Cpu` | `cpu.c` and the stack of `cpu-storage.c` | PC, SP, `ram`, IME, HALT, IF, IE, `idle_time`. `EnterHandler`, `FetchAndExecute`, `Wait` are the three ways through `cpu_cycle`; `cpu_dispatch` has one disjunct per group of opcode families |
| `Alu` | `alu.c`, `bit.c` | pure operators on bytes made of two nibbles of `NibbleBits` bits |
| `Arithmetic` | what the instructions promise (abstract) | whole numbers and a set of flags |
| `Opcode` | `opcode.h`, `opcode.c` | the rows, from their names; the two tables, in the order of the code; `extract_reg` and its like; the integrity check |
| `Instructions` | `cpu_dispatch` and the three dispatchers behind it, `cpu-registers.c` | the functions as operators from a machine to a machine, at the real widths |
| `Mnemonics` | what the names of `opcode.h` promise (abstract) | `Meaning`, from a machine and a row to a machine; looks at names and cycles only, not at tables, families or bits of opcodes |
| `Machine` | `cpu_do_cycle` | fetches the row at PC and executes it; its properties, among them that each step is one by names alone (`AsNamed`) |
| `DispatchData`, `DispatchTests` | the unit tests of `cpu_dispatch` | their tables and their steps as data |
| `TestBench` | the macros of `unit-test-cpu-dispatch.h` | one action per step: put, dispatch, look |
| `CpuAlu` | `cpu-alu.c`, `cpu-registers.c` | `reg`, `F`; one action per family of instructions |
| `BusStore` | `bus.c`, `component.c`, `memory.c` | the functions as operators from a store to an outcome (store, error code, or *endless*), so that callers can call again after a failure; where an access of a byte or a word leads |
| `Bus` | a client in any order | create, share, plug, remap, unplug, free, as actions over `BusStore` |
| `Lifecycle` | `main`, `gameboy_create`, `gameboy_free` | one `Proceed` per call of `gameboy_create` (`Stages`), `Abandon` when one fails, `DisableBootRom`; `Free` begins `gameboy_free`, `FreeNext` unplugs and frees one component after the other (`FreeOrder`), `cpu_free` is what is left; `Require` is the macro `M_REQUIRE_NO_ERR` |
| `Simulator` | `gbsimulator.c`, `sidlib.c` | `now`, `start`, `paused`, `timeout`, `cycles`; `Frame`, `Pause`, `Resume`, `Quit`, `ClockMoves` |
| `BitString` | what vectors promise (reference) | sets of positions, bit by bit |
| `BitVector` | `bit_vector.c` | a vector is its size and its chunks, each a set of positions; a program that replaces vectors by results |
| `Image` | `image.c` | a line is three vectors, a vector a set of pixels or nothing; each action is a call with the set of its allocations that fail; `lost` counts what can no longer be freed |
| `Picture` | what `image.h` promises (abstract) | lines of coloured pixels, a screen, and the call asked for: what a step may make follows from its name and arguments |
| `MC*` | instances for TLC | values for the constants |
| `*Proofs` | theorems | extend the modules they are about; `TimerProofs` is about `Timer` and `Simulator`, which both count time by quotients, `BitVectorProofs` about `BitVector` and `Image` |

Conventions. Names follow the source. Variables commented *history* belong to the model: they record
the past for a property and never guard an action of the code. Operators commented *Mutant* are
plausible mistakes used to test that a property can fail; no specification uses them. A constant
commented *bound* is a limit of the model.

Abstractions worth knowing:

- `Cpu` and `Gameboy` do not hold a program: what a fetch finds, and how a condition comes out, is a
  free choice, so that their properties hold for every program made of these instructions. `Machine` is the other
  half: what each of the 512 instructions does, with operands, flags and memory, and no interrupts.
- `Instructions` has memory as the bytes that are not 0 and the addresses where nothing is plugged. A word is never accessed with
  its first byte plugged and its second not: there the code follows a pointer that leads nowhere (`WildOnlyAtEnds` says where that can be).
- `Image` takes a vector as a set of pixels. That words do not show is what `BitVector` is for.
  `asked` is a history variable: every action writes it, none reads it.
- Registers IF and IE are sets of interrupts; a store to them is any set.
- `cycles` grows without end. `Gameboy` keeps `todo`, the distance to the target of the call.
- The low part of the bus is, in `Gameboy`, two cells: `last`, the address that `bus_unplug` forgets,
  and `body`, the rest. `Bus` and `Lifecycle` have the whole table.
- `Bus` never reuses a memory's name, so a dangling pointer is told from a live one.
- `Cpu` bounds the idle time left over when a HALT is executed (`MaxHaltIdle`), since every HALT that does not
  sleep adds a cycle to it.
- `Cpu` leaves out what happens when SP leaves the program's stack, and when that lies over IF or IE (see the notes in section 6); `Gameboy` has the latter.

## 3. Runs

Bounds are the constants of the `.cfg`. Times are of two workers.

| Run | Checks | Instance, states | Shows |
|---|---|---|---|
| `timer` | `TypeOK`, `DivShowsCounter`, `ImplementsClock`, `KeepsTicking` | 6-bit counter, 3-bit bytes, all five settings of TAC; 322 000 | `Timer` implements `TimerClock` under any stores; an enabled timer requests for ever |
| `gameboy_stores` | `TypeOK`, `StoreIsHeard`, `BootMapping`, `TimerLead` | 3-bit counter, byte and word stores to every watched address, calls of 1 and 2 cycles, one failing instruction; 564 000 | every store is heard by its owner, but for the second byte of a word, the boot ROM leaves no hole, the lead of the timer is the number of aborted calls |
| `gameboy_interrupts` | `RequestKept`, `TimerWakes`, `CallReturns` | two interrupts, HALT, EI, DI, stores of bytes to IF, IE, TAC, TIMA and below IF, of words over IF (from both sides) and IE, a stack there or in RAM, calls of 1 and 2 cycles; 946 000 | no request is lost but to its handler or a store over IF, HALT is left, calls return |
| `gameboy_return` | `ReturnMeansDone` | HALT, stores to IF and IE, an unknown opcode, calls of 1 cycle | violated: finding 1 |
| `cpu` | `TypeOK`, `NeverEarly`, `ImplementsCallStack`, `Served`, `Resumes` | every family, two interrupts, a stack of two words, `idle_time` modulo 16; 173 000 | `Cpu` implements `CallStack`; time; liveness |
| `cpu_halt` | `OnTime` | three families | violated: finding 2 |
| `cpu_alu` | `TypeOK`, `ImplementsArithmetic` | nibbles of 2 bits; all 61 440 contents of A, H, L and the flags, 4 million steps | the ALU and its flag sources are exact along every sequence |
| `bus` | `TypeOK`, `MappedWhilePlugged`, `StaleOnlyAtEnds`, `PlugEnds`, `WildOnlyAtEnds` | 4 addresses, 2 components of size 1 or 3, any order; 75 000 up to symmetry | plugged ranges are whole and live; endless searches and wild pointers occur only at the ends |
| `bus_unplug` | `UnpluggedIsGone` | the same | violated: finding 3 |
| `lifecycle` | `EveryAddressLives`, `EchoMirrors`, `FreedOnce`, `LeaksNeedFailures` | the memory map on 20 addresses, up to four failures; 171 000 | creation, run and destruction one component after the other, whatever fails |
| `simulator` | `PauseStopsTime`, `NeverAhead`, `RefusedOnlyAfterStepBack` | a clock of seven ticks with steps of -2, 1 and 3; 39 000 | the machine gets the active time |
| `bit_vectors` | four parts, 46 000 states together: | | |
| - vectors | `TypeOK`, `OperationsAreBitwise` | chunks of 2 bits, vectors of 4 and 5 bits, indexes -6 to 7; all 2304 pairs of vectors, each against every operation | chunk-wise operations are bit-wise ones |
| - pictures | `ImplementsPicture`, `LossIsReported` | 3 lines of 4 pixels in words of 2, 2 rows, 3 palettes, two calls, each with no allocation, any one or all failing | `Image` implements `Picture`: each call makes exactly what its arguments ask for, whatever fails |
| - machine | `MachineTypeOK`, `ExecutesAsNamed`, `FailureChangesNothing` | real widths; every byte and every prefixed byte at PC, from seven machines; two instructions | a machine stays one; what is executed is what `Mnemonics` says; an instruction happens or does not |
| - tests | `AsExpected` | the runs of three test files | the unit tests of `cpu_dispatch` pass on the model |

Why the bounds are enough:

- *timer*: the four selectable bits keep the real order, with one below, one at and two above the lowest
  bit of DIV; the counter wraps, TIMA overflows and every TAC change happens at every counter value.
- *gameboy*: the loop's order is fixed, so a call of two cycles has both of its exits: back to the timer and
  out. The listeners see each watched address as a byte and as either byte of a word.
- *cpu*: two words of stack hold a call and an interrupt inside it; two interrupts have a priority; 16
  exceeds every instruction's cycles plus those left over at a HALT.
- *cpu_alu*: two bits per nibble have a carry within the nibble, out of it and out of the byte. The proof
  covers the real width.
- *bus*: two components of different sizes overlap in every way on four addresses.
- *lifecycle*: the map keeps the order and overlaps of the real one. A failure needs up to two failing
  evaluations of one call; four allow two such calls nested.
- *simulator*: seven ticks hold a pause, a jump and a step back inside one another.
- *bit_vectors, vectors*: 4 bits fill their last chunk, 5 do not; indexes pass both ends by more than a chunk, and
  of the two sizes one divides the range of `size_t` and the other does not.
- *bit_vectors, pictures*: the lines to start from have all four colours and both opacities; shifts pass both ends and a word's boundary;
  of the palettes one is the identity, which the code treats apart, and one merges colours. Two calls work on the result of a call, and on a line
  left half done.
- *bit_vectors, machine*: the tables are finite, so every entry is executed. The seven machines are chosen for what the entries
  can meet: carries and borrows in every nibble, both outcomes of every condition, wraps of PC, SP, HL and of an offset, a stack that
  overlaps the operand of a CALL, and gaps under a push, a pop, a load, a store and a target.

`bit_vectors` puts these four side by side: they are the parts that only compute. A behaviour moves one of them (`moving`), the others rest
and share nothing with it, so that each property speaks of one part.

Deadlock is allowed in `lifecycle` (the program ends), `simulator` (the window closes) and `bit_vectors` (calls, instructions and tests are finite).

### Fairness

The code is one sequential loop that does not block, so a step that is enabled is taken: weak
fairness of the loop's steps (`Next` in `Timer`, `InLoop` in `Gameboy`, `cpu_cycle` in `Cpu`). `Gameboy` also
assumes that `generate_image` calls `gameboy_run_until` again with a later target, which GTK's periodic
timeout does while the window is not paused. Nothing is assumed of the program, of stores, of the LCD
controller, of keys or of the clock. `KeepsTicking` is a property of programs that leave the timer alone, and
says so in its premise.

## 4. Proofs

| Theorem | Property | Assumptions | Argument |
|---|---|---|---|
| `TimerProofs!TypeCorrect` | `TypeOK` | `TimerAssumption` | `IInv` = `TypeOK` and `DivShowsCounter` |
| `TimerProofs!DivIsCounter` | `DivShowsCounter` | `TimerAssumption` | the same `IInv`: the store in DIV is undone by the next `timer_cycle`, which needs the counter in range |
| `TimerProofs!EdgesCountPeriods` | `ImplementsClock` | `TimerAssumption`, `PeriodsFit` | refinement, below |
| `GameboyProofs!BootRomHandsOver` | `BootMapping` | none | `BootInv`; only the boot ROM's listener moves `boot` and `low`, and its plug covers what its unplug forgets |
| `GameboyProofs!LeadIsAborted` | `TimerLead` | none | `LeadInv`, the phases and the counts as numbers |
| `GameboyProofs!StoresAreHeard` | `StoreIsHeard` | none | `HeardInv` and `ReachedInv`, below |
| `GameboyProofs!TypeCorrect`, `RequestsAreKept` | `TypeOK`, `RequestKept` | `TimerFits`, `GameboyAssumption` | `TypeInv`, below |
| `TimerProofs!PausesAreFree`, `NotAheadOfTime`, `RefusalNeedsStepBack` | `PauseStopsTime`, `NeverAhead`, `RefusedOnlyAfterStepBack` | `SimulatorAssumption` | one `SimulatorInv` of all three, types and `active <= peak`; quotients are monotone |
| `BusProofs!TypeCorrect`, `PluggedStayMapped`, `StaleOnlyAtRangeEnds`, `PlugFailsToEndOnlyOnWholeBus` | `TypeOK`, `MappedWhilePlugged`, `StaleOnlyAtEnds`, `PlugEnds` | `BusAssumption` | one `IInv`, below |
| `BusProofs!WildPointersAreConfined` | `WildOnlyAtEnds` | the same | follows from `IInv` in each state |
| `CpuProofs!TypeCorrect` | `TypeOK` | `CpuAssumption` | `IInv` = `TypeOK` and `SPInStack`: a pop reads bytes only where SP is in the stack, which the bound on its depth sees to |
| `CpuProofs!NeverCutShort` | `NeverEarly` | `CpuAssumption`, `WideEnough` | `TimeInv`, below |
| `CpuProofs!StackIsImplemented` | `ImplementsCallStack` | `CpuAssumption` | refinement, below |
| `AluProofs!BytesStayBytes` | `TypeOK` | `NibbleAssumption`, `OperandAssumption` | each instruction's lemma gives the range of its result |
| `AluProofs!ArithmeticIsExact` | `ImplementsArithmetic` | the same | refinement, below |
| `LifecycleProofs!EveryAddressHolds`, `EchoHolds`, `FreedOnceHolds`, `LeaksHold` | `EveryAddressLives`, `EchoMirrors`, `FreedOnce`, `LeaksNeedFailures` | `LifecycleAssumption`, `LayoutAssumption` | one `IInv`, below |
| `BitVectorProofs!NothingBeyondTheSize` | `TypeOK` | `BitVectorAssumption` | each operation masks its last chunk, or combines chunks that were masked |
| `BitVectorProofs!ChunksNeverShow` | `OperationsAreBitwise` | the same and `IndexesFit` | `Ones`, below |
| `BitVectorProofs!ImageImplementsPicture`, `LossesAreReported` | `ImplementsPicture`, `LossIsReported` | `ImageAssumption`, `NullAssumption` | `LineInv` and `Honest`, below |
| `MachineProofs!MachineStaysAMachine` | `MachineTypeOK` | `Setting` | inductive by itself, once every row of the tables is decoded, below |
| `MachineProofs!FailuresChangeNothing` | `FailureChangesNothing` | the same | `Outcomes`, below |
| `MachineProofs!MachineDoesAsNamed` | `ExecutesAsNamed` | `Setting`, `Initialised` | refinement, below; the invariant is `TidyOnes` |
| `MachineProofs!TablesAreSound` | (`opcode_check_integrity`) | `FullWidth` | every name stands at its code, below |

`PeriodsFit` says that a period is a whole number of machine cycles and that the counter wraps at the end of one; both hold of the
real timer (4 per cycle, bits 3 to 9 of 16). `IndexesFit` says that no bit asked for has an index beyond `size_t`; beyond it wrapping would lose its phase. `LayoutAssumption` is what the headers' ranges have in common, whatever their numbers:
only the boot ROM lies over another component (the cartridge), the echo is not longer than the work RAM, IF is a register, and only the cell of IE is in no component.
TLC evaluates it on the map of 20 addresses. The other assumptions say that widths are positive and that sets of values lie within their types. `NibbleAssumption` says that a nibble has one to
four bits, which includes the real four. `Setting` fixes it at four (`FullWidth`) and asks that what the machine starts from is a machine; `Initialised`, that the low nibble of F is clear in it,
as `cpu_init` leaves it. Both are premises of the theorems, and an assumption of `MCBitVector`, where TLC evaluates them on all 3585 starts.

*Edges count periods.* `RInv` adds to the types that the counter holds whole machine cycles, so that `Age` is a number of
cycles. `BitIsHalf` says that the selected bit is up in the second half of its period, `PhaseAdvances` that a cycle moves the phase by
one, through the wrap of the counter too. So a falling edge in `timer_cycle` is the end of a period (`EdgeCompletes`), and one made by a
reset is a period at least half done (`EdgeRounds`); `IncrIsAdvance` does the rest, for whatever the program stored in between.

*Stores are heard.* `StoreIsHeard` speaks of the end of a cycle and is not inductive. `HeardInv` says what holds
between the listeners: the slot still has the store's address, or the store has been heard (`SlotKept`: the timer's
listener overwrites the slot, but only for a store that was its own), and every listener called so far has been told
of a store that was its own (`HeardSoFar`). Each of the loop's steps moves one listener into the second part. `ReachedInv` adds that a store reaches
its announced address and at most one more.

*Requests are kept.* `RequestKept` is about steps. IF is a byte on the bus: a store of the CPU, a byte or a word, an operand or a return address, may reach it and rewrite it
(`StoreTo`), wherever the program stores and has its stack. `StoreKeeps` says that any other store leaves the requests as it finds them, which for an interrupt is without the bit
of the one that is served (`HandlerKeeps`); and that this one was requested needs the most urgent one to exist (`LowestIsPending`). Timer, LCD, keys and listeners
only add requests, as long as the types hold. `TypeInv` has them, with the timer's lead and the boot ROM's mapping, on which the ranges of `ahead` and of the cells
rest.

*Chunks never show.* `Ones` counts the ones of a vector from its start. `ChunkOnes` says that the bit `p` of chunk `k` is bit
`CHUNK_SIZE * k + p` of it, also for chunks before and after its ends, and needs the invariant: a one beyond the size would show there.
`ExtractedChunkBits` says that the two halves of which an extraction makes a chunk meet without a gap, wherever it starts (a negative
index included, its quotient rounded down). `MaskedOnes` says that masking takes away no bit of the result. With them each operation is one of `BitString`; a
join is the union of two vectors under complementary masks (`JoinOnes`), and `WrapsInStep` is why `WrapsAt` suffices.

*Lines are pictures.* The theorems about `Image` hold for lines and images of any size, for any palettes and for any choice of the allocations that fail
(`Shortages` is any set of them). `Honest` is the contract of a function of `image.c`: the line it gives, if it has all its parts, shows the picture promised; what it
loses it reports; and it reports only when an allocation failed. There is one lemma for each function. That of `image_line_map_colors` goes round by round (`Rounds`): after
n colors, the low vector has the pixels of the colors below n that become odd, the high one those that become 2 or 3, and either may be missing
as long as no color has needed it. `MakesShows` takes a contract to the step of `Picture` that the call, recorded with its arguments in `asked`, promises. `LineInv` lets a line lack parts, which the default palette can cause, but never a row of
the image. `NullAssumption` says that a null pointer is neither a vector nor an image. The proofs are in `BitVectorProofs`, since lines are made of such vectors.

*Ranges stay mapped.* `MappedWhilePlugged` alone is not inductive: a plug, a remap or an unplug writes the cells of one range, and that these
are no other component's cells must be known. `Apart` says that two plugged ranges do not meet; it is kept because a plug succeeds only on
free cells and a cell of a plugged range is never free (`CoveredIsTaken`). `Ranges` says that a component that is not plugged has start and end 0, which is how the
code tells. `Aged` says that a new memory's name is fresh, so that freeing one component's memory cannot be confused with another's. `StaleOnlyAtEnds` and `PlugEnds` come
with them: what an unplug leaves is its range's last cell, and the search of a plug ends once its index passes the range, or meets a taken cell.

*Creation and destruction.* `IInv` of `LifecycleProofs` has a part per question. `Owned`: the memories of the components that are to be freed are allocated
and all different, which is `FreedOnce`. `Paid`: memories that no component has any more are no more than the failures so far, which is `LeaksNeedFailures`. `Wires`: a cell
of the bus is free or leads to its own component, at its own place; for the echo into the memory of the work RAM, hence `EchoMirrors`. `Ready`: which components the
calls made so far have left with memory, unused and plugged (`MadeBy`, `PluggedBy`), so that every address is covered once all have passed. The macro makes a
call again when it failed, so `CallStep` is about both: a call that passes leaves what the next one needs, a call that fails leaves what it needs itself and has
counted a failure. The listener of the boot ROM unplugs and plugs the cartridge over the hole, and `LayoutAssumption` says that this covers it.

*The CPU's time.* `NeverEarly` is about the moment of a fetch. `TimeInv` says that outside HALT what an instruction owes is
covered by `idle_time`, and that inside HALT what is left over stays small. The second part is needed because leaving
HALT adds an instruction's cycles to the rest, modulo 256. `WideEnough` excludes the wrap: it asks that the idle time
at a HALT (bounded by `MaxHaltIdle`) and one instruction fit into `idle_time`. Only a program that executes some 250
HALTs in a row, with interrupts disallowed and one pending, could get there.

*The stack is implemented.* The words a program has pushed are read from the bytes between SP and StackTop (`SeenStack`).
`PushSeen` and `PopSeen` show that a push changes two bytes and puts one word in front of the others, and a pop takes
it off; then every disjunct of `cpu_dispatch` is a step of `CallStack`, and entering a handler is its `Interrupt`.

*Arithmetic is exact.* One lemma per operator of the ALU (`AddIsExact`, `SubIsExact`, `Add16IsExact`,
`ShiftIsExact`, `RotateUpIsExact`, ...) states it in whole numbers. Those with powers of two are proved for
each of the four widths, since the solvers know nothing of powers. One lemma per instruction then maps a step of `CpuAlu`
to one of `Arithmetic`, and `StepIsExact` puts them together under the invariant `TypeOK`, without which a bit in the
low nibble of F would make every flag read as down.

*Instructions happen or do not.* `Outcomes(s)` is what one instruction may make of a running machine s: another running machine, or s itself with an error. A lemma
per group of families (`StorageOutcome`, `AluRuns`, `AluExtRuns`, `Jumps`, `Calls`, `Returns`, `Restarts`) shows that `cpu_dispatch` has no other, for every memory and every
set of gaps: `Pushes` is where SP is put back, `MoveHL` where HL stays. They hold for a row whose operands the code can decode (`Handled`): a register where
`extract_reg` finds none, at code 6, would leave the registers. That every byte fetched leads to such a row is the longer half. `RowsHandled` goes through the rows
of `opcode.h`, one lemma for each of its groups, and `EveryNameNamed` through the tables of `opcode.c`, line by line and place by place: each of the 512 names is
the name of a row. Together they are `TablesHandled`, and `FetchedHandled` for whatever is in memory. The types are bytes and words, so the same lemmas show that
nothing leaves its width.

*Instructions are what they are called.* `ExecutesAsNamed` compares two descriptions of every instruction: `cpu_dispatch`, by families and by the bits of
an opcode, nibble by nibble, and `Meaning`, by the three parts of a name, in whole numbers and sets of bits. The proof takes it in four pieces.
First the operators: sums, shifts, logic, decimal adjustment and the flags that their sources choose are those that the names promise (`SumIs`, `ShiftedBytes`,
`Ands`, `Adjusts`, ...), for every byte and every word. Then the families: a lemma for each (`AddsAsNamed` to `StacksAsNamed`) says that `Executed` is
`Does`, or fails alike, on every machine whose flags can be read (`Tidy`), if the operand cut out of the opcode is the one in the name (`Takes`);
`Agrees` adds PC, time and the condition, for instructions that go on (`OnwardAgrees`) and for those that jump (`JPAgrees` and its like). Then the rows of `opcode.h`: each stands at the code
that belongs to its name (`Sits`, with `CodeNamed` written from the names alone) and agrees with it; together that is `Right`, and `RowsRight` for all 500. Last the tables of
`opcode.c`: every name stands at its code (`EveryNameAt`, line by line), so the entry at an opcode is the row that carries it, or `OP_UNKOWN` at the
twelve codes no row carries (`TablesHold`). That the low nibble of F stays clear (`TidyOnes`) is needed on the way, since one bit in it would make every flag read as
down, and is what makes the property inductive. A machine may start with any memory, any gaps and any registers: nothing but F's low nibble is asked of it.

*The timer's lead and the boot ROM* hold for any length of run and any number of aborted calls, which TLC bounds.

Only model-checked: all liveness properties (`KeepsTicking`, `CallReturns`, `TimerWakes`, `Served`, `Resumes`), which are out of the prover's reach;
and `AsExpected`, which is about finite tables of tests and complete as a run.

## 5. Findings

1. `gameboy_return`. `M_REQUIRE_NO_ERR(call)` evaluates `call` again when it failed and returns what that gives
   (error.h:210; the default build does not define DEBUG). If an unknown opcode is the first instruction after HALT and idle time is
   left, the second `cpu_cycle` only waits and returns `ERR_NONE`, so `gameboy_run_until` returns `ERR_NONE`
   before its target.
2. `cpu_halt`. The path of `cpu_cycle` that leaves HALT (cpu.c:361) misses the decrement of `idle_time` that the
   comment at cpu.c:378 says is always made: the instruction it fetches takes one machine cycle more. (It never takes
   less: `NeverEarly`.)
3. `bus_unplug`. The loop (bus.c:81) stops before `end`, which is included: the last address of every component
   survives its unplug. The program itself is safe from it where it matters, because the cartridge is force-plugged
   over the boot ROM (`BootMapping`, `EveryAddressLives`), and `StaleOnlyAtEnds` shows that nothing else is left.

## 6. Notes from reading, outside the models

- A word stored at an address below a watched register changes the register unheard (cpu-storage.c:53). Such a
  store to DIV is undone by the next cycle (`DivShowsCounter`) but does not restart the counter; one at 0xFF4F leaves the boot ROM on. `StoreIsHeard` bounds what can go
  unheard to that second byte, and no document promises more.
- An interrupt whose return address is pushed over IF (SP at 0xFF10 or 0xFF11) rewrites it after its own bit was cleared (cpu.c:325), and can lose other requests or make new ones.
  `RequestKept` names this case, and `gameboy_interrupts` has it.
- STOP has 0 cycles (opcode.h:440), so `idle_time` wraps to 255 after it; `Cpu` has this.
- `bus_plug` of the whole bus does not end, its index being 16 bits wide (bus.c:66): the outcome *endless*, and `PlugEnds`.
- A push with SP at 1 writes at 0xFFFF and beyond (bus.c:135): the outcome *wild*, and `WildOnlyAtEnds`; `Cpu` bounds the stack.
- An access to a word checks the entry of its first byte only (bus.c:113, bus.c:131), so one at the end of a range follows a null pointer.
- CALL pushes before it reads its target (cpu.c:229), so a stack that overlaps the operand decides where it goes; RST (cpu.c:259) ignores a
  failing push. `Mnemonics` says both.
- With the copy of the opacity missing, `image_line_below_with_opacity` loses the lower halves: `bit_vector_and` returns NULL and the pointer to the copy is
  overwritten (image.c:209). `LossIsReported` says that only a call that returns `ERR_MEM` loses anything, and that
  only a shortage makes it return that.
- `gameboy_create` can return `ERR_NONE` with a machine that is not complete, when a call fails once and succeeds
  the second time; hence the premise of `EveryAddressLives`.
- With wrapping, extraction from a negative index is right only when the size divides the range of `size_t`
  (bit_vector.c:158); lines that wrap have 256 bits. `WrapsAt` is that premise.
- `image_line_set_word` (image.c:79) stores a word in the last chunk unmasked; harmless for lines that are a whole number of words, as those of `Image` are.
- `image_line_map_colors` with the default palette does not look whether its copies were allocated (image.c:129); the line is then not there, without an error.

## 7. Not modelled

- LCD controller and joypad: shipped as binaries. Their calls are external actions that may request an interrupt.
- The families of arithmetic instructions whose code is in a binary library (AND, OR, XOR, SWAP, DAA) are external operators of `Instructions`,
  taken from the unit tests and held to them by `AsExpected`; `alu_add16_low`, which only that library calls.
- Interrupts between the instructions of `Machine` (they are in `Cpu`), and its components that listen to stores (in `Gameboy`).
- Lines that are not a whole number of words, and NULL outputs, in `image.c`; failing allocations in `bit_vector.c` outside of `image.c`.
- GTK and drawing, printing, demos; the tests of other parts than `cpu_dispatch`; builds with DEBUG, where `M_REQUIRE_NO_ERR`
  also evaluates its argument for the message.

## 8. Plan

Order: what holds the machine together first, then what computes in it.

1. Done: timer, main loop, CPU control, bus, life cycle, simulator, arithmetic, bit vectors, with the
   abstract specifications `TimerClock`, `CallStack`, `Arithmetic` and `BitString`.
2. Done: every instruction (`Machine`) against the names of the rows (`Mnemonics`) and against the repository's unit tests (`TestBench`); images with
   failing allocations (`Image`, `Picture`); accesses at the ends of ranges and of the bus; proofs about `Bus`; every safety property of
   `Timer`, `Gameboy`, `Simulator`, `BitVector`, `Image` and `Lifecycle` proved.
3. Left, models: a run of `Machine` under interrupts, by composing it with the control of `Cpu`; `Image` over the words of `BitVector`.
4. Done: every safety property of a passing run proved but `AsExpected`, which tests finitely many cases.
