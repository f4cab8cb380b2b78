---------------------------- MODULE MCBitVector ----------------------------
(***************************************************************************)
(* The parts of the program that only compute, side by side: "vectors" of  *)
(* bit_vector.c, here; "pictures" of image.c; a "machine" that executes    *)
(* instructions, from states chosen so that carries, wraps, jumps both     *)
(* ways, overlapping stacks and gaps in the bus occur; and the "tests" of  *)
(* cpu_dispatch.  They share nothing: one of them moves in a behaviour,    *)
(* and the others rest, with no vectors, no lines and a stopped machine.   *)
(***************************************************************************)
EXTENDS BitVector, Image, Machine, TLC

\* Two vectors, and indexes that reach beyond both ends by more than a chunk.
MCVectors == {"one", "other"}
MCIndexes == {-6, -5, -3, -2, -1, 0, 1, 2, 3, 4, 7}

-----------------------------------------------------------------------------
(* Pictures of four pixels in two words.  The first palette is the one that
   changes nothing, the others permute the colors and merge some. *)
MCPalettes == {<<0, 1, 2, 3>>, <<3, 2, 1, 0>>, <<0, 2, 2, 0>>}
MCLines == {"a", "b", "c"}
\* Of the allocations of a call none fails, or one, or all.
MCShortages(sites) == {{}, sites} \cup {{site} : site \in sites}
MCStart == [a |-> [p \in 0 .. 3 |-> p], b |-> [p \in 0 .. 3 |-> IF p < 2 THEN 3 - p ELSE 0]]

-----------------------------------------------------------------------------
(* Machines: every byte, and every byte after the prefix, at PC *)
Registers8(a, b, c, d, e, h, l) ==
    [A |-> a, B |-> b, C |-> c, D |-> d, E |-> e, H |-> h, L |-> l]
At(registers, up, sp, operands, mem, gap) ==
    [reg |-> registers, F |-> [up |-> up, low |-> 0], SP |-> sp, PC |-> \hC000, IME |-> 0,
     HALT |-> 0, idle_time |-> 0, write_listener |-> 0, gap |-> gap, err |-> "ERR_NONE",
     mem |-> (\hC001 :> operands[1]) @@ (\hC002 :> operands[2]) @@ mem]

Bases ==
    { \* operands that point at data
      At(Registers8(0, 1, 2, 3, 4, 192, 200), {}, \hCFFE, <<142, 193>>, <<>>, {}),
      \* values at the edges, SP at 0, HL at 0xFFFF
      At(Registers8(255, 128, 129, 127, 15, 255, 255), {"C", "H"}, 0, <<130, 195>>, <<>>, {}),
      At(Registers8(154, 16, 240, 255, 254, 193, 142), {"C", "N"}, \hFFF0, <<142, 193>>, \hC18E :> 129, {}),
      \* a stack, a target and a pointer in gaps
      At(Registers8(16, 240, 143, 160, 5, 160, 0), {"Z", "N", "H"}, \hA002, <<255, 193>>, <<>>,
         40950 .. 40970 \cup {\hC18E}),
      At(Registers8(137, 193, 142, 160, 5, 200, 255), {"Z", "C"}, \hCFFF, <<142, 193>>, \hC8FF :> 255,
         {\hA005, \hFF8F}),
      \* a stack whose next word lies over the operand, HL below a page
      At(Registers8(1, 0, 255, 192, 255, 200, 255), {"N", "C"}, \hC003, <<127, 192>>, \hC8FF :> 240, {}),
      \* HL at a byte that counts over, SP in the middle of data
      At(Registers8(102, 193, 142, 192, 5, 200, 0), {"Z", "N", "H", "C"}, \hC094, <<128, 200>>,
         (\hC800 :> 1) @@ (\hC094 :> 52) @@ (\hC095 :> 18), {}) }
Stopped == [At(Registers8(0, 0, 0, 0, 0, 0, 0), {}, 0, <<0, 0>>, <<>>, {}) EXCEPT !.err = "ERR_INSTR"]
Prepared ==
    {Stopped}
    \cup {[b EXCEPT !.mem = (b.PC :> opcode) @@ @] : b \in Bases, opcode \in 0 .. 255}
    \cup {[b EXCEPT !.mem = (b.PC :> 203) @@ (b.PC + 1 :> opcode) @@ @] : b \in Bases, opcode \in 0 .. 255}
\* TLC computes Prepared once, and what replaces a constant each time it is used.
MCStarts == Prepared

(* Tests: the processor that a test puts on its bench *)
VARIABLES test, run, passed, bench
Bench == INSTANCE TestBench WITH m <- bench

-----------------------------------------------------------------------------
VARIABLE moving
pictures == <<asked, lines, image, err, short, lost, calls>>
tests == <<test, run, passed, bench>>

MCInit ==
    /\ moving \in {"vectors", "pictures", "machine", "tests"}
    /\ IF moving = "vectors" THEN Init
       ELSE vec = [n \in Vectors |-> bit_vector_create(CHOOSE size \in SIZES : TRUE, 0)]
    /\ ImageInit
    /\ IF moving = "machine" THEN MachineInit ELSE m = Stopped /\ executed = 0
    /\ IF moving = "tests" THEN Bench!Init
       ELSE test = "NOP" /\ run = "" /\ passed = 0 /\ bench = Bench!Zeroed
MCNext ==
    /\ UNCHANGED moving
    /\ \/ moving = "vectors" /\ Next /\ UNCHANGED <<pictures, machineVars, tests>>
       \/ moving = "pictures" /\ ImageNext /\ UNCHANGED <<vec, machineVars, tests>>
       \/ moving = "machine" /\ MachineNext /\ UNCHANGED <<vec, pictures, tests>>
       \/ moving = "tests" /\ Bench!Next /\ UNCHANGED <<vec, pictures, machineVars>>
MCSpec == MCInit /\ [][MCNext]_<<moving, vec, pictures, machineVars, tests>>

ASSUME MachineSetting == Setting /\ Initialised

\* TestBench: what the unit tests of cpu_dispatch assert.
AsExpected == Bench!AsExpected
=============================================================================
