------------------------------- MODULE Lifecycle -------------------------------
(***************************************************************************)
(* The life of a gameboy_t as main of gbsimulator.c drives it: gameboy_create, *)
(* one call after the other, any of which may fail; the run, in which the  *)
(* program may turn the boot ROM off; gameboy_free, also after a failure.  *)
(*                                                                         *)
(* The macro M_REQUIRE_NO_ERR(call) evaluates `call`, and if it fails      *)
(* evaluates it a second time and returns what that gives, ERR_NONE        *)
(* included.  Every level of the calls does so.                            *)
(*                                                                         *)
(* The LCD controller and the joypad are external: they succeed or fail.   *)
(***************************************************************************)
EXTENDS BusStore, FiniteSets, Sequences

CONSTANTS
  Start, End,       \* the range of each component, in gameboy.h, cpu.h and cartridge.h
  REG_IF, REG_IE,   \* the two addresses that lead into cpu_t
  MaxFailures       \* bound: allocations, reads and external calls that fail

RAMs == {"WORK_RAM", "VIDEO_RAM", "EXTERN_RAM", "GRAPH_RAM", "USELESS", "REGISTERS"}
Components == RAMs \cup {"ECHO_RAM", "HIGH_RAM", "CARTRIDGE", "BOOT_ROM"}

ASSUME LifecycleAssumption ==
  /\ AddrCount \in Nat \ {0}
  /\ Start \in [Components -> Addr] /\ End \in [Components -> Addr]
  /\ \A c \in Components : Start[c] <= End[c]
  /\ REG_IF \in Addr /\ REG_IE \in Addr
  /\ MaxFailures \in Nat

Area(c) == Start[c]..End[c]
SizeOf(c) == End[c] - Start[c] + 1

\* The map of the headers: only the boot ROM lies over another component, the echo is
\* not longer than what it mirrors, and the ranges leave out just the cell of IE.
ASSUME LayoutAssumption ==
  /\ \A c, d \in Components \ {"BOOT_ROM"} : c # d => Area(c) \cap Area(d) = {}
  /\ Area("BOOT_ROM") \subseteq Area("CARTRIDGE")
  /\ SizeOf("ECHO_RAM") <= SizeOf("WORK_RAM")
  /\ REG_IF \in Area("REGISTERS")
  /\ UNION {Area(c) : c \in Components} = Addr \ {REG_IE}

VARIABLES
  store,    \* bus, comp, heap and fresh of BusStore; copied: the boot ROM has its
            \* content; wired: cpu_t.bus is set; ready: the other parts initialised;
            \* failed: failures so far
  phase,    \* "create", "created", "run", "free", "freed"
  stage,    \* the next step of gameboy_create or gameboy_free
  result,   \* what gameboy_create has returned
  boot      \* gameboy_t.boot

vars == <<store, phase, stage, result, boot>>

\* main has zeroed the gameboy_t.  Memory 1 stands for the cpu_t, which holds IF and IE.
CpuMem == 1

Init ==
  /\ store = [bus |-> [a \in Addr |-> NoCell], comp |-> [c \in Components |-> Nothing],
              heap |-> [m \in {} |-> 0], fresh |-> CpuMem + 1,
              copied |-> FALSE, wired |-> FALSE, ready |-> {}, failed |-> 0]
  /\ phase = "create" /\ stage = 1 /\ result = "ERR_NONE" /\ boot = TRUE

-------------------------------------------------------------------------------
(* The calls of gameboy_create, as sets of outcomes *)

\* M_REQUIRE_NO_ERR(call) followed by the rest.
Require(call(_), s, rest(_)) ==
  UNION {IF o.err = "ERR_NONE" THEN rest(o.st) ELSE call(o.st) : o \in call(s)}

Done(s) == {Outcome(s, "ERR_NONE")}

\* An outcome counts as a failure of the environment, within the bound.
Counted(outcomes) ==
  {o \in {IF x.err = "ERR_NONE" THEN x ELSE Outcome([x.st EXCEPT !.failed = @ + 1], x.err)
            : x \in outcomes} :
     o.st.failed <= MaxFailures}

Create(s, c) == Counted(component_create(s, c, SizeOf(c)))

component_connect(s, c) ==
  Require(LAMBDA t : Create(t, c), s,
          LAMBDA t : Require(LAMBDA u : {bus_plug(u, c, Start[c], End[c])}, t, Done))

\* Mutant: the echo gets a memory of its own.
OwnEcho(s) == Create(s, "ECHO_RAM")

share_echo(s) == {component_shared(s, "ECHO_RAM", "WORK_RAM")}

plug_echo(s) == {bus_plug(s, "ECHO_RAM", Start["ECHO_RAM"], End["ECHO_RAM"])}

cpu_init(s) == Require(LAMBDA t : Create(t, "HIGH_RAM"), [s EXCEPT !.wired = FALSE], Done)

cpu_plug(s) ==
  Require(LAMBDA t : {bus_plug(t, "HIGH_RAM", Start["HIGH_RAM"], End["HIGH_RAM"])},
          [s EXCEPT !.wired = TRUE],
          LAMBDA t : Done([t EXCEPT !.bus = [t.bus EXCEPT ![REG_IE] = [mem |-> CpuMem, at |-> 0],
                                                          ![REG_IF] = [mem |-> CpuMem, at |-> 1]]]))

\* The file is missing or too short, or the cartridge's type is not supported.
cartridge_init_from_file(s) == Counted({Outcome(s, "ERR_NONE"), Outcome(s, "ERR_IO")})

cartridge_init(s) ==
  Require(LAMBDA t : Create(t, "CARTRIDGE"), s,
          LAMBDA t : Require(cartridge_init_from_file, t, Done))

forced(s, c) == {bus_forced_plug(s, c, Start[c], End[c], 0)}

cartridge_plug(s) == Require(LAMBDA t : forced(t, "CARTRIDGE"), s, Done)

bootrom_init(s) ==
  Require(LAMBDA t : Create([t EXCEPT !.copied = FALSE], "BOOT_ROM"), s,
          LAMBDA t : Done([t EXCEPT !.copied = TRUE]))

Initialise(s, part) == [s EXCEPT !.ready = @ \cup {part}]

timer_init(s) == Done(Initialise(s, "timer"))

\* lcdc_init, lcdc_plug, joypad_init_and_plug.
external_init(s, part) ==
  Counted({Outcome(Initialise(s, part), "ERR_NONE"), Outcome(s, "ERR_MEM")})

Stages == <<"WORK_RAM", "share", "ECHO_RAM", "VIDEO_RAM", "EXTERN_RAM", "GRAPH_RAM", "USELESS",
            "REGISTERS", "cpu_init", "cpu_plug", "cartridge_init", "cartridge_plug",
            "bootrom_init", "bootrom_plug", "timer", "lcdc", "screen", "joypad">>

Call(name, s) ==
  CASE name \in RAMs        -> component_connect(s, name)
    [] name = "share"       -> share_echo(s)
    [] name = "ECHO_RAM"    -> plug_echo(s)
    [] name = "cpu_init"    -> cpu_init(s)
    [] name = "cpu_plug"    -> cpu_plug(s)
    [] name = "cartridge_init" -> cartridge_init(s)
    [] name = "cartridge_plug" -> cartridge_plug(s)
    [] name = "bootrom_init"   -> bootrom_init(s)
    [] name = "bootrom_plug"   -> forced(s, "BOOT_ROM")
    [] name = "timer"       -> timer_init(s)
    [] OTHER                -> external_init(s, name)

-------------------------------------------------------------------------------
(* Actions *)

\* One M_REQUIRE_NO_ERR of gameboy_create passes.
Proceed ==
  /\ phase = "create" /\ stage <= Len(Stages)
  /\ \E o \in Call(Stages[stage], store) : o.err = "ERR_NONE" /\ store' = o.st
  /\ stage' = stage + 1
  /\ UNCHANGED <<phase, result, boot>>

\* One fails: the call is made again, and its second outcome is returned.
Abandon ==
  /\ phase = "create" /\ stage <= Len(Stages)
  /\ \E o \in Call(Stages[stage], store) :
       /\ o.err # "ERR_NONE"
       /\ \E again \in Call(Stages[stage], o.st) : store' = again.st /\ result' = again.err
  /\ phase' = "created"
  /\ UNCHANGED <<stage, boot>>

Return ==
  /\ phase = "create" /\ stage > Len(Stages)
  /\ phase' = "created"
  /\ UNCHANGED <<store, stage, result, boot>>

Run ==
  /\ phase = "created" /\ result = "ERR_NONE"
  /\ phase' = "run"
  /\ UNCHANGED <<store, stage, result, boot>>

\* Mutant: the cartridge is not plugged again.
UnplugOnly(s) == {bus_unplug(s, "BOOT_ROM")}

bootrom_bus_listener(s) ==
  Require(LAMBDA t : {bus_unplug(t, "BOOT_ROM")}, s, cartridge_plug)

\* The program stores to REG_BOOT_ROM_DISABLE.
DisableBootRom ==
  /\ phase = "run" /\ boot
  /\ \E o \in bootrom_bus_listener(store) :
       store' = o.st /\ boot' = IF o.err = "ERR_NONE" THEN FALSE ELSE boot
  /\ UNCHANGED <<phase, stage, result>>

\* Everything gameboy_free unplugs: components[], in the order of component_type, and the rest.
FreeOrder == <<"VIDEO_RAM", "EXTERN_RAM", "WORK_RAM", "GRAPH_RAM", "USELESS", "REGISTERS",
               "ECHO_RAM", "BOOT_ROM", "CARTRIDGE", "HIGH_RAM">>

\* Mutants: the boot ROM is forgotten; the echo is freed as well.
FreeButBoot == Components \ {"ECHO_RAM", "BOOT_ROM"}
FreeEcho == Components

\* What it frees; the echo is only unplugged.
Freed == Components \ {"ECHO_RAM"}

Release(s, c) ==
  LET t == bus_unplug(s, c).st IN IF c \in Freed THEN component_free(t, c) ELSE t

\* gameboy_free: one component after the other, and what cpu_free has left to do.
Free ==
  /\ phase \in {"created", "run"}
  /\ phase = "created" => result # "ERR_NONE"
  /\ phase' = "free" /\ stage' = 1
  /\ UNCHANGED <<store, result, boot>>

FreeNext ==
  /\ phase = "free" /\ stage <= Len(FreeOrder)
  /\ store' = Release(store, FreeOrder[stage]) /\ stage' = stage + 1
  /\ UNCHANGED <<phase, result, boot>>

cpu_free ==
  /\ phase = "free" /\ stage > Len(FreeOrder)
  /\ store' = IF store.wired
              THEN [store EXCEPT !.bus = [store.bus EXCEPT ![REG_IE] = NoCell, ![REG_IF] = NoCell],
                                 !.wired = FALSE]
              ELSE store
  /\ phase' = "freed"
  /\ UNCHANGED <<stage, result, boot>>

Next == Proceed \/ Abandon \/ Return \/ Run \/ DisableBootRom \/ Free \/ FreeNext \/ cpu_free

Spec == Init /\ [][Next]_vars

-------------------------------------------------------------------------------
(* Properties *)

Reaches(a, c, at) == store.bus[a] = [mem |-> store.comp[c].mem, at |-> at]

Live == DOMAIN store.heap \cup {CpuMem}

\* When nothing has failed, every address leads to a byte of live memory for the whole
\* run, before and after the boot ROM is turned off: the order of the calls of
\* gameboy_create, plugs over plugs included, leaves no hole in the memory map.
EveryAddressLives ==
  phase = "run" /\ store.failed = 0 => \A a \in Addr : store.bus[a].mem \in Live

\* The echo area and the work RAM reach the same bytes, whatever failed, as long as both
\* are plugged (component_shared; the echo is the shorter one).
EchoMirrors ==
  phase = "run" =>
    \A a \in Start["ECHO_RAM"]..End["ECHO_RAM"] :
      LET w == a - Start["ECHO_RAM"] + Start["WORK_RAM"] IN
      store.bus[a] # NoCell /\ store.bus[w] # NoCell => store.bus[a] = store.bus[w]

\* gameboy_free never frees a memory that is not, or no longer, allocated, at whatever
\* call gameboy_create has stopped and although the echo shares the work RAM's.
FreedOnce ==
  phase = "free" /\ stage <= Len(FreeOrder) /\ FreeOrder[stage] \in Freed =>
    LET mem == store.comp[FreeOrder[stage]].mem IN mem # NoMem => mem \in DOMAIN store.heap

\* Nothing is lost when nothing failed, and at most one memory for each failure: the
\* second evaluation of a failed call overwrites the component that the first has left.
LeaksNeedFailures == phase = "freed" => Cardinality(DOMAIN store.heap) <= store.failed
===============================================================================
