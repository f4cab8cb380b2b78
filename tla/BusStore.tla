-------------------------------- MODULE BusStore --------------------------------
(***************************************************************************)
(* Components, their memories and the bus (component.c, memory.c, bus.c).  *)
(*                                                                         *)
(* The bus is a table of pointers, one for each address: NoCell, or a byte *)
(* of some memory.  A component owns a memory and remembers the range it   *)
(* is plugged at; freeing a memory does not touch the pointers to it.      *)
(*                                                                         *)
(* The functions of the code are operators from a store, the record of     *)
(* bus, comp, heap and fresh, to an outcome, a store and an error code, so *)
(* that a caller can call them again after a failure, as M_REQUIRE_NO_ERR  *)
(* does.  Bus and Lifecycle are specifications built from them.            *)
(***************************************************************************)
EXTENDS Integers

CONSTANT AddrCount          \* 2^16: the addresses of the bus

Addr == 0..(AddrCount - 1)

NoMem == 0
NoCell == [mem |-> NoMem, at |-> 0]

\* A component with this memory and no range.
Owning(m) == [mem |-> m, start |-> 0, end |-> 0]
Nothing == Owning(NoMem)

Outcome(s, e) == [st |-> s, err |-> e]

-------------------------------------------------------------------------------
(* component.c and memory.c *)

check_component(s, c) == s.comp[c].end >= s.comp[c].start

\* A memory of the given size (0: a memory_t whose data could not be allocated).
Allocate(s, c, size) ==
  [s EXCEPT !.comp = [s.comp EXCEPT ![c] = Owning(s.fresh)],
            !.heap = [m \in DOMAIN s.heap \cup {s.fresh} |->
                       IF m = s.fresh THEN size ELSE s.heap[m]],
            !.fresh = s.fresh + 1]

\* component_create clears the component first, whatever it held, and then allocates
\* its memory_t and the data: all the ways this can come out.
component_create(s, c, size) ==
  { Outcome(Allocate(s, c, size), "ERR_NONE"),
    Outcome([s EXCEPT !.comp = [s.comp EXCEPT ![c] = Nothing]], "ERR_BAD_PARAMETER"),
    Outcome(Allocate(s, c, 0), "ERR_MEM") }

component_free(s, c) ==
  [s EXCEPT !.comp = [s.comp EXCEPT ![c] = Nothing],
            !.heap = [m \in DOMAIN s.heap \ {s.comp[c].mem} |-> s.heap[m]]]

component_shared(s, c, old) ==
  IF check_component(s, old)
  THEN Outcome([s EXCEPT !.comp = [s.comp EXCEPT ![c] = Owning(s.comp[old].mem)]], "ERR_NONE")
  ELSE Outcome(s, "ERR_BAD_PARAMETER")

-------------------------------------------------------------------------------
(* bus.c *)

\* The store in which the component has this range.
Ranged(s, c, start, end) ==
  [s EXCEPT !.comp = [s.comp EXCEPT ![c] = [mem |-> @.mem, start |-> start, end |-> end]]]

HasMemory(s, c) == s.comp[c].mem \in DOMAIN s.heap /\ s.heap[s.comp[c].mem] > 0

\* Mutant: the offset in the component with its sign turned.
MappedDown(s, c, off) ==
  LET k == s.comp[c] IN
  [a \in Addr |-> IF a \in k.start..k.end THEN [mem |-> k.mem, at |-> off + k.start - a]
                  ELSE s.bus[a]]

Mapped(s, c, off) ==
  LET k == s.comp[c] IN
  [a \in Addr |-> IF a \in k.start..k.end THEN [mem |-> k.mem, at |-> off + a - k.start]
                  ELSE s.bus[a]]

\* Mutant: a range may be longer than the memory by one.
RemapLonger(s, c, off) ==
  LET k == s.comp[c] IN
  IF ~HasMemory(s, c) THEN Outcome(s, "ERR_BAD_PARAMETER")
  ELSE IF k.end - k.start + off > s.heap[k.mem] THEN Outcome(s, "ERR_ADDRESS")
  ELSE Outcome([s EXCEPT !.bus = Mapped(s, c, off)], "ERR_NONE")

bus_remap(s, c, off) ==
  LET k == s.comp[c] IN
  IF ~HasMemory(s, c) THEN Outcome(s, "ERR_BAD_PARAMETER")
  ELSE IF k.end - k.start + off >= s.heap[k.mem] THEN Outcome(s, "ERR_ADDRESS")
  ELSE Outcome([s EXCEPT !.bus = Mapped(s, c, off)], "ERR_NONE")

\* A plug that fails leaves the component without a range.
bus_forced_plug(s, c, start, end, off) ==
  LET remap == bus_remap(Ranged(s, c, start, end), c, off)
  IN IF ~check_component(s, c) \/ start > end THEN Outcome(s, "ERR_BAD_PARAMETER")
     ELSE IF remap.err = "ERR_NONE" THEN remap
     ELSE Outcome(Ranged(remap.st, c, 0, 0), remap.err)

\* Mutant: the index of the search is a byte.
PassesByte(end, start) == \E i \in 0..(AddrCount \div 2 - 1) : i > end - start

\* The index of bus_plug's search, an addr_t, comes to a value that ends the loop.
Passes(end, start) == \E i \in Addr : i > end - start

\* Mutant: the search for an occupied address forgets the last one.
HalfExclusivePlug(s, c, start, end) ==
  IF \E a \in start..(end - 1) : s.bus[a] # NoCell
  THEN Outcome(s, "ERR_ADDRESS")
  ELSE bus_forced_plug(s, c, start, end, 0)

\* "endless": the call does not return.
bus_plug(s, c, start, end) ==
  IF ~check_component(s, c) \/ start > end THEN Outcome(s, "ERR_BAD_PARAMETER")
  ELSE IF \E a \in start..end : s.bus[a] # NoCell THEN Outcome(s, "ERR_ADDRESS")
  ELSE IF ~Passes(end, start) THEN Outcome(s, "endless")
  ELSE bus_forced_plug(s, c, start, end, 0)

\* Mutant: the loop also leaves out the first address.
UnplugInner(s, c) ==
  LET k == s.comp[c] IN
  Outcome([Ranged(s, c, 0, 0) EXCEPT
             !.bus = [a \in Addr |->
                       IF a \in (k.start + 1)..(k.end - 1) THEN NoCell ELSE s.bus[a]]],
          "ERR_NONE")

\* The loop ends one address before the end of the component.
bus_unplug(s, c) ==
  LET k == s.comp[c] IN
  IF ~check_component(s, c) THEN Outcome(s, "ERR_BAD_PARAMETER")
  ELSE Outcome([Ranged(s, c, 0, 0) EXCEPT
                  !.bus = [a \in Addr |->
                            IF a \in k.start..(k.end - 1) THEN NoCell ELSE s.bus[a]]],
               "ERR_NONE")

\* The pointer is in the table and leads to a byte that is allocated.
Leads(s, a) ==
  /\ a \in Addr /\ s.bus[a].mem \in DOMAIN s.heap
  /\ s.bus[a].at \in 0..(s.heap[s.bus[a].mem] - 1)

\* What a write of a byte or a word comes to; a read of one goes the same way but has
\* a value where a write is refused.  "wild": a pointer that leads nowhere is followed.
bus_write(s, a) ==
  IF s.bus[a] = NoCell THEN "ERR_BAD_PARAMETER"
  ELSE IF Leads(s, a) THEN "ERR_NONE" ELSE "wild"
bus_write16(s, a) ==
  IF s.bus[a] = NoCell THEN "ERR_BAD_PARAMETER"
  ELSE IF Leads(s, a) /\ Leads(s, a + 1) THEN "ERR_NONE" ELSE "wild"
===============================================================================
