---------------------------------- MODULE Bus ----------------------------------
(***************************************************************************)
(* A client of components and bus that creates, shares, plugs, remaps,     *)
(* unplugs and frees components in any order, with two rules of its own: a *)
(* component is plugged and freed only while it is unplugged, and a shared *)
(* memory is not freed.  The functions it calls are in module BusStore.    *)
(***************************************************************************)
EXTENDS BusStore

CONSTANTS
  Components,
  Sizes,            \* the sizes the client asks for
  MaxMem            \* bound: memories ever allocated

ASSUME BusAssumption ==
  /\ AddrCount \in Nat \ {0}
  /\ Sizes \subseteq Nat \ {0} /\ MaxMem \in Nat

VARIABLES
  bus,      \* bus_t: an address to a byte of a memory, or NoCell
  comp,     \* component_t: mem, start and end of every component
  heap,     \* the memories allocated and not freed, with their sizes
  fresh,    \* the next memory allocated; memories are never reused
  plugged,  \* history: the components the client has plugged and not unplugged
  offset,   \* history: the offset each of them is plugged with
  ends,     \* history: the last addresses of all ranges unplugged so far
  search    \* the range in whose search for an occupied address a plug is caught, if any

vars == <<bus, comp, heap, fresh, plugged, offset, ends, search>>

Store == [bus |-> bus, comp |-> comp, heap |-> heap, fresh |-> fresh]

Becomes(s) == bus' = s.bus /\ comp' = s.comp /\ heap' = s.heap /\ fresh' = s.fresh

Init ==
  /\ bus = [a \in Addr |-> NoCell]
  /\ comp = [c \in Components |-> Nothing]
  /\ heap = [m \in {} |-> 0] /\ fresh = 1
  /\ plugged = {} /\ offset = [c \in Components |-> 0] /\ ends = {}
  /\ search = <<>>

Create(c) ==
  /\ comp[c].mem = NoMem /\ fresh <= MaxMem
  /\ \E size \in Sizes : \E o \in component_create(Store, c, size) : Becomes(o.st)
  /\ UNCHANGED <<plugged, offset, ends, search>>

Share(c, old) ==
  /\ comp[c].mem = NoMem /\ c # old
  /\ Becomes(component_shared(Store, c, old).st)
  /\ UNCHANGED <<plugged, offset, ends, search>>

\* A failing plug changes nothing the client can see.
Plug(c, start, end) ==
  /\ c \notin plugged
  /\ LET o == bus_plug(Store, c, start, end) IN
     /\ Becomes(o.st)
     /\ search' = IF o.err = "endless" THEN <<start, end>> ELSE <<>>
     /\ plugged' = IF o.err = "ERR_NONE" THEN plugged \cup {c} ELSE plugged
     /\ offset' = [offset EXCEPT ![c] = 0]
  /\ UNCHANGED ends

\* The loop goes on.
Searches == search # <<>> /\ UNCHANGED vars

Remap(c, off) ==
  /\ c \in plugged
  /\ LET o == bus_remap(Store, c, off) IN
     /\ Becomes(o.st)
     /\ offset' = IF o.err = "ERR_NONE" THEN [offset EXCEPT ![c] = off] ELSE offset
  /\ UNCHANGED <<plugged, ends, search>>

Unplug(c) ==
  /\ Becomes(bus_unplug(Store, c).st)
  /\ plugged' = plugged \ {c}
  /\ ends' = IF c \in plugged THEN ends \cup {comp[c].end} ELSE ends
  /\ UNCHANGED <<offset, search>>

\* A memory that another component shares is freed once: nobody frees it twice.
Free(c) ==
  /\ c \notin plugged
  /\ comp[c].mem \in DOMAIN heap
  /\ \A d \in Components \ {c} : comp[d].mem # comp[c].mem
  /\ Becomes(component_free(Store, c))
  /\ UNCHANGED <<plugged, offset, ends, search>>

Next ==
  \/ /\ search = <<>>
     /\ \E c \in Components :
          \/ Create(c) \/ Unplug(c) \/ Free(c)
          \/ \E old \in Components : Share(c, old)
          \/ \E start, end \in Addr : Plug(c, start, end)
          \/ \E off \in 0..1 : Remap(c, off)
  \/ Searches

Spec == Init /\ [][Next]_vars

-------------------------------------------------------------------------------
(* Properties *)

Cells == [mem : 0..MaxMem, at : Nat]

TypeOK ==
  /\ bus \in [Addr -> Cells]
  /\ comp \in [Components -> [mem : 0..MaxMem, start : Addr, end : Addr]]
  /\ DOMAIN heap \subseteq 1..MaxMem /\ \A m \in DOMAIN heap : heap[m] \in Nat
  /\ fresh \in 1..(MaxMem + 1)
  /\ plugged \in SUBSET Components /\ ends \in SUBSET Addr
  /\ search \in {<<>>} \cup (Addr \X Addr)

\* A component stays reachable at its whole range as long as it is plugged: no other
\* component's plug, remap, unplug or free reaches into it, and every byte mapped is
\* a byte of its memory (bus_plug, bus_remap, bus_unplug).
MappedWhilePlugged ==
  \A c \in plugged :
    /\ comp[c].mem \in DOMAIN heap
    /\ offset[c] + comp[c].end - comp[c].start < heap[comp[c].mem]
    /\ \A a \in comp[c].start..comp[c].end :
         bus[a] = [mem |-> comp[c].mem, at |-> offset[c] + a - comp[c].start]

Covered(a) == \E c \in plugged : a \in comp[c].start..comp[c].end

\* What unplugging leaves behind is one address for each range, its last one, and
\* nothing else (bus_unplug, bus.c:81).
StaleOnlyAtEnds == \A a \in Addr : bus[a] # NoCell /\ ~Covered(a) => a \in ends

\* The search of bus_plug ends although its index wraps around, unless the program asks
\* for the whole bus and finds it free: then no index is beyond the range (bus.c:66).
PlugEnds == search # <<>> => search = <<0, AddrCount - 1>>

\* A pointer that leads nowhere is followed only at the last address of a range, one
\* that is plugged or one that was: by an access to a word that is half outside, beyond
\* the table for the last address of all, or through what bus_unplug leaves behind
\* (bus_write, bus_write16 and the reads).
WildOnlyAtEnds ==
  \A a \in Addr :
    /\ bus_write(Store, a) = "wild" => a \in ends
    /\ bus_write16(Store, a) = "wild" => a \in ends \/ \E c \in plugged : a = comp[c].end

\* Unplugging a component disconnects it: no address leads anywhere that is not the
\* range of a plugged component ("Unplug a component from the bus", bus.h:68, whose
\* end is "included", bus.h:36).
UnpluggedIsGone == \A a \in Addr : bus[a] # NoCell => Covered(a)
===============================================================================
