------------------------------- MODULE BusProofs -------------------------------
(***************************************************************************)
(* Theorems about Bus, for every number of addresses, components, sizes    *)
(* and memories: a plugged range is whole and live, unplugging leaves one  *)
(* pointer for each range, and a wild pointer is followed only there.      *)
(*                                                                         *)
(* The properties are inductive together with what a client relies on: a   *)
(* component without a range is one of start and end 0, two ranges do not  *)
(* meet, and no memory is older than the next one (IInv).                  *)
(***************************************************************************)
EXTENDS Bus, TLAPS

Reach(c) == comp[c].start..comp[c].end

\* A component that is not plugged has no range, and a range has an order.
Ranges ==
  /\ \A c \in Components \ plugged : comp[c].start = 0 /\ comp[c].end = 0
  /\ \A c \in Components : comp[c].start <= comp[c].end
Apart == \A c, d \in plugged : c # d => Reach(c) \cap Reach(d) = {}
\* Memories get new names, and offsets are small.
Aged ==
  /\ \A m \in DOMAIN heap : m < fresh
  /\ \A c \in Components : comp[c].mem < fresh
  /\ offset \in [Components -> 0..1]

IInv ==
  /\ TypeOK /\ Ranges /\ Apart /\ Aged
  /\ MappedWhilePlugged /\ StaleOnlyAtEnds /\ PlugEnds

\* A cell of a range that is plugged is taken.
LEMMA CoveredIsTaken ==
  ASSUME TypeOK, MappedWhilePlugged, BusAssumption, NEW c \in plugged, NEW a \in Reach(c)
  PROVE  bus[a] # NoCell
<1>1. bus[a] = [mem |-> comp[c].mem, at |-> offset[c] + a - comp[c].start]
  BY DEF MappedWhilePlugged, Reach
<1>2. comp[c].mem \in 1..MaxMem
  BY DEF MappedWhilePlugged, TypeOK
<1>3. bus[a].mem # 0
  BY <1>1, <1>2, BusAssumption DEF BusAssumption
<1>4. NoCell.mem = 0
  BY DEF NoCell, NoMem
<1>5. QED
  BY <1>3, <1>4

\* A plug either succeeds on a free range or leaves everything but search alone.
LEMMA PlugCases ==
  ASSUME IInv, BusAssumption, NEW c \in Components, NEW start \in Addr, NEW end \in Addr,
         Plug(c, start, end)
  PROVE  /\ c \notin plugged /\ heap' = heap /\ fresh' = fresh /\ ends' = ends
         /\ offset' = [offset EXCEPT ![c] = 0]
         /\ \/ /\ bus' = bus /\ comp' = comp /\ plugged' = plugged
               /\ search' = <<>> \/ (search' = <<start, end>> /\ start <= end /\ ~Passes(end, start))
            \/ /\ start <= end /\ \A a \in start..end : bus[a] = NoCell
               /\ comp[c].mem \in DOMAIN heap /\ end - start < heap[comp[c].mem]
               /\ comp' = [comp EXCEPT ![c] = [mem |-> comp[c].mem, start |-> start, end |-> end]]
               /\ bus' = [a \in Addr |-> IF a \in start..end
                                         THEN [mem |-> comp[c].mem, at |-> a - start] ELSE bus[a]]
               /\ plugged' = plugged \cup {c} /\ search' = <<>>
<1> DEFINE k == [mem |-> comp[c].mem, start |-> start, end |-> end]
           kcomp == [comp EXCEPT ![c] = k]
           r == Ranged(Store, c, start, end)
           o == bus_plug(Store, c, start, end)
           mapped == [a \in Addr |-> IF a \in start..end
                                     THEN [mem |-> comp[c].mem, at |-> a - start] ELSE bus[a]]
<1>1. /\ c \notin plugged /\ ends' = ends /\ offset' = [offset EXCEPT ![c] = 0]
      /\ Becomes(o.st)
      /\ plugged' = IF o.err = "ERR_NONE" THEN plugged \cup {c} ELSE plugged
      /\ search' = IF o.err = "endless" THEN <<start, end>> ELSE <<>>
  BY DEF Plug
<1>2. /\ comp[c] = [mem |-> comp[c].mem, start |-> 0, end |-> 0] /\ comp[c].mem \in 0..MaxMem
      /\ c \in DOMAIN comp /\ comp = [comp EXCEPT ![c] = comp[c]]
  BY <1>1 DEF IInv, TypeOK, Ranges
<1>3. check_component(Store, c)
  BY <1>2 DEF check_component, Store
<1>4. /\ r = [bus |-> bus, comp |-> kcomp, heap |-> heap, fresh |-> fresh]
      /\ r.comp[c] = k
  BY <1>2 DEF Store, Ranged
<1>5. CASE start > end \/ \E a \in start..end : bus[a] # NoCell
  <2>1. o = Outcome(Store, "ERR_BAD_PARAMETER") \/ o = Outcome(Store, "ERR_ADDRESS")
    BY <1>3, <1>5 DEF bus_plug, Store
  <2>2. QED
    BY <2>1, <1>1 DEF Becomes, Store, Outcome
<1>6. CASE start <= end /\ (\A a \in start..end : bus[a] = NoCell) /\ ~Passes(end, start)
  <2>1. o = Outcome(Store, "endless")
    BY <1>3, <1>6 DEF bus_plug, Store, Addr
  <2>2. QED
    BY <2>1, <1>1, <1>6 DEF Becomes, Store, Outcome
<1>7. CASE start <= end /\ (\A a \in start..end : bus[a] = NoCell) /\ Passes(end, start)
  <2>1. ~(~check_component(Store, c) \/ start > end) /\ ~\E a \in start..end : Store.bus[a] # NoCell
    BY <1>3, <1>7 DEF Store, Addr
  <2>2. o = bus_forced_plug(Store, c, start, end, 0)
    BY <2>1, <1>7 DEF bus_plug
  <2>3. o = IF bus_remap(r, c, 0).err = "ERR_NONE" THEN bus_remap(r, c, 0)
            ELSE Outcome(Ranged(bus_remap(r, c, 0).st, c, 0, 0), bus_remap(r, c, 0).err)
    BY <2>1, <2>2 DEF bus_forced_plug
  <2>4. CASE HasMemory(r, c) /\ ~(r.comp[c].end - r.comp[c].start + 0 >= r.heap[r.comp[c].mem])
    <3>1. bus_remap(r, c, 0) = Outcome([r EXCEPT !.bus = Mapped(r, c, 0)], "ERR_NONE")
      BY <2>4 DEF bus_remap
    <3>2. Mapped(r, c, 0) = mapped
      BY <1>4, <1>2, <1>7 DEF Mapped, Addr
    <3>3. o = Outcome([bus |-> mapped, comp |-> kcomp, heap |-> heap, fresh |-> fresh], "ERR_NONE")
      BY <3>1, <3>2, <2>3, <1>4 DEF Outcome
    <3>4. comp[c].mem \in DOMAIN heap /\ end - start < heap[comp[c].mem]
      BY <2>4, <1>4, <1>2 DEF HasMemory, IInv, TypeOK, Addr
    <3>5. bus' = mapped /\ comp' = kcomp /\ heap' = heap /\ fresh' = fresh
      <4>1. o.st = [bus |-> mapped, comp |-> kcomp, heap |-> heap, fresh |-> fresh]
        BY <3>3 DEF Outcome
      <4> HIDE DEF mapped, kcomp, o
      <4>2. QED
        BY <4>1, <1>1 DEF Becomes
    <3>6. o.err = "ERR_NONE"
      BY <3>3 DEF Outcome
    <3>7. QED
      BY <3>4, <3>5, <3>6, <1>1, <1>7
  <2>5. CASE ~(HasMemory(r, c) /\ ~(r.comp[c].end - r.comp[c].start + 0 >= r.heap[r.comp[c].mem]))
    <3>1. bus_remap(r, c, 0) = Outcome(r, "ERR_BAD_PARAMETER") \/ bus_remap(r, c, 0) = Outcome(r, "ERR_ADDRESS")
      BY <2>5 DEF bus_remap
    <3>2. Ranged(r, c, 0, 0) = Store
      <4>1. Ranged(r, c, 0, 0) = [r EXCEPT !.comp = [r.comp EXCEPT
                                    ![c] = [mem |-> r.comp[c].mem, start |-> 0, end |-> 0]]]
        BY DEF Ranged
      <4>2. r.comp = kcomp /\ r.comp[c].mem = comp[c].mem
        BY <1>4
      <4>3. [kcomp EXCEPT ![c] = comp[c]] = comp
        BY <1>2
      <4>4. QED
        BY <4>1, <4>2, <4>3, <1>4, <1>2 DEF Store
    <3>3. o = Outcome(Store, "ERR_BAD_PARAMETER") \/ o = Outcome(Store, "ERR_ADDRESS")
      BY <3>1, <3>2, <2>3 DEF Outcome
    <3>4. QED
      BY <3>3, <1>1 DEF Becomes, Store, Outcome
  <2>6. QED
    BY <2>4, <2>5
<1>8. QED
  BY <1>5, <1>6, <1>7 DEF Addr

-------------------------------------------------------------------------------
(* The steps *)

\* A step that changes one component without a range, and memories nobody that is
\* plugged uses, keeps the invariant.
LEMMA QuietKeeps ==
  ASSUME IInv, BusAssumption, NEW c \in Components \ plugged,
         bus' = bus, plugged' = plugged, offset' = offset, ends' = ends, search' = search,
         comp' \in [Components -> [mem : 0..MaxMem, start : Addr, end : Addr]],
         comp'[c].mem < fresh', comp'[c].start = 0, comp'[c].end = 0,
         \A d \in Components \ {c} : comp'[d] = comp[d],
         fresh' \in 1..(MaxMem + 1), fresh <= fresh',
         DOMAIN heap' \subseteq 1..MaxMem,
         \A m \in DOMAIN heap' : heap'[m] \in Nat /\ m < fresh',
         \A d \in plugged : comp[d].mem \in DOMAIN heap'
                               /\ heap'[comp[d].mem] = heap[comp[d].mem]
  PROVE  IInv'
<1>1. \A d \in plugged : d \in Components \ {c} /\ comp'[d] = comp[d]
  BY DEF IInv, TypeOK
<1>2. TypeOK'
  BY DEF IInv, TypeOK, Cells, Addr
<1>3. Ranges'
  BY DEF IInv, Ranges
<1>4. Apart'
  BY <1>1 DEF IInv, Apart, Reach
<1>5. Aged'
  <2>1. \A d \in Components : comp'[d].mem < fresh'
    <3>1. TAKE d \in Components
    <3>2. comp[d].mem < fresh /\ comp[d].mem \in Int
      BY BusAssumption DEF IInv, Aged, TypeOK, BusAssumption
    <3>3. QED
      BY <3>2, BusAssumption DEF IInv, TypeOK, BusAssumption
  <2>2. QED
    BY <2>1 DEF IInv, Aged
<1>6. MappedWhilePlugged'
  BY <1>1 DEF IInv, MappedWhilePlugged
<1>7. StaleOnlyAtEnds'
  BY <1>1 DEF IInv, StaleOnlyAtEnds, Covered
<1>8. PlugEnds'
  BY DEF IInv, PlugEnds
<1>9. QED
  BY <1>2, <1>3, <1>4, <1>5, <1>6, <1>7, <1>8 DEF IInv

\* A component that is plugged has a memory.
LEMMA PluggedHasMemory ==
  ASSUME IInv, BusAssumption, NEW c \in plugged
  PROVE  comp[c].mem \in DOMAIN heap /\ comp[c].mem # 0
  BY BusAssumption DEF IInv, MappedWhilePlugged, TypeOK, BusAssumption

LEMMA CreateKeeps ==
  ASSUME IInv, BusAssumption, NEW c \in Components, Create(c)
  PROVE  IInv'
<1>1. /\ c \notin plugged /\ fresh \in 1..MaxMem
      /\ plugged' = plugged /\ offset' = offset /\ ends' = ends /\ search' = search
  BY PluggedHasMemory, BusAssumption DEF Create, IInv, TypeOK, NoMem, BusAssumption
<1>2. PICK size \in Sizes : \E o \in component_create(Store, c, size) : Becomes(o.st)
  BY DEF Create
<1>3. PICK o \in component_create(Store, c, size) : Becomes(o.st)
  BY <1>2
<1>4. comp \in [Components -> [mem : 0..MaxMem, start : Addr, end : Addr]] /\ 0 \in Addr
  BY BusAssumption DEF IInv, TypeOK, BusAssumption, Addr
<1>5. CASE \E n \in Nat : o.st = Allocate(Store, c, n)
  <2>1. PICK n \in Nat : o.st = Allocate(Store, c, n)
    BY <1>5
  <2>2. /\ bus' = bus /\ fresh' = fresh + 1
        /\ comp' = [comp EXCEPT ![c] = [mem |-> fresh, start |-> 0, end |-> 0]]
        /\ heap' = [m \in DOMAIN heap \cup {fresh} |-> IF m = fresh THEN n ELSE heap[m]]
    BY <1>3, <2>1 DEF Becomes, Allocate, Store, Owning
  <2>3. /\ comp' \in [Components -> [mem : 0..MaxMem, start : Addr, end : Addr]]
        /\ comp'[c] = [mem |-> fresh, start |-> 0, end |-> 0]
        /\ \A d \in Components \ {c} : comp'[d] = comp[d]
    BY <2>2, <1>1, <1>4
  <2>4. /\ DOMAIN heap' \subseteq 1..MaxMem
        /\ \A m \in DOMAIN heap' : heap'[m] \in Nat /\ m < fresh'
    <3>1. DOMAIN heap' = DOMAIN heap \cup {fresh}
      BY <2>2
    <3>2. DOMAIN heap \subseteq 1..MaxMem /\ (\A m \in DOMAIN heap : heap[m] \in Nat /\ m < fresh)
      BY DEF IInv, TypeOK, Aged
    <3>3. QED
      BY <2>2, <3>1, <3>2, <1>1
  <2>5. \A d \in plugged : comp[d].mem \in DOMAIN heap' /\ heap'[comp[d].mem] = heap[comp[d].mem]
    <3>1. \A d \in plugged : comp[d].mem \in DOMAIN heap /\ comp[d].mem # fresh
      BY PluggedHasMemory, <1>1 DEF IInv, Aged
    <3>2. QED
      BY <2>2, <3>1
  <2>6. fresh' \in 1..(MaxMem + 1) /\ fresh <= fresh'
    BY <2>2, <1>1
  <2>7. comp'[c].mem < fresh' /\ comp'[c].start = 0 /\ comp'[c].end = 0
    BY <2>2, <2>3, <1>1
  <2>8. QED
    BY <1>1, <2>2, <2>3, <2>4, <2>5, <2>6, <2>7, QuietKeeps
<1>6. CASE o.st = [Store EXCEPT !.comp = [Store.comp EXCEPT ![c] = Nothing]]
  <2>1. /\ bus' = bus /\ fresh' = fresh /\ heap' = heap
        /\ comp' = [comp EXCEPT ![c] = Nothing]
    BY <1>3, <1>6 DEF Becomes, Store
  <2>2. Nothing = [mem |-> 0, start |-> 0, end |-> 0]
    BY DEF Nothing, Owning, NoMem
  <2>3. /\ comp' \in [Components -> [mem : 0..MaxMem, start : Addr, end : Addr]]
        /\ comp'[c] = [mem |-> 0, start |-> 0, end |-> 0]
        /\ \A d \in Components \ {c} : comp'[d] = comp[d]
    BY <2>1, <2>2, <1>4, BusAssumption DEF BusAssumption
  <2>4. QED
    BY <2>1, <2>3, <1>1, PluggedHasMemory, QuietKeeps DEF IInv, TypeOK, Aged
<1>7. QED
  <2>1. size \in Nat
    BY BusAssumption DEF BusAssumption
  <2>2. \/ o = Outcome(Allocate(Store, c, size), "ERR_NONE")
        \/ o = Outcome([Store EXCEPT !.comp = [Store.comp EXCEPT ![c] = Nothing]], "ERR_BAD_PARAMETER")
        \/ o = Outcome(Allocate(Store, c, 0), "ERR_MEM")
    BY <1>3 DEF component_create
  <2>3. QED
    BY <2>1, <2>2, <1>5, <1>6 DEF Outcome

LEMMA ShareKeeps ==
  ASSUME IInv, BusAssumption, NEW c \in Components, NEW old \in Components, Share(c, old)
  PROVE  IInv'
<1>1. /\ c \notin plugged
      /\ plugged' = plugged /\ offset' = offset /\ ends' = ends /\ search' = search
  BY PluggedHasMemory DEF Share, NoMem
<1>2. comp \in [Components -> [mem : 0..MaxMem, start : Addr, end : Addr]] /\ 0 \in Addr
  BY BusAssumption DEF IInv, TypeOK, BusAssumption, Addr
<1>3. /\ bus' = bus /\ fresh' = fresh /\ heap' = heap
      /\ \/ comp' = comp
         \/ comp' = [comp EXCEPT ![c] = [mem |-> comp[old].mem, start |-> 0, end |-> 0]]
  BY DEF Share, Becomes, component_shared, Store, Outcome, Owning
<1>4. comp[c].start = 0 /\ comp[c].end = 0
  BY <1>1 DEF IInv, Ranges
<1>5. /\ comp' \in [Components -> [mem : 0..MaxMem, start : Addr, end : Addr]]
      /\ comp'[c].start = 0 /\ comp'[c].end = 0
      /\ \A d \in Components \ {c} : comp'[d] = comp[d]
  BY <1>2, <1>3, <1>4
<1>6. comp'[c].mem < fresh'
  BY <1>2, <1>3 DEF IInv, Aged
<1>7. /\ DOMAIN heap' \subseteq 1..MaxMem /\ fresh' \in 1..(MaxMem + 1) /\ fresh <= fresh'
      /\ \A m \in DOMAIN heap' : heap'[m] \in Nat /\ m < fresh'
  BY <1>3 DEF IInv, TypeOK, Aged
<1>8. \A d \in plugged : comp[d].mem \in DOMAIN heap' /\ heap'[comp[d].mem] = heap[comp[d].mem]
  BY <1>3, PluggedHasMemory
<1>9. QED
  BY <1>1, <1>3, <1>5, <1>6, <1>7, <1>8, QuietKeeps

LEMMA FreeKeeps ==
  ASSUME IInv, BusAssumption, NEW c \in Components, Free(c)
  PROVE  IInv'
<1>1. /\ c \notin plugged
      /\ plugged' = plugged /\ offset' = offset /\ ends' = ends /\ search' = search
  BY DEF Free
<1>2. comp \in [Components -> [mem : 0..MaxMem, start : Addr, end : Addr]] /\ 0 \in Addr
  BY BusAssumption DEF IInv, TypeOK, BusAssumption, Addr
<1>3. /\ bus' = bus /\ fresh' = fresh
      /\ comp' = [comp EXCEPT ![c] = Nothing]
      /\ heap' = [m \in DOMAIN heap \ {comp[c].mem} |-> heap[m]]
  BY DEF Free, Becomes, component_free, Store
<1>4. Nothing = [mem |-> 0, start |-> 0, end |-> 0]
  BY DEF Nothing, Owning, NoMem
<1>5. /\ comp' \in [Components -> [mem : 0..MaxMem, start : Addr, end : Addr]]
      /\ comp'[c] = [mem |-> 0, start |-> 0, end |-> 0]
      /\ \A d \in Components \ {c} : comp'[d] = comp[d]
  BY <1>2, <1>3, <1>4, BusAssumption DEF BusAssumption
<1>6. \A d \in plugged : comp[d].mem \in DOMAIN heap' /\ heap'[comp[d].mem] = heap[comp[d].mem]
  <2>1. \A d \in plugged : d \in Components \ {c}
    BY <1>1 DEF IInv, TypeOK
  <2>2. \A d \in plugged : comp[d].mem \in DOMAIN heap /\ comp[d].mem # comp[c].mem
    BY <2>1, PluggedHasMemory DEF Free
  <2>3. QED
    BY <1>3, <2>2
<1>7. /\ DOMAIN heap' \subseteq 1..MaxMem
      /\ \A m \in DOMAIN heap' : heap'[m] \in Nat /\ m < fresh'
  BY <1>3 DEF IInv, TypeOK, Aged
<1>8. comp'[c].mem < fresh' /\ fresh' \in 1..(MaxMem + 1) /\ fresh <= fresh'
  BY <1>3, <1>5 DEF IInv, TypeOK
<1>9. QED
  BY <1>1, <1>3, <1>5, <1>6, <1>7, <1>8, QuietKeeps

\* What Unplug does to the bus and the component.
LEMMA UnplugKeeps ==
  ASSUME IInv, BusAssumption, NEW c \in Components, Unplug(c), search = <<>>
  PROVE  IInv'
<1>1. comp \in [Components -> [mem : 0..MaxMem, start : Addr, end : Addr]] /\ 0 \in Addr
  BY BusAssumption DEF IInv, TypeOK, BusAssumption, Addr
<1>2. check_component(Store, c)
  BY <1>1 DEF check_component, Store, IInv, Ranges
<1>3. /\ fresh' = fresh /\ heap' = heap
      /\ comp' = [comp EXCEPT ![c] = [mem |-> comp[c].mem, start |-> 0, end |-> 0]]
      /\ bus' = [a \in Addr |-> IF a \in comp[c].start..(comp[c].end - 1) THEN NoCell ELSE bus[a]]
  <2>1. Becomes(bus_unplug(Store, c).st)
    BY DEF Unplug
  <2>2. bus_unplug(Store, c).st
          = [bus |-> [a \in Addr |-> IF a \in comp[c].start..(comp[c].end - 1) THEN NoCell ELSE bus[a]],
             comp |-> [comp EXCEPT ![c] = [mem |-> comp[c].mem, start |-> 0, end |-> 0]],
             heap |-> heap, fresh |-> fresh]
    BY <1>1, <1>2 DEF bus_unplug, Outcome, Ranged, Store
  <2>3. QED
    BY <2>1, <2>2 DEF Becomes
<1>4. /\ plugged' = plugged \ {c} /\ offset' = offset /\ search' = search
      /\ ends' = IF c \in plugged THEN ends \cup {comp[c].end} ELSE ends
  BY DEF Unplug
<1>5. /\ comp' \in [Components -> [mem : 0..MaxMem, start : Addr, end : Addr]]
      /\ comp'[c] = [mem |-> comp[c].mem, start |-> 0, end |-> 0]
      /\ \A d \in Components \ {c} : comp'[d] = comp[d]
  BY <1>1, <1>3
<1>6. plugged \subseteq Components /\ plugged' \subseteq Components \ {c}
  BY <1>4 DEF IInv, TypeOK
<1>7. \A d \in plugged' : d \in plugged /\ d \in Components /\ d # c /\ comp'[d] = comp[d]
  BY <1>4, <1>5, <1>6
<1>8. TypeOK'
  <2>1. bus' \in [Addr -> Cells]
    <3>1. NoCell \in Cells
      BY BusAssumption DEF NoCell, NoMem, Cells, BusAssumption
    <3>2. QED
      BY <1>3, <3>1 DEF IInv, TypeOK
  <2>2. ends' \subseteq Addr
    BY <1>1, <1>4 DEF IInv, TypeOK
  <2>3. QED
    BY <2>1, <2>2, <1>3, <1>4, <1>5, <1>6 DEF IInv, TypeOK
<1>9. Ranges'
  BY SMTT(30), <1>1, <1>4, <1>5 DEF IInv, Ranges
<1>10. Apart'
  BY <1>7 DEF IInv, Apart, Reach
<1>11. Aged'
  BY <1>1, <1>3, <1>4, <1>5 DEF IInv, Aged
<1>12. MappedWhilePlugged'
  <2>1. SUFFICES ASSUME NEW d \in plugged'
                 PROVE  /\ comp[d].mem \in DOMAIN heap
                        /\ offset[d] + comp[d].end - comp[d].start < heap[comp[d].mem]
                        /\ \A a \in Reach(d) :
                             bus'[a] = [mem |-> comp[d].mem, at |-> offset[d] + a - comp[d].start]
    <3>1. \A d \in plugged' : comp'[d] = comp[d] /\ offset'[d] = offset[d] /\ heap' = heap
      BY <1>3, <1>4, <1>7
    <3>2. QED
      BY <3>1 DEF MappedWhilePlugged, Reach
  <2>2. /\ comp[d].mem \in DOMAIN heap
        /\ offset[d] + comp[d].end - comp[d].start < heap[comp[d].mem]
        /\ \A a \in Reach(d) : bus[a] = [mem |-> comp[d].mem, at |-> offset[d] + a - comp[d].start]
    BY <1>7 DEF IInv, MappedWhilePlugged, Reach
  <2>3. ASSUME NEW a \in Reach(d) PROVE bus'[a] = bus[a]
    <3>1. a \in Addr
      BY <1>1, <1>7, BusAssumption DEF Reach, Addr, BusAssumption
    <3>2. a \notin comp[c].start..(comp[c].end - 1)
      <4>1. CASE c \in plugged
        <5>1. a \notin Reach(c)
          BY <4>1, <1>7 DEF IInv, Apart
        <5>2. comp[c].start \in Int /\ comp[c].end \in Int
          BY <1>1, BusAssumption DEF Addr, BusAssumption
        <5>3. QED
          BY <5>1, <5>2 DEF Reach
      <4>2. CASE c \notin plugged
        BY <4>2 DEF IInv, Ranges
      <4>3. QED
        BY <4>1, <4>2
    <3>3. QED
      BY <1>3, <3>1, <3>2
  <2>4. QED
    BY <2>2, <2>3
<1>13. StaleOnlyAtEnds'
  <2>1. SUFFICES ASSUME NEW a \in Addr, bus'[a] # NoCell, ~Covered(a)'
                 PROVE  a \in ends'
    BY DEF StaleOnlyAtEnds
  <2>2. bus'[a] = bus[a] /\ bus[a] # NoCell /\ a \notin comp[c].start..(comp[c].end - 1)
    BY <2>1, <1>3
  <2>3. CASE Covered(a)
    <3>1. PICK d \in plugged : a \in comp[d].start..comp[d].end
      BY <2>3 DEF Covered
    <3>2. d = c
      BY <3>1, <2>1, <1>4, <1>6, <1>7 DEF Covered
    <3>3. comp[c].start \in Int /\ comp[c].end \in Int
      BY <1>1, BusAssumption DEF Addr, BusAssumption
    <3>4. a = comp[c].end
      BY <3>1, <3>2, <3>3, <2>2
    <3>5. QED
      BY <3>4, <3>1, <3>2, <1>4
  <2>4. CASE ~Covered(a)
    BY <2>2, <2>4, <1>4 DEF IInv, StaleOnlyAtEnds
  <2>5. QED
    BY <2>3, <2>4
<1>14. PlugEnds'
  BY <1>4 DEF PlugEnds
<1>15. QED
  BY <1>8, <1>9, <1>10, <1>11, <1>12, <1>13, <1>14 DEF IInv

\* The component has or gets a range of its own, mapped anew: what Plug and Remap do.
Maps(c, off, start, end) ==
  /\ start <= end
  /\ comp[c].mem \in DOMAIN heap /\ off + end - start < heap[comp[c].mem]
  /\ \A d \in plugged \ {c} : (start..end) \cap Reach(d) = {}
  /\ bus' = [a \in Addr |-> IF a \in start..end
                            THEN [mem |-> comp[c].mem, at |-> off + a - start] ELSE bus[a]]
  /\ comp' = [comp EXCEPT ![c] = [mem |-> comp[c].mem, start |-> start, end |-> end]]
  /\ heap' = heap /\ fresh' = fresh /\ plugged' = plugged \cup {c} /\ ends' = ends
  /\ offset' = [offset EXCEPT ![c] = off] /\ search' = <<>>
  /\ c \in plugged => start = comp[c].start /\ end = comp[c].end

LEMMA MappingKeeps ==
  ASSUME IInv, BusAssumption, NEW c \in Components, NEW off \in 0..1,
         NEW start \in Addr, NEW end \in Addr, Maps(c, off, start, end)
  PROVE  IInv'
<1> USE DEF Maps
<1>1. /\ comp \in [Components -> [mem : 0..MaxMem, start : Addr, end : Addr]]
      /\ offset \in [Components -> 0..1]
      /\ plugged \subseteq Components /\ start \in Int /\ end \in Int
  BY BusAssumption DEF IInv, TypeOK, Aged, Addr, BusAssumption
<1>2. /\ comp' \in [Components -> [mem : 0..MaxMem, start : Addr, end : Addr]]
      /\ comp'[c] = [mem |-> comp[c].mem, start |-> start, end |-> end]
      /\ \A d \in Components \ {c} : comp'[d] = comp[d]
      /\ offset'[c] = off /\ (\A d \in Components \ {c} : offset'[d] = offset[d])
      /\ offset' \in [Components -> 0..1]
  BY <1>1
<1>3. TypeOK'
  <2>1. bus' \in [Addr -> Cells]
    <3>1. ASSUME NEW a \in Addr, a \in start..end
          PROVE  [mem |-> comp[c].mem, at |-> off + a - start] \in Cells
      <4>1. off + a - start \in Nat /\ comp[c].mem \in 0..MaxMem
        BY <1>1, <3>1
      <4>2. QED
        BY <4>1 DEF Cells
    <3>2. bus \in [Addr -> Cells]
      BY DEF IInv, TypeOK
    <3>3. QED
      BY <3>1, <3>2
  <2>2. QED
    BY <2>1, <1>1, <1>2 DEF IInv, TypeOK
<1>4. Ranges'
  BY <1>1, <1>2 DEF IInv, Ranges
<1>5. Apart'
  <2>1. SUFFICES ASSUME NEW d \in plugged', NEW e \in plugged', d # e
                 PROVE  Reach(d)' \cap Reach(e)' = {}
    BY DEF Apart
  <2>2. \A f \in plugged' : f # c => f \in plugged /\ Reach(f)' = Reach(f)
    BY <1>1, <1>2 DEF Reach
  <2>3. Reach(c)' = start..end
    BY <1>2 DEF Reach
  <2>4. CASE d # c /\ e # c
    BY <2>1, <2>2, <2>4 DEF IInv, Apart
  <2>5. CASE d = c \/ e = c
    BY <2>1, <2>2, <2>3, <2>5
  <2>6. QED
    BY <2>4, <2>5
<1>6. Aged'
  BY <1>1, <1>2 DEF IInv, Aged
<1>7. MappedWhilePlugged'
  <2>1. SUFFICES ASSUME NEW d \in plugged'
                 PROVE  /\ comp'[d].mem \in DOMAIN heap
                        /\ offset'[d] + comp'[d].end - comp'[d].start < heap[comp'[d].mem]
                        /\ \A a \in comp'[d].start..comp'[d].end :
                             bus'[a] = [mem |-> comp'[d].mem, at |-> offset'[d] + a - comp'[d].start]
    BY DEF MappedWhilePlugged
  <2>2. CASE d = c
    <3>1. \A a \in start..end : a \in Addr
      BY <1>1, BusAssumption DEF Addr, BusAssumption
    <3>2. QED
      BY <2>2, <3>1, <1>2
  <2>3. CASE d # c
    <3>1. d \in plugged /\ d \in Components \ {c}
      BY <2>3, <1>1
    <3>2. /\ comp[d].mem \in DOMAIN heap
          /\ offset[d] + comp[d].end - comp[d].start < heap[comp[d].mem]
          /\ \A a \in comp[d].start..comp[d].end :
               bus[a] = [mem |-> comp[d].mem, at |-> offset[d] + a - comp[d].start]
      BY <3>1 DEF IInv, MappedWhilePlugged
    <3>3. ASSUME NEW a \in comp[d].start..comp[d].end PROVE bus'[a] = bus[a]
      <4>1. a \in Addr
        BY <1>1, <3>1, BusAssumption DEF Addr, BusAssumption
      <4>2. a \notin start..end
        BY <3>1 DEF Reach
      <4>3. QED
        BY <4>1, <4>2
    <3>4. comp'[d] = comp[d] /\ offset'[d] = offset[d]
      BY <3>1, <1>2
    <3>5. QED
      BY <3>2, <3>3, <3>4
  <2>4. QED
    BY <2>2, <2>3
<1>8. StaleOnlyAtEnds'
  <2>1. SUFFICES ASSUME NEW a \in Addr, bus'[a] # NoCell, ~Covered(a)'
                 PROVE  a \in ends
    BY DEF StaleOnlyAtEnds
  <2>2. a \notin start..end
    BY <2>1, <1>2 DEF Covered
  <2>3. bus'[a] = bus[a]
    BY <2>2
  <2>4. ~Covered(a)
    BY <2>1, <2>2, <1>1, <1>2 DEF Covered
  <2>5. QED
    BY <2>1, <2>3, <2>4 DEF IInv, StaleOnlyAtEnds
<1>9. PlugEnds'
  BY DEF PlugEnds
<1>10. QED
  BY <1>3, <1>4, <1>5, <1>6, <1>7, <1>8, <1>9 DEF IInv

LEMMA PlugKeeps ==
  ASSUME IInv, BusAssumption, NEW c \in Components, NEW start \in Addr, NEW end \in Addr,
         Plug(c, start, end)
  PROVE  IInv'
<1>1. /\ c \notin plugged /\ heap' = heap /\ fresh' = fresh /\ ends' = ends
      /\ offset' = [offset EXCEPT ![c] = 0]
  BY PlugCases
<1>2. CASE /\ bus' = bus /\ comp' = comp /\ plugged' = plugged
           /\ search' = <<>> \/ (search' = <<start, end>> /\ start <= end /\ ~Passes(end, start))
  <2>1. /\ offset' \in [Components -> 0..1]
        /\ \A d \in plugged : offset'[d] = offset[d]
    BY <1>1 DEF IInv, Aged, TypeOK
  <2>2. TypeOK' /\ Ranges' /\ Apart' /\ Aged'
    BY <1>1, <1>2, <2>1 DEF IInv, TypeOK, Ranges, Apart, Reach, Aged
  <2>3. MappedWhilePlugged' /\ StaleOnlyAtEnds'
    <3>1. MappedWhilePlugged'
      BY <1>1, <1>2, <2>1 DEF IInv, MappedWhilePlugged
    <3>2. StaleOnlyAtEnds'
      BY <1>1, <1>2 DEF IInv, StaleOnlyAtEnds, Covered
    <3>3. QED
      BY <3>1, <3>2
  <2>4. PlugEnds'
    <3>1. ASSUME ~Passes(end, start) PROVE start = 0 /\ end = AddrCount - 1
      <4>1. AddrCount - 1 \in Addr /\ AddrCount \in Int
        BY BusAssumption DEF BusAssumption, Addr
      <4>2. ~(AddrCount - 1 > end - start)
        BY <3>1, <4>1 DEF Passes
      <4>3. QED
        BY <4>1, <4>2 DEF Addr
    <3>2. QED
      BY <1>2, <3>1 DEF PlugEnds
  <2>5. QED
    BY <2>2, <2>3, <2>4 DEF IInv
<1>3. CASE /\ start <= end /\ \A a \in start..end : bus[a] = NoCell
           /\ comp[c].mem \in DOMAIN heap /\ end - start < heap[comp[c].mem]
           /\ comp' = [comp EXCEPT ![c] = [mem |-> comp[c].mem, start |-> start, end |-> end]]
           /\ bus' = [a \in Addr |-> IF a \in start..end
                                     THEN [mem |-> comp[c].mem, at |-> a - start] ELSE bus[a]]
           /\ plugged' = plugged \cup {c} /\ search' = <<>>
  <2>1. \A d \in plugged \ {c} : (start..end) \cap Reach(d) = {}
    BY <1>3, CoveredIsTaken DEF IInv
  <2>2. start \in Int /\ end \in Int /\ \A a \in start..end : 0 + a - start = a - start
    BY BusAssumption DEF Addr, BusAssumption
  <2>3. 0 + end - start < heap[comp[c].mem]
    BY <1>3, <2>2
  <2>4. bus' = [a \in Addr |-> IF a \in start..end
                               THEN [mem |-> comp[c].mem, at |-> 0 + a - start] ELSE bus[a]]
    BY <1>3, <2>2
  <2>5. Maps(c, 0, start, end)
    BY <1>1, <1>3, <2>1, <2>3, <2>4 DEF Maps
  <2>6. QED
    BY <2>5, MappingKeeps
<1>4. QED
  BY <1>2, <1>3, PlugCases

LEMMA RemapKeeps ==
  ASSUME IInv, BusAssumption, NEW c \in Components, NEW off \in 0..1, Remap(c, off), search = <<>>
  PROVE  IInv'
<1> DEFINE o == bus_remap(Store, c, off)
<1>1. /\ c \in plugged /\ Becomes(o.st)
      /\ offset' = IF o.err = "ERR_NONE" THEN [offset EXCEPT ![c] = off] ELSE offset
      /\ plugged' = plugged /\ ends' = ends /\ search' = search
  BY DEF Remap
<1>2. comp[c] \in [mem : 0..MaxMem, start : Addr, end : Addr] /\ comp[c].start <= comp[c].end
  BY DEF IInv, TypeOK, Ranges
<1>3. comp[c].mem \in DOMAIN heap /\ heap[comp[c].mem] \in Nat
  BY <1>1 DEF IInv, MappedWhilePlugged, TypeOK
<1>4. CASE o = Outcome(Store, "ERR_BAD_PARAMETER") \/ o = Outcome(Store, "ERR_ADDRESS")
  <2>1. /\ bus' = bus /\ comp' = comp /\ heap' = heap /\ fresh' = fresh
        /\ offset' = offset /\ plugged' = plugged /\ ends' = ends /\ search' = search
    BY <1>1, <1>4 DEF Outcome, Becomes, Store
  <2>2. QED
    BY <2>1 DEF IInv, TypeOK, Ranges, Apart, Reach, Aged, MappedWhilePlugged, StaleOnlyAtEnds,
                Covered, PlugEnds
<1>5. CASE HasMemory(Store, c) /\ ~(comp[c].end - comp[c].start + off >= heap[comp[c].mem])
  <2>1. o = Outcome([Store EXCEPT !.bus = Mapped(Store, c, off)], "ERR_NONE")
    BY <1>5 DEF bus_remap, Store
  <2>2. Mapped(Store, c, off)
          = [a \in Addr |-> IF a \in comp[c].start..comp[c].end
                            THEN [mem |-> comp[c].mem, at |-> off + a - comp[c].start] ELSE bus[a]]
    BY DEF Mapped, Store
  <2>3. /\ bus' = Mapped(Store, c, off) /\ comp' = comp /\ heap' = heap /\ fresh' = fresh
        /\ offset' = [offset EXCEPT ![c] = off]
    BY <1>1, <2>1 DEF Outcome, Becomes, Store
  <2>4. comp = [comp EXCEPT ![c] = [mem |-> comp[c].mem, start |-> comp[c].start, end |-> comp[c].end]]
    BY <1>2 DEF IInv, TypeOK
  <2>5. \A d \in plugged \ {c} : (comp[c].start..comp[c].end) \cap Reach(d) = {}
    BY <1>1 DEF IInv, Apart, Reach
  <2>6. off + comp[c].end - comp[c].start < heap[comp[c].mem]
    BY <1>2, <1>3, <1>5, BusAssumption DEF Addr, BusAssumption
  <2>7. comp[c].start \in Addr /\ comp[c].end \in Addr /\ plugged' = plugged \cup {c} /\ search' = <<>>
    BY <1>1, <1>2
  <2>8. comp' = [comp EXCEPT ![c] = [mem |-> comp[c].mem, start |-> comp[c].start, end |-> comp[c].end]]
    BY <2>3, <2>4
  <2>9. Maps(c, off, comp[c].start, comp[c].end)
    BY <1>1, <1>2, <1>3, <2>2, <2>3, <2>5, <2>6, <2>7, <2>8 DEF Maps
  <2>10. QED
    BY <2>7, <2>9, MappingKeeps
<1>6. QED
  BY <1>4, <1>5 DEF bus_remap, Store

-------------------------------------------------------------------------------
(* The theorems *)

LEMMA InitHolds ==
  ASSUME BusAssumption, Init
  PROVE  IInv
<1>1. NoCell \in Cells /\ Nothing = [mem |-> 0, start |-> 0, end |-> 0] /\ 0 \in Addr
  BY BusAssumption DEF NoCell, NoMem, Cells, Nothing, Owning, Addr, BusAssumption
<1>2. DOMAIN heap = {}
  BY DEF Init
<1>3. TypeOK
  <2>1. bus \in [Addr -> Cells] /\ plugged = {} /\ ends = {} /\ search = <<>>
    BY <1>1 DEF Init
  <2>2. comp \in [Components -> [mem : 0..MaxMem, start : Addr, end : Addr]]
    BY <1>1, BusAssumption DEF Init, BusAssumption
  <2>3. fresh \in 1..(MaxMem + 1)
    BY BusAssumption DEF Init, BusAssumption
  <2>4. QED
    BY <1>2, <2>1, <2>2, <2>3 DEF TypeOK
<1>4. Ranges /\ Apart /\ Aged
  BY <1>1, <1>2 DEF Init, Ranges, Apart, Aged
<1>5. MappedWhilePlugged /\ StaleOnlyAtEnds /\ PlugEnds
  BY DEF Init, MappedWhilePlugged, StaleOnlyAtEnds, PlugEnds
<1>6. QED
  BY <1>3, <1>4, <1>5 DEF IInv

LEMMA StepKeeps ==
  ASSUME IInv, BusAssumption, [Next]_vars
  PROVE  IInv'
<1>1. CASE UNCHANGED vars
  BY <1>1 DEF vars, IInv, TypeOK, Ranges, Apart, Reach, Aged, MappedWhilePlugged, StaleOnlyAtEnds,
              Covered, PlugEnds
<1>2. CASE Searches
  BY <1>1, <1>2 DEF Searches
<1>3. ASSUME NEW c \in Components, search = <<>>,
             \/ Create(c) \/ Unplug(c) \/ Free(c)
             \/ \E old \in Components : Share(c, old)
             \/ \E start, end \in Addr : Plug(c, start, end)
             \/ \E off \in 0..1 : Remap(c, off)
      PROVE  IInv'
  BY <1>3, CreateKeeps, UnplugKeeps, FreeKeeps, ShareKeeps, PlugKeeps, RemapKeeps
<1>4. QED
  BY <1>1, <1>2, <1>3 DEF Next

LEMMA InductiveInvariant == Spec => []IInv
<1>1. Init => IInv
  BY InitHolds, BusAssumption
<1>2. IInv /\ [Next]_vars => IInv'
  BY StepKeeps, BusAssumption
<1>3. QED
  BY <1>1, <1>2, PTL DEF Spec

\* The type invariant of the bus and its components (bus.h, component.h).
THEOREM TypeCorrect == Spec => []TypeOK
<1>1. IInv => TypeOK
  BY DEF IInv
<1>2. QED
  BY <1>1, InductiveInvariant, PTL

\* Whatever is created, shared, plugged, remapped, unplugged and freed in whatever
\* order, a plugged component keeps its whole range and its memory (bus.c, component.c).
THEOREM PluggedStayMapped == Spec => []MappedWhilePlugged
<1>1. IInv => MappedWhilePlugged
  BY DEF IInv
<1>2. QED
  BY <1>1, InductiveInvariant, PTL

\* What bus_unplug leaves behind is the last address of a range, never more (bus.c:81).
THEOREM StaleOnlyAtRangeEnds == Spec => []StaleOnlyAtEnds
<1>1. IInv => StaleOnlyAtEnds
  BY DEF IInv
<1>2. QED
  BY <1>1, InductiveInvariant, PTL

\* The search of bus_plug fails to end for one range only, all addresses (bus.c:66).
THEOREM PlugFailsToEndOnlyOnWholeBus == Spec => []PlugEnds
<1>1. IInv => PlugEnds
  BY DEF IInv
<1>2. QED
  BY <1>1, InductiveInvariant, PTL

LEMMA CoveredLeads ==
  ASSUME IInv, BusAssumption, NEW c \in plugged, NEW a \in Reach(c)
  PROVE  Leads(Store, a)
<1>1. comp[c] \in [mem : 0..MaxMem, start : Addr, end : Addr] /\ offset[c] \in 0..1
  BY DEF IInv, TypeOK, Aged
<1>2. /\ comp[c].mem \in DOMAIN heap /\ heap[comp[c].mem] \in Nat
      /\ offset[c] + comp[c].end - comp[c].start < heap[comp[c].mem]
      /\ bus[a] = [mem |-> comp[c].mem, at |-> offset[c] + a - comp[c].start]
  BY DEF IInv, TypeOK, MappedWhilePlugged, Reach
<1>3. a \in Addr /\ comp[c].start <= a /\ a <= comp[c].end
      /\ a \in Int /\ comp[c].start \in Int /\ comp[c].end \in Int
  BY <1>1, BusAssumption DEF Reach, Addr, BusAssumption
<1>4. offset[c] + a - comp[c].start \in 0..(heap[comp[c].mem] - 1)
  BY <1>1, <1>2, <1>3
<1>5. QED
  BY <1>2, <1>3, <1>4 DEF Leads, Store

\* A pointer that leads nowhere is followed only at the last address of a range that is
\* plugged or was (bus_write, bus_write16, bus.c:120 to 137): no order of calls makes a
\* byte inside a range, or an address nobody had, dangle.
THEOREM WildPointersAreConfined == Spec => []WildOnlyAtEnds
<1>1. ASSUME IInv, NEW a \in Addr, bus[a] # NoCell, a \notin ends
      PROVE  \E c \in plugged : a \in Reach(c)
  BY <1>1 DEF IInv, StaleOnlyAtEnds, Covered, Reach
<1>2. ASSUME IInv PROVE WildOnlyAtEnds
  <2>1. SUFFICES ASSUME NEW a \in Addr, a \notin ends
                 PROVE  /\ bus_write(Store, a) # "wild"
                        /\ bus_write16(Store, a) = "wild" => \E c \in plugged : a = comp[c].end
    BY DEF WildOnlyAtEnds
  <2>2. CASE bus[a] = NoCell
    BY <2>2 DEF bus_write, bus_write16, Store
  <2>3. CASE bus[a] # NoCell
    <3>1. PICK c \in plugged : a \in Reach(c)
      BY <1>1, <1>2, <2>1, <2>3
    <3>2. Leads(Store, a)
      BY <1>2, <3>1, CoveredLeads, BusAssumption
    <3>3. ASSUME a # comp[c].end PROVE Leads(Store, a + 1)
      <4>1. comp[c].start \in Int /\ comp[c].end \in Int
        BY <1>2, BusAssumption DEF IInv, TypeOK, Addr, BusAssumption
      <4>2. a + 1 \in Reach(c)
        BY <3>1, <3>3, <4>1 DEF Reach
      <4>3. QED
        BY <1>2, <4>2, CoveredLeads, BusAssumption
    <3>4. QED
      BY <3>2, <3>3 DEF bus_write, bus_write16
  <2>4. QED
    BY <2>2, <2>3
<1>3. IInv => WildOnlyAtEnds
  BY <1>2
<1>4. QED
  BY <1>3, InductiveInvariant, PTL
================================================================================
