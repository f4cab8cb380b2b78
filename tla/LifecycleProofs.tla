---------------------------- MODULE LifecycleProofs ----------------------------
(***************************************************************************)
(* Proofs about module Lifecycle, for every memory map that the layout     *)
(* assumption allows and any number of failures, at whatever calls: the    *)
(* memory map is whole when nothing failed, the echo mirrors the work RAM, *)
(* gameboy_free frees what is allocated, and what leaks is paid for.       *)
(*                                                                         *)
(* The argument follows the calls.  What a call of gameboy_create needs is *)
(* a predicate of the components made, touched and plugged before it       *)
(* (Ready); a call that passes leaves what the next one needs, and one that *)
(* fails leaves what it needs itself, because it is made a second time.    *)
(***************************************************************************)
EXTENDS Lifecycle, FiniteSetTheorems, TLAPS

Cells == [mem : Nat, at : Int]
Comps == [mem : Nat, start : Addr, end : Addr]
Heaps == UNION {[D -> Nat] : D \in SUBSET Nat}
Parts == {"timer", "lcdc", "screen", "joypad"}
Stores ==
  [bus : [Addr -> Cells], comp : [Components -> Comps], heap : Heaps, fresh : Nat,
   copied : BOOLEAN, wired : BOOLEAN, ready : SUBSET Parts, failed : Nat]

-------------------------------------------------------------------------------
(* The invariant *)

Held(s) == {s.comp[c].mem : c \in Freed}
\* The memories that no component which is freed has.
Lost(s) == DOMAIN s.heap \ Held(s)
HasMem(s, c) == s.comp[c].mem # NoMem

\* Every component that is freed has a memory of its own, which is allocated, or none;
\* what is lost has been paid for by a failure.
Owned(s) ==
  /\ CpuMem < s.fresh /\ DOMAIN s.heap \subseteq (CpuMem + 1)..(s.fresh - 1)
  /\ \A c \in Freed : HasMem(s, c) => s.comp[c].mem \in DOMAIN s.heap
  /\ \A c, d \in Freed : c # d /\ HasMem(s, c) => s.comp[c].mem # s.comp[d].mem
Paid(s) == Cardinality(Lost(s)) <= s.failed
Kept(s) == s \in Stores /\ Owned(s) /\ Paid(s)

\* The pointers of the bus lead to live memory, a component that is plugged is plugged at
\* its place, and the work RAM and its echo are reached through the work RAM's memory.
Pointers(s) == \A a \in Addr : s.bus[a] = NoCell \/ s.bus[a].mem \in DOMAIN s.heap \cup {CpuMem}
Places(s) ==
  \A c \in Components : <<s.comp[c].start, s.comp[c].end>> \in {<<0, 0>>, <<Start[c], End[c]>>}
Mirrors == {"WORK_RAM", "ECHO_RAM"}
Echoes(s) ==
  /\ s.comp["ECHO_RAM"].mem \in {NoMem, s.comp["WORK_RAM"].mem}
  /\ \A c \in Mirrors : \A a \in Area(c) :
       s.bus[a] \in {NoCell, [mem |-> s.comp["WORK_RAM"].mem, at |-> a - Start[c]]}
Wires(s) == Pointers(s) /\ Places(s) /\ Echoes(s)

\* The calls of gameboy_create that make a component and that plug it.
MadeBy(c) ==
  CASE c = "WORK_RAM" -> 1 [] c = "ECHO_RAM" -> 2 [] c = "VIDEO_RAM" -> 4 [] c = "EXTERN_RAM" -> 5
    [] c = "GRAPH_RAM" -> 6 [] c = "USELESS" -> 7 [] c = "REGISTERS" -> 8 [] c = "HIGH_RAM" -> 9
    [] c = "CARTRIDGE" -> 11 [] c = "BOOT_ROM" -> 13
PluggedBy(c) ==
  CASE c = "WORK_RAM" -> 1 [] c = "ECHO_RAM" -> 3 [] c = "VIDEO_RAM" -> 4 [] c = "EXTERN_RAM" -> 5
    [] c = "GRAPH_RAM" -> 6 [] c = "USELESS" -> 7 [] c = "REGISTERS" -> 8 [] c = "HIGH_RAM" -> 10
    [] c = "CARTRIDGE" -> 12 [] c = "BOOT_ROM" -> 14
Made(n) == {c \in Components : MadeBy(c) < n}
Plugged(n) == {c \in Components : PluggedBy(c) < n}
\* The components that bus_plug plugs, which needs their places to be free.
Plain == Components \ {"CARTRIDGE", "BOOT_ROM"}

\* What a call of gameboy_create finds when the components `made` have been made, only
\* those `begun` have been touched, and those `plugged` have been plugged.
Ready(s, made, begun, plugged, cpu) ==
  /\ \A c \in made : s.comp[c].mem \in DOMAIN s.heap /\ s.heap[s.comp[c].mem] >= SizeOf(c)
  /\ \A c \in Components \ begun : ~HasMem(s, c)
  /\ \A c \in Freed \ made : HasMem(s, c) => Cardinality(Lost(s)) < s.failed
  /\ \A c \in Plain \ plugged : \A a \in Area(c) : s.bus[a] = NoCell
  /\ s.failed = 0 => \A c \in plugged : \A a \in Area(c) : s.bus[a] # NoCell
  /\ s.failed = 0 /\ cpu => s.bus[REG_IE] # NoCell
ReadyAt(s, n) == Ready(s, Made(n), Made(n + 1), Plugged(n), n > 10)

\* No address leads nowhere, and the cartridge can be plugged again.
Whole(s) ==
  /\ \A a \in Addr : s.bus[a] # NoCell
  /\ s.comp["CARTRIDGE"].mem \in DOMAIN s.heap
  /\ s.heap[s.comp["CARTRIDGE"].mem] >= SizeOf("CARTRIDGE")

Phases == {"create", "created", "run", "free", "freed"}
TypeOK == phase \in Phases /\ stage \in 1..(Len(Stages) + 1)
IInv ==
  /\ TypeOK /\ Kept(store)
  /\ phase \in {"create", "created", "run"} => Wires(store)
  /\ phase = "create" => ReadyAt(store, stage)
  /\ phase \in {"created", "run"} /\ store.failed = 0 => Whole(store)
  /\ phase = "free" =>
       /\ Places(store)
       /\ \A i \in 1..(stage - 1) : FreeOrder[i] \in Freed => ~HasMem(store, FreeOrder[i])
  /\ phase = "freed" => \A c \in Freed : ~HasMem(store, c)

\* What a heap is.
LEMMA HeapType ==
  ASSUME NEW h \in Heaps
  PROVE  DOMAIN h \subseteq Nat /\ \A m \in DOMAIN h : h[m] \in Nat
BY DEF Heaps

\* An allocation and a deallocation leave a heap.
LEMMA HeapGrows ==
  ASSUME NEW h \in Heaps, NEW m \in Nat, NEW size \in Nat
  PROVE  [x \in DOMAIN h \cup {m} |-> IF x = m THEN size ELSE h[x]] \in Heaps
<1>1. DOMAIN h \cup {m} \in SUBSET Nat
  BY HeapType
<1>2. [x \in DOMAIN h \cup {m} |-> IF x = m THEN size ELSE h[x]] \in [DOMAIN h \cup {m} -> Nat]
  BY HeapType
<1>3. QED
  BY <1>1, <1>2 DEF Heaps

LEMMA HeapShrinks ==
  ASSUME NEW h \in Heaps, NEW m
  PROVE  [x \in DOMAIN h \ {m} |-> h[x]] \in Heaps
<1>1. DOMAIN h \ {m} \in SUBSET Nat
  BY HeapType
<1>2. [x \in DOMAIN h \ {m} |-> h[x]] \in [DOMAIN h \ {m} -> Nat]
  BY HeapType
<1>3. QED
  BY <1>1, <1>2 DEF Heaps

\* M_REQUIRE_NO_ERR unfolded for component_connect: which call is made after which.
LEMMA ConnectCases ==
  ASSUME NEW s, NEW c, NEW o \in component_connect(s, c)
  PROVE  \E x \in Create(s, c) :
           IF x.err = "ERR_NONE"
           THEN LET y == bus_plug(x.st, c, Start[c], End[c])
                IN  o = IF y.err = "ERR_NONE" THEN Outcome(y.st, "ERR_NONE")
                        ELSE bus_plug(y.st, c, Start[c], End[c])
           ELSE o \in Create(x.st, c)
<1>1. PICK x \in Create(s, c) :
        o \in IF x.err = "ERR_NONE"
              THEN UNION {IF y.err = "ERR_NONE" THEN Done(y.st) ELSE {bus_plug(y.st, c, Start[c], End[c])}
                            : y \in {bus_plug(x.st, c, Start[c], End[c])}}
              ELSE Create(x.st, c)
  BY DEF component_connect, Require
<1>2. QED
  BY <1>1 DEF Done

\* What Create leaves: a new memory, nothing, or a new memory without data.
LEMMA CreateCases ==
  ASSUME NEW s \in Stores, NEW c \in Components, NEW o \in Create(s, c)
  PROVE  /\ o.st \in Stores /\ o.st.bus = s.bus /\ o.st.wired = s.wired
         /\ \A d \in Components \ {c} : o.st.comp[d] = s.comp[d]
         /\ o.st.comp[c].start = 0 /\ o.st.comp[c].end = 0
         /\ \/ /\ o.err = "ERR_NONE" /\ o.st.failed = s.failed
               /\ o.st.comp[c].mem = s.fresh /\ o.st.fresh = s.fresh + 1
               /\ DOMAIN o.st.heap = DOMAIN s.heap \cup {s.fresh}
               /\ \A m \in DOMAIN o.st.heap :
                    o.st.heap[m] = IF m = s.fresh THEN SizeOf(c) ELSE s.heap[m]
            \/ /\ o.err # "ERR_NONE" /\ o.st.failed = s.failed + 1
               /\ o.st.comp[c].mem = NoMem /\ o.st.fresh = s.fresh /\ o.st.heap = s.heap
            \/ /\ o.err # "ERR_NONE" /\ o.st.failed = s.failed + 1
               /\ o.st.comp[c].mem = s.fresh /\ o.st.fresh = s.fresh + 1
               /\ DOMAIN o.st.heap = DOMAIN s.heap \cup {s.fresh}
               /\ \A m \in DOMAIN o.st.heap :
                    o.st.heap[m] = IF m = s.fresh THEN 0 ELSE s.heap[m]
<1> DEFINE bare == [s.comp EXCEPT ![c] = Nothing]
           own == [s.comp EXCEPT ![c] = Owning(s.fresh)]
           full == [m \in DOMAIN s.heap \cup {s.fresh} |-> IF m = s.fresh THEN SizeOf(c) ELSE s.heap[m]]
           void == [m \in DOMAIN s.heap \cup {s.fresh} |-> IF m = s.fresh THEN 0 ELSE s.heap[m]]
           made == [s EXCEPT !.comp = own, !.heap = full, !.fresh = s.fresh + 1]
           left == [s EXCEPT !.comp = bare]
           hollow == [s EXCEPT !.comp = own, !.heap = void, !.fresh = s.fresh + 1]
<1>1. PICK x \in component_create(s, c, SizeOf(c)) :
        o = IF x.err = "ERR_NONE" THEN x ELSE Outcome([x.st EXCEPT !.failed = @ + 1], x.err)
  BY DEF Create, Counted
<1>2. \/ x = Outcome(made, "ERR_NONE")
      \/ x = Outcome(left, "ERR_BAD_PARAMETER")
      \/ x = Outcome(hollow, "ERR_MEM")
  BY <1>1 DEF component_create, Allocate
<1>3. SizeOf(c) \in Nat /\ 0 \in Addr
  BY LifecycleAssumption DEF SizeOf, Addr
<1>4. /\ bare \in [Components -> Comps] /\ own \in [Components -> Comps]
      /\ bare[c] = [mem |-> NoMem, start |-> 0, end |-> 0]
      /\ own[c] = [mem |-> s.fresh, start |-> 0, end |-> 0]
      /\ \A d \in Components \ {c} : bare[d] = s.comp[d] /\ own[d] = s.comp[d]
  BY <1>3 DEF Stores, Comps, Nothing, Owning, NoMem
<1>5. full \in Heaps /\ void \in Heaps
  BY <1>3, HeapGrows DEF Stores
<1>6. /\ DOMAIN full = DOMAIN s.heap \cup {s.fresh} /\ DOMAIN void = DOMAIN full
      /\ \A m \in DOMAIN full : full[m] = IF m = s.fresh THEN SizeOf(c) ELSE s.heap[m]
      /\ \A m \in DOMAIN void : void[m] = IF m = s.fresh THEN 0 ELSE s.heap[m]
  OBVIOUS
<1> HIDE DEF bare, own, full, void
<1>7. /\ made \in Stores /\ made.bus = s.bus /\ made.wired = s.wired /\ made.comp = own
      /\ made.heap = full /\ made.fresh = s.fresh + 1 /\ made.failed = s.failed
  <2> DEFINE next == s.fresh + 1
  <2>1. next \in Nat
    BY DEF Stores
  <2>2. made = [s EXCEPT !.comp = own, !.heap = full, !.fresh = next]
    OBVIOUS
  <2> HIDE DEF made, next
  <2>3. /\ made \in Stores /\ made.bus = s.bus /\ made.wired = s.wired /\ made.failed = s.failed
        /\ made.comp = own /\ made.heap = full /\ made.fresh = next
    BY <2>1, <2>2, <1>4, <1>5 DEF Stores
  <2>4. QED
    BY <2>3 DEF next
<1>8. /\ left \in Stores /\ left.bus = s.bus /\ left.wired = s.wired /\ left.comp = bare
      /\ left.heap = s.heap /\ left.fresh = s.fresh /\ left.failed = s.failed
  BY <1>4, <1>5 DEF Stores
<1>9. /\ hollow \in Stores /\ hollow.bus = s.bus /\ hollow.wired = s.wired /\ hollow.comp = own
      /\ hollow.heap = void /\ hollow.fresh = s.fresh + 1 /\ hollow.failed = s.failed
  <2> DEFINE next == s.fresh + 1
  <2>1. next \in Nat
    BY DEF Stores
  <2>2. hollow = [s EXCEPT !.comp = own, !.heap = void, !.fresh = next]
    OBVIOUS
  <2> HIDE DEF hollow, next
  <2>3. /\ hollow \in Stores /\ hollow.bus = s.bus /\ hollow.wired = s.wired /\ hollow.failed = s.failed
        /\ hollow.comp = own /\ hollow.heap = void /\ hollow.fresh = next
    BY <2>1, <2>2, <1>4, <1>5 DEF Stores
  <2>4. QED
    BY <2>3 DEF next
<1> HIDE DEF made, left, hollow
<1>10. \A t \in Stores :
         LET u == [t EXCEPT !.failed = @ + 1] IN
         /\ u \in Stores /\ u.bus = t.bus /\ u.wired = t.wired /\ u.comp = t.comp
         /\ u.heap = t.heap /\ u.fresh = t.fresh /\ u.failed = t.failed + 1
  BY DEF Stores
<1>11. CASE x = Outcome(made, "ERR_NONE")
  <2>1. o.st = made /\ o.err = "ERR_NONE"
    BY <1>1, <1>11 DEF Outcome
  <2>2. QED
    BY <2>1, <1>7, <1>4, <1>6
<1>12. CASE x = Outcome(left, "ERR_BAD_PARAMETER")
  <2>1. o.st = [left EXCEPT !.failed = @ + 1] /\ o.err = "ERR_BAD_PARAMETER"
    BY <1>1, <1>12 DEF Outcome
  <2>2. QED
    BY <2>1, <1>8, <1>10, <1>4
<1>13. CASE x = Outcome(hollow, "ERR_MEM")
  <2>1. o.st = [hollow EXCEPT !.failed = @ + 1] /\ o.err = "ERR_MEM"
    BY <1>1, <1>13 DEF Outcome
  <2>2. QED
    BY <2>1, <1>9, <1>10, <1>4, <1>6
<1>14. QED
  BY <1>2, <1>11, <1>12, <1>13

-------------------------------------------------------------------------------
(* Making a component *)

\* From s to t the component c has got another memory, or none; nothing else is gone.
Renewed(s, t, c) ==
  /\ t.bus = s.bus /\ s.failed <= t.failed
  /\ \A d \in Components \ {c} : t.comp[d] = s.comp[d]
  /\ t.comp[c].start = 0 /\ t.comp[c].end = 0
  /\ HasMem(t, c) => t.comp[c].mem \in DOMAIN t.heap \ DOMAIN s.heap
  /\ DOMAIN s.heap \subseteq DOMAIN t.heap
  /\ \A m \in DOMAIN s.heap : t.heap[m] = s.heap[m]

\* A set within a finite one and one more element.
LEMMA OneMore ==
  ASSUME NEW S, IsFiniteSet(S), NEW x, NEW T \in SUBSET (S \cup {x})
  PROVE  /\ IsFiniteSet(T) /\ Cardinality(T) \in Nat /\ Cardinality(S) \in Nat
         /\ Cardinality(T) <= Cardinality(S) + 1
<1>1. /\ IsFiniteSet(S \cup {x}) /\ Cardinality(S) \in Nat
      /\ Cardinality(S \cup {x}) \in {Cardinality(S), Cardinality(S) + 1}
  BY FS_AddElement, FS_CardinalityType
<1>2. IsFiniteSet(T) /\ Cardinality(T) \in Nat /\ Cardinality(T) <= Cardinality(S \cup {x})
  BY <1>1, FS_Subset, FS_CardinalityType
<1>3. QED
  BY <1>1, <1>2

\* The lost memories are finitely many.
LEMMA LostFinite ==
  ASSUME NEW s \in Stores, Owned(s)
  PROVE  IsFiniteSet(Lost(s)) /\ Cardinality(Lost(s)) \in Nat
<1>1. IsFiniteSet((CpuMem + 1)..(s.fresh - 1))
  BY FS_Interval DEF Stores, CpuMem
<1>2. Lost(s) \subseteq (CpuMem + 1)..(s.fresh - 1)
  BY DEF Lost, Owned
<1>3. QED
  BY <1>1, <1>2, FS_Subset, FS_CardinalityType

\* Making a component loses at most the memory it has had.
LEMMA LossOfOne ==
  ASSUME NEW s \in Stores, NEW t \in Stores, NEW c \in Freed, Owned(s),
         \A d \in Freed \ {c} : t.comp[d] = s.comp[d],
         DOMAIN t.heap \subseteq DOMAIN s.heap \cup {t.comp[c].mem}
  PROVE  /\ Cardinality(Lost(t)) \in Nat
         /\ Cardinality(Lost(t)) <= Cardinality(Lost(s)) + (IF HasMem(s, c) THEN 1 ELSE 0)
<1>1. Lost(t) \subseteq Lost(s) \cup {s.comp[c].mem}
  <2>1. SUFFICES ASSUME NEW x \in Lost(t), x \notin Lost(s)
                 PROVE  x = s.comp[c].mem
    OBVIOUS
  <2>2. x \in DOMAIN t.heap /\ x \notin Held(t)
    BY <2>1 DEF Lost
  <2>3. x # t.comp[c].mem
    BY <2>2 DEF Held
  <2>4. x \in DOMAIN s.heap
    BY <2>2, <2>3
  <2>5. PICK d \in Freed : x = s.comp[d].mem
    BY <2>1, <2>4 DEF Lost, Held
  <2>6. QED
    BY <2>2, <2>5 DEF Held
<1>2. IsFiniteSet(Lost(s)) /\ Cardinality(Lost(s)) \in Nat
  BY LostFinite
<1>3. CASE HasMem(s, c)
  BY <1>1, <1>2, <1>3, OneMore
<1>4. CASE ~HasMem(s, c)
  <2>1. s.comp[c].mem \notin Lost(t)
    <3>1. ASSUME s.comp[c].mem \in Lost(t) PROVE FALSE
      <4>1. NoMem \in DOMAIN t.heap /\ NoMem \notin Held(t)
        BY <3>1, <1>4 DEF HasMem, Lost
      <4>2. NoMem \notin DOMAIN s.heap
        BY DEF Owned, NoMem, CpuMem, Stores
      <4>3. QED
        BY <4>1, <4>2 DEF Held
    <3>2. QED
      BY <3>1
  <2>2. Lost(t) \subseteq Lost(s)
    BY <1>1, <2>1
  <2>3. QED
    BY <2>2, <1>2, <1>4, FS_Subset, FS_CardinalityType
<1>5. QED
  BY <1>3, <1>4

\* A component can be made at any cost that failures have paid for.
CanMake(s, c) == HasMem(s, c) => Cardinality(Lost(s)) < s.failed
Fits(s, c) == s.comp[c].mem \in DOMAIN s.heap /\ s.heap[s.comp[c].mem] >= SizeOf(c)

LEMMA CreateKeeps ==
  ASSUME NEW s, Kept(s), NEW c \in Freed, CanMake(s, c),
         NEW o \in Create(s, c)
  PROVE  /\ Kept(o.st) /\ Renewed(s, o.st, c)
         /\ o.err = "ERR_NONE" => Fits(o.st, c)
         /\ o.err # "ERR_NONE" => Cardinality(Lost(o.st)) < o.st.failed
<1> DEFINE t == o.st
<1>1. s \in Stores /\ c \in Components /\ Owned(s) /\ Paid(s)
  BY DEF Kept, Freed
<1>2. /\ t \in Stores /\ t.bus = s.bus
      /\ \A d \in Components \ {c} : t.comp[d] = s.comp[d]
      /\ t.comp[c].start = 0 /\ t.comp[c].end = 0
  BY <1>1, CreateCases
<1> DEFINE new == /\ t.comp[c].mem = s.fresh /\ t.fresh = s.fresh + 1
                  /\ DOMAIN t.heap = DOMAIN s.heap \cup {s.fresh}
                  /\ \A m \in DOMAIN s.heap : t.heap[m] = s.heap[m]
           none == t.comp[c].mem = NoMem /\ t.fresh = s.fresh /\ t.heap = s.heap
<1>3. s.fresh \in Nat /\ CpuMem < s.fresh /\ DOMAIN s.heap \subseteq (CpuMem + 1)..(s.fresh - 1)
      /\ s.failed \in Nat
  BY <1>1 DEF Owned, Stores
<1>4. s.fresh \notin DOMAIN s.heap /\ s.fresh # NoMem
  BY <1>3 DEF NoMem, CpuMem
<1>5. \/ o.err = "ERR_NONE" /\ t.failed = s.failed /\ new /\ t.heap[s.fresh] = SizeOf(c)
      \/ o.err # "ERR_NONE" /\ t.failed = s.failed + 1 /\ none
      \/ o.err # "ERR_NONE" /\ t.failed = s.failed + 1 /\ new
  BY <1>1, <1>4, CreateCases
<1> HIDE DEF t
<1>6. Renewed(s, t, c)
  BY <1>2, <1>3, <1>4, <1>5 DEF Renewed, HasMem
<1>7. Owned(t)
  <2>1. CpuMem < t.fresh /\ DOMAIN t.heap \subseteq (CpuMem + 1)..(t.fresh - 1)
    BY <1>3, <1>5 DEF CpuMem
  <2>2. \A d \in Freed : HasMem(t, d) => t.comp[d].mem \in DOMAIN t.heap
    BY <1>1, <1>2, <1>5 DEF Owned, HasMem, Freed
  <2>3. ASSUME NEW d \in Freed, NEW e \in Freed, d # e, HasMem(t, d)
        PROVE  t.comp[d].mem # t.comp[e].mem
    <3>1. CASE d # c /\ e # c
      BY <3>1, <2>3, <1>1, <1>2 DEF Owned, HasMem, Freed
    <3>2. CASE d = c
      <4>1. t.comp[d].mem = s.fresh /\ t.comp[e] = s.comp[e]
        BY <3>2, <2>3, <1>2, <1>5 DEF HasMem, Freed
      <4>2. s.comp[e].mem = NoMem \/ s.comp[e].mem \in DOMAIN s.heap
        BY <1>1 DEF Owned, HasMem
      <4>3. QED
        BY <4>1, <4>2, <1>4
    <3>3. CASE e = c
      <4>1. t.comp[e].mem \in {s.fresh, NoMem} /\ t.comp[d] = s.comp[d]
        BY <3>3, <2>3, <1>2, <1>5 DEF Freed
      <4>2. s.comp[d].mem # NoMem /\ s.comp[d].mem \in DOMAIN s.heap
        BY <4>1, <2>3, <1>1 DEF Owned, HasMem
      <4>3. QED
        BY <4>1, <4>2, <1>4
    <3>4. QED
      BY <3>1, <3>2, <3>3
  <2>4. QED
    BY <2>1, <2>2, <2>3 DEF Owned
<1>8. /\ Cardinality(Lost(t)) \in Nat
      /\ Cardinality(Lost(t)) <= Cardinality(Lost(s)) + (IF HasMem(s, c) THEN 1 ELSE 0)
  <2>1. /\ \A d \in Freed \ {c} : t.comp[d] = s.comp[d]
        /\ DOMAIN t.heap \subseteq DOMAIN s.heap \cup {t.comp[c].mem}
    BY <1>2, <1>5 DEF Freed
  <2>2. QED
    BY <1>1, <1>2, <2>1, LossOfOne
<1>9. Cardinality(Lost(s)) \in Nat
  BY <1>1, LostFinite
<1>10. Cardinality(Lost(t)) <= s.failed
  BY <1>1, <1>3, <1>8, <1>9 DEF CanMake, Paid
<1>11. Paid(t) /\ (o.err # "ERR_NONE" => Cardinality(Lost(t)) < t.failed)
  BY <1>3, <1>5, <1>8, <1>10 DEF Paid
<1>12. o.err = "ERR_NONE" => Fits(t, c)
  <2>1. SizeOf(c) \in Int
    BY <1>1, LifecycleAssumption DEF SizeOf, Addr
  <2>2. QED
    BY <2>1, <1>5 DEF Fits
<1>13. QED
  BY <1>2, <1>6, <1>7, <1>11, <1>12 DEF Kept, t

\* Making the work RAM, which comes first, is the one case in which the echo could break.
FreshMirrors(s) ==
  ~HasMem(s, "ECHO_RAM") /\ \A d \in Mirrors : \A a \in Area(d) : s.bus[a] = NoCell

LEMMA RenewedWires ==
  ASSUME NEW s \in Stores, NEW t \in Stores, NEW c \in Freed, Renewed(s, t, c), Wires(s),
         c = "WORK_RAM" => FreshMirrors(s)
  PROVE  Wires(t)
<1>1. Pointers(t)
  BY DEF Wires, Pointers, Renewed
<1>2. Places(t)
  BY DEF Wires, Places, Renewed
<1>3. "ECHO_RAM" \in Components \ {c} /\ t.comp["ECHO_RAM"] = s.comp["ECHO_RAM"]
  BY DEF Freed, Components, Renewed
<1>4. CASE c = "WORK_RAM"
  BY <1>1, <1>2, <1>3, <1>4 DEF Wires, Echoes, FreshMirrors, Renewed, HasMem
<1>5. CASE c # "WORK_RAM"
  <2>1. t.comp["WORK_RAM"] = s.comp["WORK_RAM"] /\ t.bus = s.bus
    BY <1>5 DEF Renewed, Components, RAMs
  <2>2. QED
    BY <1>1, <1>2, <2>1, <1>3 DEF Wires, Echoes
<1>6. QED
  BY <1>4, <1>5

\* A call that has failed to make its component can be made again.
LEMMA NotYetMade ==
  ASSUME NEW s \in Stores, NEW t \in Stores, NEW c \in Freed, NEW made, NEW begun, NEW plugged, NEW cpu,
         Renewed(s, t, c), Ready(s, made, begun, plugged, cpu),
         made \subseteq Components, c \notin made, c \in begun,
         Cardinality(Lost(t)) < t.failed
  PROVE  Ready(t, made, begun, plugged, cpu)
<1>1. \A d \in Components \ {c} : t.comp[d] = s.comp[d]
  BY DEF Renewed
<1>2. \A d \in made : t.comp[d].mem \in DOMAIN t.heap /\ t.heap[t.comp[d].mem] >= SizeOf(d)
  BY <1>1 DEF Ready, Renewed
<1>3. \A d \in Components \ begun : ~HasMem(t, d)
  BY <1>1 DEF Ready, HasMem
<1>4. t.bus = s.bus /\ (t.failed = 0 => s.failed = 0)
  BY DEF Renewed, Stores
<1>5. QED
  BY <1>2, <1>3, <1>4 DEF Ready

\* The component has been made, at no cost.
LEMMA NowMade ==
  ASSUME NEW s \in Stores, NEW t \in Stores, NEW c \in Freed, NEW made, NEW plugged, NEW cpu,
         Renewed(s, t, c), Ready(s, made, made \cup {c}, plugged, cpu), made \subseteq Components, c \notin made,
         Fits(t, c)
  PROVE  Ready(t, made \cup {c}, made \cup {c}, plugged, cpu)
<1>1. \A d \in Components \ {c} : t.comp[d] = s.comp[d]
  BY DEF Renewed
<1>2. \A d \in made \cup {c} : t.comp[d].mem \in DOMAIN t.heap /\ t.heap[t.comp[d].mem] >= SizeOf(d)
  BY <1>1 DEF Ready, Renewed, Fits
<1>3. \A d \in Components \ (made \cup {c}) : ~HasMem(t, d)
  BY <1>1 DEF Ready, HasMem
<1>4. t.bus = s.bus /\ (t.failed = 0 => s.failed = 0)
  BY DEF Renewed, Stores
<1>5. QED
  BY <1>2, <1>3, <1>4 DEF Ready, Freed

-------------------------------------------------------------------------------
(* Plugging and unplugging *)

\* From s to t only the component's place and the pointers there have changed.
Rewired(s, t, c) ==
  /\ t.heap = s.heap /\ t.fresh = s.fresh /\ t.failed = s.failed
  /\ \A d \in Components \ {c} : t.comp[d] = s.comp[d]
  /\ t.comp[c].mem = s.comp[c].mem
  /\ <<t.comp[c].start, t.comp[c].end>> \in {<<0, 0>>, <<Start[c], End[c]>>}
  /\ \A a \in Addr :
       \/ t.bus[a] = s.bus[a]
       \/ a \in Area(c) /\ t.bus[a] = NoCell
       \/ /\ a \in Area(c) /\ t.bus[a] = [mem |-> s.comp[c].mem, at |-> a - Start[c]]
          /\ s.comp[c].mem \in DOMAIN s.heap

\* A range is within the bus, is not empty and is not the whole bus.
LEMMA AreaType ==
  ASSUME NEW c \in Components
  PROVE  /\ Start[c] \in Addr /\ End[c] \in Addr /\ Start[c] <= End[c] /\ 0 \in Addr
         /\ Area(c) \subseteq Addr /\ Passes(End[c], Start[c])
<1>1. Start[c] \in Addr /\ End[c] \in Addr /\ Start[c] <= End[c] /\ 0 \in Addr /\ REG_IE \in Addr
  BY LifecycleAssumption DEF Addr
<1>2. Area(c) \subseteq Addr /\ REG_IE \notin Area(c)
  BY LayoutAssumption
<1>3. AddrCount - 1 \in Addr /\ AddrCount - 1 > End[c] - Start[c]
  BY <1>1, <1>2, LifecycleAssumption DEF Addr, Area
<1>4. QED
  BY <1>1, <1>2, <1>3 DEF Passes

\* Whatever is plugged, its place is apart from that of every plain component.
LEMMA AreasApart ==
  ASSUME NEW c \in Components, NEW d \in Plain, c # d
  PROVE  Area(c) \cap Area(d) = {}
<1>1. "CARTRIDGE" \in Components \ {"BOOT_ROM"} /\ d \in Components \ {"BOOT_ROM"} /\ d # "CARTRIDGE"
  BY DEF Plain, Components
<1>2. CASE c = "BOOT_ROM"
  BY <1>1, <1>2, LayoutAssumption
<1>3. CASE c # "BOOT_ROM"
  BY <1>1, <1>3, LayoutAssumption
<1>4. QED
  BY <1>2, <1>3

\* A store in which a component has another range is otherwise the same.
LEMMA RangedType ==
  ASSUME NEW s \in Stores, NEW c \in Components, NEW a \in Addr, NEW b \in Addr
  PROVE  LET t == Ranged(s, c, a, b) IN
         /\ t \in Stores /\ t.bus = s.bus /\ t.heap = s.heap /\ t.fresh = s.fresh /\ t.failed = s.failed
         /\ \A d \in Components \ {c} : t.comp[d] = s.comp[d]
         /\ t.comp[c] = [mem |-> s.comp[c].mem, start |-> a, end |-> b]
<1> DEFINE k == [s.comp EXCEPT ![c] = [mem |-> s.comp[c].mem, start |-> a, end |-> b]]
           t == [s EXCEPT !.comp = k]
<1>1. /\ k \in [Components -> Comps] /\ k[c] = [mem |-> s.comp[c].mem, start |-> a, end |-> b]
      /\ \A d \in Components \ {c} : k[d] = s.comp[d]
  BY DEF Stores, Comps
<1>2. Ranged(s, c, a, b) = t
  BY DEF Ranged
<1> HIDE DEF k
<1>3. /\ t \in Stores /\ t.bus = s.bus /\ t.heap = s.heap /\ t.fresh = s.fresh /\ t.failed = s.failed
      /\ t.comp = k
  BY <1>1 DEF Stores
<1> HIDE DEF t
<1>4. QED
  BY <1>1, <1>2, <1>3

\* A forced plug: it succeeds if the memory is there, and changes nothing else.
LEMMA ForcedPlugEffect ==
  ASSUME NEW s \in Stores, NEW c \in Components, Places(s)
  PROVE  LET o == bus_forced_plug(s, c, Start[c], End[c], 0) IN
         /\ o.st \in Stores /\ Rewired(s, o.st, c)
         /\ Fits(s, c) => /\ o.err = "ERR_NONE"
                          /\ \A a \in Area(c) : o.st.bus[a].mem = s.comp[c].mem
<1> DEFINE r == Ranged(s, c, Start[c], End[c])
           b == [a \in Addr |-> IF a \in Area(c) THEN [mem |-> s.comp[c].mem, at |-> a - Start[c]] ELSE s.bus[a]]
           o == bus_forced_plug(s, c, Start[c], End[c], 0)
           enough == s.comp[c].mem \in DOMAIN s.heap /\ s.heap[s.comp[c].mem] >= SizeOf(c)
<1>1. /\ Start[c] \in Addr /\ End[c] \in Addr /\ Start[c] <= End[c] /\ 0 \in Addr
      /\ Start[c] \in Int /\ End[c] \in Int
  BY AreaType DEF Addr
<1>2. check_component(s, c)
  BY <1>1 DEF Places, check_component
<1>3. /\ r \in Stores /\ r.bus = s.bus /\ r.heap = s.heap /\ r.fresh = s.fresh /\ r.failed = s.failed
      /\ \A d \in Components \ {c} : r.comp[d] = s.comp[d]
      /\ r.comp[c] = [mem |-> s.comp[c].mem, start |-> Start[c], end |-> End[c]]
  BY <1>1, RangedType
<1> HIDE DEF r
<1>4. o = IF bus_remap(r, c, 0).err = "ERR_NONE" THEN bus_remap(r, c, 0)
          ELSE Outcome(Ranged(bus_remap(r, c, 0).st, c, 0, 0), bus_remap(r, c, 0).err)
  BY <1>1, <1>2 DEF bus_forced_plug, r
<1>5. DOMAIN s.heap \subseteq Nat /\ \A m \in DOMAIN s.heap : s.heap[m] \in Nat
  BY HeapType DEF Stores
<1>6. enough = (HasMemory(r, c) /\ ~(r.comp[c].end - r.comp[c].start + 0 >= r.heap[r.comp[c].mem]))
  BY <1>1, <1>3, <1>5 DEF HasMemory, SizeOf
<1>7. b = Mapped(r, c, 0) /\ b \in [Addr -> Cells]
  <2>1. \A a \in Addr : a \in Int /\ 0 + a - Start[c] = a - Start[c] /\ a - Start[c] \in Int
    BY <1>1 DEF Addr
  <2>2. b = Mapped(r, c, 0)
    BY <1>3, <2>1 DEF Mapped, Area
  <2>3. s.comp[c].mem \in Nat /\ s.bus \in [Addr -> Cells]
    BY DEF Stores, Comps
  <2>4. b \in [Addr -> Cells]
    BY <2>1, <2>3 DEF Cells
  <2>5. QED
    BY <2>2, <2>4
<1>8. CASE enough
  <2> DEFINE t == [r EXCEPT !.bus = b]
  <2>1. bus_remap(r, c, 0) = Outcome(t, "ERR_NONE")
    BY <1>6, <1>7, <1>8 DEF bus_remap
  <2>2. o.st = t /\ o.err = "ERR_NONE"
    BY <1>4, <2>1 DEF Outcome
  <2>3. /\ t \in Stores /\ t.bus = b /\ t.heap = s.heap /\ t.fresh = s.fresh /\ t.failed = s.failed
        /\ t.comp = r.comp
    <3> HIDE DEF b
    <3>1. QED
      BY <1>3, <1>7 DEF Stores
  <2> HIDE DEF t, o
  <2>4. Rewired(s, t, c)
    BY <1>3, <1>8, <2>3 DEF Rewired
  <2>5. \A a \in Area(c) : t.bus[a].mem = s.comp[c].mem
    BY <2>3, AreaType
  <2>6. QED
    BY <2>2, <2>3, <2>4, <2>5 DEF o
<1>9. CASE ~enough
  <2>1. \E e \in {"ERR_BAD_PARAMETER", "ERR_ADDRESS"} : bus_remap(r, c, 0) = Outcome(r, e)
    BY <1>6, <1>9 DEF bus_remap
  <2>2. o.st = Ranged(r, c, 0, 0)
    BY <1>4, <2>1 DEF Outcome
  <2> HIDE DEF o
  <2>3. /\ o.st \in Stores /\ o.st.bus = s.bus /\ o.st.heap = s.heap /\ o.st.fresh = s.fresh
        /\ o.st.failed = s.failed /\ \A d \in Components \ {c} : o.st.comp[d] = s.comp[d]
        /\ o.st.comp[c] = [mem |-> s.comp[c].mem, start |-> 0, end |-> 0]
    BY <1>1, <1>3, <2>2, RangedType
  <2>4. Rewired(s, o.st, c)
    BY <2>3 DEF Rewired
  <2>5. QED
    BY <1>9, <2>3, <2>4 DEF Fits, o
<1>10. QED
  BY <1>8, <1>9

\* bus_plug on a free range is a forced plug.
LEMMA PlugIsForced ==
  ASSUME NEW s \in Stores, NEW c \in Components, Places(s), \A a \in Area(c) : s.bus[a] = NoCell
  PROVE  bus_plug(s, c, Start[c], End[c]) = bus_forced_plug(s, c, Start[c], End[c], 0)
<1>1. /\ Start[c] <= End[c] /\ Start[c] \in Int /\ End[c] \in Int /\ Passes(End[c], Start[c])
  BY AreaType DEF Addr
<1>2. check_component(s, c)
  BY <1>1 DEF Places, check_component
<1>3. QED
  BY <1>1, <1>2 DEF bus_plug, Area

\* An unplug does not fail either.  It leaves the last cell, which stays live.
LEMMA UnplugEffect ==
  ASSUME NEW s \in Stores, NEW c \in Components, Places(s)
  PROVE  LET o == bus_unplug(s, c) IN
         /\ o.err = "ERR_NONE" /\ o.st \in Stores /\ Rewired(s, o.st, c)
<1> DEFINE k == s.comp[c]
           b == [a \in Addr |-> IF a \in k.start..(k.end - 1) THEN NoCell ELSE s.bus[a]]
           r == Ranged(s, c, 0, 0)
           t == [r EXCEPT !.bus = b]
           o == bus_unplug(s, c)
<1>1. /\ Start[c] <= End[c] /\ Start[c] \in Int /\ End[c] \in Int /\ 0 \in Addr
  BY AreaType DEF Addr
<1>2. check_component(s, c)
  BY <1>1 DEF Places, check_component
<1>3. o = Outcome(t, "ERR_NONE")
  BY <1>2 DEF bus_unplug
<1>4. o.st = t /\ o.err = "ERR_NONE"
  BY <1>3 DEF Outcome
<1>5. b \in [Addr -> Cells]
  BY DEF Stores, Cells, NoCell, NoMem
<1>6. \A a \in Addr : b[a] = s.bus[a] \/ (a \in Area(c) /\ b[a] = NoCell)
  <2>1. SUFFICES ASSUME NEW a \in Addr, a \in k.start..(k.end - 1)
                 PROVE  a \in Area(c)
    OBVIOUS
  <2>2. a \in Int
    BY DEF Addr
  <2>3. <<k.start, k.end>> = <<0, 0>> \/ <<k.start, k.end>> = <<Start[c], End[c]>>
    BY DEF Places
  <2>4. CASE k.start = 0 /\ k.end = 0
    BY <2>1, <2>2, <2>4
  <2>5. CASE k.start = Start[c] /\ k.end = End[c]
    BY <2>1, <2>2, <2>5, <1>1 DEF Area
  <2>6. QED
    BY <2>3, <2>4, <2>5
<1>7. /\ r \in Stores /\ r.bus = s.bus /\ r.heap = s.heap /\ r.fresh = s.fresh /\ r.failed = s.failed
      /\ \A d \in Components \ {c} : r.comp[d] = s.comp[d]
      /\ r.comp[c] = [mem |-> s.comp[c].mem, start |-> 0, end |-> 0]
  BY <1>1, RangedType
<1> HIDE DEF b, r
<1>8. /\ t \in Stores /\ t.bus = b /\ t.heap = s.heap /\ t.fresh = s.fresh /\ t.failed = s.failed
      /\ t.comp = r.comp
  BY <1>5, <1>7 DEF Stores
<1> HIDE DEF t, o
<1>9. Rewired(s, t, c)
  BY <1>6, <1>7, <1>8 DEF Rewired
<1>10. QED
  BY <1>4, <1>8, <1>9 DEF o

\* Plugging and unplugging a component at its place keeps the memories and the wiring.
LEMMA RewiredKeeps ==
  ASSUME NEW s, NEW t \in Stores, NEW c \in Components, Kept(s), Rewired(s, t, c)
  PROVE  /\ Kept(t) /\ Lost(t) = Lost(s) /\ \A d \in Components : t.comp[d].mem = s.comp[d].mem
         /\ Wires(s) => Wires(t)
<1>1. \A d \in Components : t.comp[d].mem = s.comp[d].mem
  BY DEF Rewired
<1>2. Lost(t) = Lost(s) /\ t.heap = s.heap /\ t.failed = s.failed /\ t.fresh = s.fresh
  BY <1>1 DEF Rewired, Lost, Held, Freed
<1>3. Kept(t)
  BY <1>1, <1>2 DEF Kept, Owned, Paid, HasMem, Freed
<1>4. ASSUME Wires(s) PROVE Wires(t)
  <2>1. Pointers(t)
    <3>1. SUFFICES ASSUME NEW a \in Addr PROVE t.bus[a] = NoCell \/ t.bus[a].mem \in DOMAIN t.heap \cup {CpuMem}
      BY DEF Pointers
    <3>2. CASE t.bus[a] = s.bus[a]
      BY <3>2, <1>2, <1>4 DEF Wires, Pointers
    <3>3. CASE s.comp[c].mem \in DOMAIN s.heap /\ t.bus[a] = [mem |-> s.comp[c].mem, at |-> a - Start[c]]
      <4>1. t.bus[a].mem = s.comp[c].mem
        BY <3>3
      <4>2. QED
        BY <4>1, <3>3, <1>2
    <3>4. QED
      BY <3>2, <3>3 DEF Rewired
  <2>2. Places(t)
    BY <1>4 DEF Rewired, Wires, Places
  <2>3. "ECHO_RAM" \in Components /\ "WORK_RAM" \in Components /\ Mirrors \subseteq Plain
    BY DEF Components, RAMs, Mirrors, Plain
  <2>4. t.comp["ECHO_RAM"].mem \in {NoMem, t.comp["WORK_RAM"].mem}
    BY <1>1, <1>4, <2>3 DEF Wires, Echoes
  <2>5. ASSUME NEW d \in Mirrors, NEW a \in Area(d)
        PROVE  t.bus[a] \in {NoCell, [mem |-> t.comp["WORK_RAM"].mem, at |-> a - Start[d]]}
    <3>1. s.bus[a] \in {NoCell, [mem |-> t.comp["WORK_RAM"].mem, at |-> a - Start[d]]}
      BY <1>1, <1>4, <2>3 DEF Wires, Echoes
    <3>2. a \in Addr /\ d \in Plain
      BY <2>3, AreaType DEF Plain
    <3>3. CASE d # c
      BY <3>1, <3>2, <3>3, AreasApart DEF Rewired
    <3>4. CASE d = c
      <4>1. s.comp[c].mem \in DOMAIN s.heap => s.comp[c].mem = t.comp["WORK_RAM"].mem
        <5>1. NoMem \notin DOMAIN s.heap
          BY DEF Kept, Owned, NoMem, CpuMem, Stores
        <5>2. QED
          BY <5>1, <3>4, <1>1, <1>4, <2>3 DEF Wires, Echoes, Mirrors
      <4>2. QED
        BY <3>1, <3>2, <3>4, <4>1 DEF Rewired
    <3>5. QED
      BY <3>3, <3>4
  <2>6. QED
    BY <2>1, <2>2, <2>4, <2>5 DEF Wires, Echoes
<1>5. QED
  BY <1>1, <1>2, <1>3, <1>4

\* The component that has been made has been plugged.
LEMMA NowPlugged ==
  ASSUME NEW s, NEW t \in Stores, NEW c \in Components, Kept(s), Rewired(s, t, c),
         NEW made, NEW begun, NEW plugged, NEW cpu, Ready(s, made, begun, plugged, cpu),
         made \subseteq Components, plugged \subseteq Components, c \in made,
         \A a \in Area(c) : t.bus[a].mem = s.comp[c].mem
  PROVE  Ready(t, made, begun, plugged \cup {c}, cpu)
<1>1. \A d \in Components : t.comp[d].mem = s.comp[d].mem
  BY RewiredKeeps
<1>2. Lost(t) = Lost(s) /\ t.heap = s.heap /\ t.failed = s.failed
  BY RewiredKeeps DEF Rewired
<1>3. \A a \in Area(c) : t.bus[a] # NoCell
  BY DEF Ready, Kept, Owned, Stores, NoCell, NoMem, CpuMem
<1>4. \A a \in Addr \ Area(c) : t.bus[a] = s.bus[a]
  BY DEF Rewired
<1>5. \A d \in Plain \ (plugged \cup {c}) : \A a \in Area(d) : t.bus[a] = NoCell
  <2>1. TAKE d \in Plain \ (plugged \cup {c})
  <2>2. TAKE a \in Area(d)
  <2>3. a \in Addr /\ a \notin Area(c)
    BY AreaType, AreasApart DEF Plain
  <2>4. QED
    BY <2>3, <1>4 DEF Ready
<1>6. t.failed = 0 => \A d \in plugged \cup {c} : \A a \in Area(d) : t.bus[a] # NoCell
  <2>1. SUFFICES ASSUME t.failed = 0, NEW d \in plugged \cup {c}, NEW a \in Area(d)
                 PROVE  t.bus[a] # NoCell
    OBVIOUS
  <2>2. CASE a \in Area(c)
    BY <1>3, <2>2
  <2>3. CASE a \notin Area(c)
    BY <2>1, <2>3, <1>2, <1>4, AreaType DEF Ready
  <2>4. QED
    BY <2>2, <2>3
<1>7. t.failed = 0 /\ cpu => t.bus[REG_IE] # NoCell
  BY <1>2, <1>4, LayoutAssumption, LifecycleAssumption DEF Ready
<1>8. QED
  BY <1>1, <1>2, <1>5, <1>6, <1>7 DEF Ready, HasMem, Freed

-------------------------------------------------------------------------------
(* The calls of gameboy_create *)

Good(s) == Kept(s) /\ Wires(s)
\* The same as far as memories, components and the bus go.
Alike(s, t) ==
  /\ t \in Stores /\ t.bus = s.bus /\ t.comp = s.comp /\ t.heap = s.heap /\ t.fresh = s.fresh

\* What does not look at the flags does not see them change, and failures only pay.
LEMMA AlikeKeeps ==
  ASSUME NEW s, NEW t, Good(s), Alike(s, t), s.failed <= t.failed
  PROVE  /\ Good(t) /\ Lost(t) = Lost(s) /\ Cardinality(Lost(s)) \in Nat
         /\ \A made, begun, plugged, cpu :
              Ready(s, made, begun, plugged, cpu) => Ready(t, made, begun, plugged, cpu)
<1>1. s \in Stores /\ t \in Stores /\ s.failed \in Nat /\ t.failed \in Nat
  BY DEF Good, Kept, Alike, Stores
<1>2. Lost(t) = Lost(s) /\ Cardinality(Lost(s)) \in Nat
  BY <1>1, LostFinite DEF Alike, Lost, Held, Good, Kept
<1>3. Kept(t)
  BY <1>1, <1>2 DEF Good, Kept, Alike, Owned, Paid, HasMem
<1>4. Wires(t)
  BY DEF Good, Wires, Alike, Pointers, Places, Echoes
<1>5. ASSUME NEW made, NEW begun, NEW plugged, NEW cpu, Ready(s, made, begun, plugged, cpu)
      PROVE  Ready(t, made, begun, plugged, cpu)
  BY <1>1, <1>2, <1>5 DEF Ready, Alike, HasMem
<1>6. QED
  BY <1>2, <1>3, <1>4, <1>5 DEF Good

\* More components may have been touched.
LEMMA ReadyForMore ==
  ASSUME NEW s, NEW made, NEW begun, NEW more, NEW plugged, NEW cpu, begun \subseteq more,
         Ready(s, made, begun, plugged, cpu)
  PROVE  Ready(s, made, more, plugged, cpu)
BY DEF Ready

\* After a failure nothing is said of what has been plugged.
LEMMA ReadyAnyhow ==
  ASSUME NEW s, NEW made, NEW begun, NEW plugged, NEW more, NEW cpu, NEW later, s.failed # 0,
         plugged \subseteq more, Ready(s, made, begun, plugged, cpu)
  PROVE  Ready(s, made, begun, more, later)
BY DEF Ready

\* What is left to do: c, after those made and plugged.
Awaits(s, c, made, plugged, cpu) ==
  /\ Good(s) /\ Ready(s, made, made \cup {c}, plugged, cpu)
  /\ made \subseteq Components /\ plugged \subseteq Components /\ c \in Freed /\ c \notin made
  /\ c = "WORK_RAM" => made = {} /\ plugged = {}
Has(s, c, made, plugged, cpu) == Good(s) /\ Ready(s, made \cup {c}, made \cup {c}, plugged, cpu)

\* One call of component_create: it has made c, or c can be made again.
LEMMA MakeOnce ==
  ASSUME NEW s, NEW c, NEW made, NEW plugged, NEW cpu, Awaits(s, c, made, plugged, cpu),
         NEW o \in Create(s, c)
  PROVE  /\ s.failed <= o.st.failed
         /\ o.err = "ERR_NONE" => Has(o.st, c, made, plugged, cpu)
         /\ o.err # "ERR_NONE" => o.st.failed > 0 /\ Awaits(o.st, c, made, plugged, cpu)
<1> DEFINE t == o.st
<1>1. Kept(s) /\ s \in Stores /\ Wires(s) /\ CanMake(s, c)
  BY DEF Awaits, Good, Kept, Ready, CanMake
<1>2. c \in Freed
  BY DEF Awaits
<1>3. /\ Kept(t) /\ Renewed(s, t, c)
      /\ o.err = "ERR_NONE" => Fits(t, c)
      /\ o.err # "ERR_NONE" => Cardinality(Lost(t)) < t.failed
  BY <1>1, <1>2, CreateKeeps
<1> HIDE DEF t
<1>4. t \in Stores /\ t.failed \in Nat /\ Cardinality(Lost(t)) \in Nat
  BY <1>3, LostFinite DEF Kept, Stores
<1>5. c = "WORK_RAM" => FreshMirrors(s)
  BY DEF Awaits, Ready, FreshMirrors, Mirrors, Plain, Components, RAMs
<1>6. Good(t)
  BY <1>1, <1>2, <1>3, <1>4, <1>5, RenewedWires DEF Good
<1>7. ASSUME o.err = "ERR_NONE" PROVE Has(t, c, made, plugged, cpu)
  BY <1>1, <1>2, <1>3, <1>4, <1>6, <1>7, NowMade DEF Awaits, Has
<1>8. ASSUME o.err # "ERR_NONE" PROVE t.failed > 0 /\ Awaits(t, c, made, plugged, cpu)
  <2>1. Ready(t, made, made \cup {c}, plugged, cpu)
    BY <1>1, <1>2, <1>3, <1>4, <1>8, NotYetMade DEF Awaits
  <2>2. QED
    BY <2>1, <1>3, <1>4, <1>6, <1>8 DEF Awaits
<1>9. s.failed <= t.failed
  BY <1>3 DEF Renewed
<1>10. QED
  BY <1>7, <1>8, <1>9 DEF t

\* A component is plugged by force, or where its place is free.
Plugs(s, c, plugged, o) ==
  \/ o = bus_forced_plug(s, c, Start[c], End[c], 0)
  \/ c \in Plain \ plugged /\ o = bus_plug(s, c, Start[c], End[c])

\* A component that has been made can be plugged.
LEMMA PlugOnce ==
  ASSUME NEW s, NEW c \in Components, NEW made, NEW begun, NEW plugged, NEW cpu,
         Good(s), Ready(s, made, begun, plugged, cpu), c \in made,
         made \subseteq Components, plugged \subseteq Components, NEW o, Plugs(s, c, plugged, o)
  PROVE  /\ o.err = "ERR_NONE" /\ o.st.failed = s.failed /\ Good(o.st)
         /\ Ready(o.st, made, begun, plugged \cup {c}, cpu)
<1>1. s \in Stores /\ Kept(s) /\ Wires(s) /\ Places(s) /\ Fits(s, c)
  BY DEF Good, Kept, Wires, Ready, Fits
<1>2. o = bus_forced_plug(s, c, Start[c], End[c], 0)
  BY <1>1, PlugIsForced DEF Ready, Plugs
<1>3. /\ o.st \in Stores /\ Rewired(s, o.st, c) /\ o.err = "ERR_NONE"
      /\ \A a \in Area(c) : o.st.bus[a].mem = s.comp[c].mem
  BY <1>1, <1>2, ForcedPlugEffect
<1>4. Good(o.st) /\ o.st.failed = s.failed
  BY <1>1, <1>3, RewiredKeeps DEF Good, Rewired
<1>5. Ready(o.st, made, begun, plugged \cup {c}, cpu)
  BY <1>1, <1>3, NowPlugged
<1>6. QED
  BY <1>3, <1>4, <1>5

\* The outcomes of one of the calls that make RAMs.
LEMMA ConnectStep ==
  ASSUME NEW s, NEW c \in RAMs, NEW made, NEW plugged, NEW cpu, Awaits(s, c, made, plugged, cpu),
         c \notin plugged, NEW o \in component_connect(s, c)
  PROVE  /\ s.failed <= o.st.failed
         /\ o.err = "ERR_NONE" =>
              Good(o.st) /\ Ready(o.st, made \cup {c}, made \cup {c}, plugged \cup {c}, cpu)
         /\ o.err # "ERR_NONE" => o.st.failed > 0 /\ Awaits(o.st, c, made, plugged, cpu)
<1>1. c \in Components /\ c \in Plain \ plugged /\ made \cup {c} \subseteq Components /\ plugged \subseteq Components
  BY DEF Awaits, Components, Plain, RAMs
<1>2. PICK x \in Create(s, c) :
        IF x.err = "ERR_NONE"
        THEN LET y == bus_plug(x.st, c, Start[c], End[c])
             IN  o = IF y.err = "ERR_NONE" THEN Outcome(y.st, "ERR_NONE")
                     ELSE bus_plug(y.st, c, Start[c], End[c])
        ELSE o \in Create(x.st, c)
  BY ConnectCases
<1>3. /\ s.failed <= x.st.failed
      /\ x.err = "ERR_NONE" => Has(x.st, c, made, plugged, cpu)
      /\ x.err # "ERR_NONE" => x.st.failed > 0 /\ Awaits(x.st, c, made, plugged, cpu)
  BY MakeOnce
<1>4. CASE x.err = "ERR_NONE"
  <2> DEFINE y == bus_plug(x.st, c, Start[c], End[c])
  <2>1. /\ y.err = "ERR_NONE" /\ y.st.failed = x.st.failed /\ Good(y.st)
        /\ Ready(y.st, made \cup {c}, made \cup {c}, plugged \cup {c}, cpu)
    <3>1. Plugs(x.st, c, plugged, y)
      BY <1>1 DEF Plugs
    <3> HIDE DEF y
    <3>2. QED
      BY <1>1, <1>3, <1>4, <3>1, PlugOnce DEF Has
  <2>2. o = Outcome(y.st, "ERR_NONE")
    BY <1>2, <1>4, <2>1
  <2>3. o.st = y.st /\ o.err = "ERR_NONE"
    BY <2>2 DEF Outcome
  <2> HIDE DEF y
  <2>4. QED
    BY <2>1, <2>3, <1>3
<1>5. CASE x.err # "ERR_NONE"
  <2>1. o \in Create(x.st, c) /\ x.st.failed > 0 /\ x.st \in Stores /\ s \in Stores
    BY <1>2, <1>3, <1>5 DEF Awaits, Good, Kept
  <2>2. /\ x.st.failed <= o.st.failed
        /\ o.err = "ERR_NONE" => Has(o.st, c, made, plugged, cpu)
        /\ o.err # "ERR_NONE" => o.st.failed > 0 /\ Awaits(o.st, c, made, plugged, cpu)
    BY <2>1, <1>3, <1>5, MakeOnce
  <2>3. o.st \in Stores
    BY <2>2 DEF Has, Awaits, Good, Kept
  <2>4. s.failed <= o.st.failed /\ o.st.failed # 0
    BY <2>1, <2>2, <2>3, <1>3 DEF Stores
  <2>5. ASSUME o.err = "ERR_NONE"
        PROVE  Good(o.st) /\ Ready(o.st, made \cup {c}, made \cup {c}, plugged \cup {c}, cpu)
    BY <2>2, <2>4, <2>5, ReadyAnyhow DEF Has
  <2>6. QED
    BY <2>2, <2>4, <2>5
<1>6. QED
  BY <1>4, <1>5

\* A component that is made, twice if need be.
LEMMA MakeStep ==
  ASSUME NEW s, NEW c, NEW made, NEW plugged, NEW cpu, Awaits(s, c, made, plugged, cpu), NEW o,
         \E x \in Create(s, c) : IF x.err = "ERR_NONE" THEN o = x ELSE o \in Create(x.st, c)
  PROVE  /\ s.failed <= o.st.failed
         /\ o.err = "ERR_NONE" => Has(o.st, c, made, plugged, cpu)
         /\ o.err # "ERR_NONE" => o.st.failed > 0 /\ Awaits(o.st, c, made, plugged, cpu)
<1>1. PICK x \in Create(s, c) : IF x.err = "ERR_NONE" THEN o = x ELSE o \in Create(x.st, c)
  OBVIOUS
<1>2. /\ s.failed <= x.st.failed
      /\ x.err = "ERR_NONE" => Has(x.st, c, made, plugged, cpu)
      /\ x.err # "ERR_NONE" => x.st.failed > 0 /\ Awaits(x.st, c, made, plugged, cpu)
  BY MakeOnce
<1>3. CASE x.err # "ERR_NONE"
  <2>1. /\ x.st.failed <= o.st.failed
        /\ o.err = "ERR_NONE" => Has(o.st, c, made, plugged, cpu)
        /\ o.err # "ERR_NONE" => o.st.failed > 0 /\ Awaits(o.st, c, made, plugged, cpu)
    BY <1>1, <1>2, <1>3, MakeOnce
  <2>2. o.st \in Stores /\ x.st \in Stores /\ s \in Stores
    BY <2>1, <1>2, <1>3 DEF Has, Awaits, Good, Kept
  <2>3. QED
    BY <2>1, <2>2, <1>2 DEF Stores
<1>4. QED
  BY <1>1, <1>2, <1>3

\* The echo gets the work RAM's memory.
LEMMA ShareStep ==
  ASSUME NEW s, NEW made, NEW plugged, NEW cpu, Good(s),
         Ready(s, made, made \cup {"ECHO_RAM"}, plugged, cpu), made \subseteq Components,
         "WORK_RAM" \in made, "ECHO_RAM" \notin made, NEW o \in share_echo(s)
  PROVE  /\ o.err = "ERR_NONE" /\ o.st.failed = s.failed /\ Good(o.st)
         /\ Ready(o.st, made \cup {"ECHO_RAM"}, made \cup {"ECHO_RAM"}, plugged, cpu)
<1> DEFINE k == [s.comp EXCEPT !["ECHO_RAM"] = Owning(s.comp["WORK_RAM"].mem)]
           t == [s EXCEPT !.comp = k]
<1>1. s \in Stores /\ Kept(s) /\ Wires(s)
  BY DEF Good, Kept
<1>2. /\ "WORK_RAM" \in Components /\ "ECHO_RAM" \in Components /\ "ECHO_RAM" \notin Freed
      /\ "WORK_RAM" # "ECHO_RAM"
  BY DEF Components, RAMs, Freed
<1>3. /\ Start["WORK_RAM"] <= End["WORK_RAM"] /\ 0 \in Addr
      /\ SizeOf("ECHO_RAM") <= SizeOf("WORK_RAM")
      /\ SizeOf("ECHO_RAM") \in Int /\ SizeOf("WORK_RAM") \in Int
  BY <1>2, AreaType, LayoutAssumption DEF SizeOf, Addr
<1>4. check_component(s, "WORK_RAM")
  BY <1>1, <1>2, <1>3 DEF Wires, Places, check_component
<1>5. /\ k \in [Components -> Comps] /\ k["ECHO_RAM"].mem = s.comp["WORK_RAM"].mem
      /\ k["ECHO_RAM"].start = 0 /\ k["ECHO_RAM"].end = 0
      /\ \A d \in Components \ {"ECHO_RAM"} : k[d] = s.comp[d]
  BY <1>1, <1>2, <1>3 DEF Stores, Comps, Owning
<1>6. o.st = t /\ o.err = "ERR_NONE"
  BY <1>4 DEF share_echo, component_shared, Outcome
<1> HIDE DEF k
<1>7. /\ t \in Stores /\ t.bus = s.bus /\ t.comp = k /\ t.heap = s.heap /\ t.fresh = s.fresh
      /\ t.failed = s.failed
  BY <1>1, <1>5 DEF Stores
<1> HIDE DEF t
<1>8. \A d \in Freed : t.comp[d] = s.comp[d]
  BY <1>2, <1>5, <1>7 DEF Freed
<1>9. Lost(t) = Lost(s)
  BY <1>7, <1>8 DEF Lost, Held
<1>10. Kept(t)
  BY <1>1, <1>7, <1>8, <1>9 DEF Kept, Owned, Paid, HasMem
<1>11. Wires(t)
  <2>1. Pointers(t) /\ Places(t)
    BY <1>1, <1>2, <1>5, <1>7 DEF Wires, Pointers, Places
  <2>2. Echoes(t)
    BY <1>1, <1>2, <1>5, <1>7 DEF Wires, Echoes
  <2>3. QED
    BY <2>1, <2>2 DEF Wires
<1>12. Ready(t, made \cup {"ECHO_RAM"}, made \cup {"ECHO_RAM"}, plugged, cpu)
  <2>1. ASSUME NEW d \in made \cup {"ECHO_RAM"}
        PROVE  t.comp[d].mem \in DOMAIN t.heap /\ t.heap[t.comp[d].mem] >= SizeOf(d)
    <3>1. CASE d = "ECHO_RAM"
      <4>1. /\ s.comp["WORK_RAM"].mem \in DOMAIN s.heap
            /\ s.heap[s.comp["WORK_RAM"].mem] >= SizeOf("WORK_RAM")
        BY DEF Ready
      <4>2. s.heap[s.comp["WORK_RAM"].mem] \in Nat
        BY <4>1, <1>1, HeapType DEF Stores
      <4>3. QED
        BY <3>1, <4>1, <4>2, <1>3, <1>5, <1>7
    <3>2. CASE d # "ECHO_RAM"
      BY <2>1, <3>2, <1>5, <1>7 DEF Ready
    <3>3. QED
      BY <3>1, <3>2
  <2>2. \A d \in Components \ (made \cup {"ECHO_RAM"}) : ~HasMem(t, d)
    BY <1>5, <1>7 DEF Ready, HasMem
  <2>3. \A d \in Freed \ (made \cup {"ECHO_RAM"}) : HasMem(t, d) => Cardinality(Lost(t)) < t.failed
    BY <1>7, <1>8, <1>9 DEF Ready, HasMem
  <2>4. QED
    BY <1>7, <2>1, <2>2, <2>3 DEF Ready
<1>13. QED
  BY <1>6, <1>7, <1>10, <1>11, <1>12 DEF Good

\* cpu_plug ends with the cells of IE and IF.
CpuWired(s) ==
  [s EXCEPT !.bus = [s.bus EXCEPT ![REG_IE] = [mem |-> CpuMem, at |-> 0],
                                  ![REG_IF] = [mem |-> CpuMem, at |-> 1]]]

LEMMA CpuCells ==
  ASSUME NEW s, NEW made, NEW begun, NEW plugged, NEW cpu, Good(s),
         Ready(s, made, begun, plugged, cpu), "REGISTERS" \in plugged, plugged \subseteq Components
  PROVE  LET t == CpuWired(s) IN t.failed = s.failed /\ Good(t) /\ Ready(t, made, begun, plugged, TRUE)
<1> DEFINE t == CpuWired(s)
           b == [s.bus EXCEPT ![REG_IE] = [mem |-> CpuMem, at |-> 0],
                              ![REG_IF] = [mem |-> CpuMem, at |-> 1]]
<1>1. s \in Stores /\ Kept(s) /\ Wires(s) /\ REG_IE \in Addr /\ REG_IF \in Addr
  BY LifecycleAssumption DEF Good, Kept
<1>2. /\ b \in [Addr -> Cells]
      /\ b[REG_IE] # NoCell /\ b[REG_IF] # NoCell
      /\ b[REG_IE].mem = CpuMem /\ b[REG_IF].mem = CpuMem
      /\ \A a \in Addr \ {REG_IE, REG_IF} : b[a] = s.bus[a]
  <2> DEFINE x == [mem |-> CpuMem, at |-> 0]
             y == [mem |-> CpuMem, at |-> 1]
  <2>1. x \in Cells /\ y \in Cells /\ x # NoCell /\ y # NoCell /\ x.mem = CpuMem /\ y.mem = CpuMem
    BY DEF Cells, CpuMem, NoCell, NoMem
  <2>2. b = [s.bus EXCEPT ![REG_IE] = x, ![REG_IF] = y] /\ s.bus \in [Addr -> Cells]
    BY <1>1 DEF Stores
  <2> HIDE DEF x, y, b
  <2>3. /\ b \in [Addr -> Cells] /\ b[REG_IE] \in {x, y} /\ b[REG_IF] = y
        /\ \A a \in Addr \ {REG_IE, REG_IF} : b[a] = s.bus[a]
    BY <2>1, <2>2, <1>1
  <2>4. QED
    BY <2>1, <2>3
<1> HIDE DEF b
<1>3. t = [s EXCEPT !.bus = b]
  BY DEF b, CpuWired
<1> HIDE DEF t
<1>4. /\ t \in Stores /\ t.bus = b /\ t.comp = s.comp /\ t.heap = s.heap /\ t.fresh = s.fresh
      /\ t.failed = s.failed
  BY <1>1, <1>2, <1>3 DEF Stores
<1>5. Lost(t) = Lost(s)
  BY <1>4 DEF Lost, Held
<1>6. Kept(t)
  BY <1>1, <1>4, <1>5 DEF Kept, Owned, Paid, HasMem
<1>7. \A c \in Plain : \A a \in Area(c) : a \in Addr /\ a # REG_IE /\ (c # "REGISTERS" => a # REG_IF)
  <2>1. SUFFICES ASSUME NEW c \in Plain, NEW a \in Area(c)
                 PROVE  a \in Addr /\ a # REG_IE /\ (c # "REGISTERS" => a # REG_IF)
    OBVIOUS
  <2>2. c \in Components /\ "REGISTERS" \in Components
    BY DEF Plain, Components, RAMs
  <2>3. a \in Addr \ {REG_IE}
    BY <2>1, <2>2, LayoutAssumption
  <2>4. c # "REGISTERS" => a # REG_IF
    BY <2>1, <2>2, AreasApart, LayoutAssumption
  <2>5. QED
    BY <2>3, <2>4
<1>8. Pointers(t)
  <2>1. SUFFICES ASSUME NEW a \in Addr
                 PROVE  t.bus[a] = NoCell \/ t.bus[a].mem \in DOMAIN t.heap \cup {CpuMem}
    BY DEF Pointers
  <2>2. CASE a \in {REG_IE, REG_IF}
    BY <2>2, <1>2, <1>4
  <2>3. CASE a \notin {REG_IE, REG_IF}
    BY <2>3, <1>1, <1>2, <1>4 DEF Wires, Pointers
  <2>4. QED
    BY <2>2, <2>3
<1>9. Echoes(t)
  <2>1. Mirrors \subseteq Plain \ {"REGISTERS"}
    BY DEF Mirrors, Plain, Components, RAMs
  <2>2. \A c \in Mirrors : \A a \in Area(c) : t.bus[a] = s.bus[a]
    BY <2>1, <1>2, <1>4, <1>7
  <2>3. QED
    BY <2>2, <1>1, <1>4 DEF Wires, Echoes
<1>10. Wires(t)
  BY <1>1, <1>4, <1>8, <1>9 DEF Wires, Places
<1>11. \A c \in Plain \ plugged : \A a \in Area(c) : t.bus[a] = NoCell
  BY <1>2, <1>4, <1>7 DEF Ready
<1>12. t.failed = 0 => \A c \in plugged : \A a \in Area(c) : t.bus[a] # NoCell
  <2>1. \A c \in Components : \A a \in Area(c) : a \in Addr
    BY AreaType
  <2>2. QED
    BY <2>1, <1>2, <1>4 DEF Ready
<1>13. Ready(t, made, begun, plugged, TRUE)
  BY <1>2, <1>4, <1>5, <1>11, <1>12 DEF Ready, HasMem
<1>14. QED
  BY <1>4, <1>6, <1>10, <1>13 DEF Good, t

\* timer_init and the external parts leave nothing but a flag.
LEMMA InitialiseAlike ==
  ASSUME NEW s \in Stores, NEW part \in Parts
  PROVE  Alike(s, Initialise(s, part)) /\ Initialise(s, part).failed = s.failed
<1> DEFINE r == s.ready \cup {part}
           t == [s EXCEPT !.ready = r]
<1>1. r \in SUBSET Parts
  BY DEF Stores
<1> HIDE DEF r
<1>2. Alike(s, t) /\ t.failed = s.failed
  BY <1>1 DEF Alike, Stores
<1>3. QED
  BY <1>2 DEF Initialise, r

\* In particular a call waits as before.
LEMMA AwaitsAlike ==
  ASSUME NEW s, NEW t, NEW c, NEW made, NEW plugged, NEW cpu, Awaits(s, c, made, plugged, cpu),
         Alike(s, t), s.failed <= t.failed
  PROVE  Awaits(t, c, made, plugged, cpu)
<1>1. Good(t) /\ Ready(t, made, made \cup {c}, plugged, cpu)
  BY AlikeKeeps DEF Awaits
<1>2. QED
  BY <1>1 DEF Awaits

\* cpu_init.
LEMMA CpuInitStep ==
  ASSUME NEW s, NEW made, NEW plugged, NEW cpu, Awaits(s, "HIGH_RAM", made, plugged, cpu),
         NEW o \in cpu_init(s)
  PROVE  /\ s.failed <= o.st.failed
         /\ o.err = "ERR_NONE" => Has(o.st, "HIGH_RAM", made, plugged, cpu)
         /\ o.err # "ERR_NONE" => o.st.failed > 0 /\ Awaits(o.st, "HIGH_RAM", made, plugged, cpu)
<1> DEFINE t == [s EXCEPT !.wired = FALSE]
<1>1. s \in Stores /\ s.failed \in Nat
  BY DEF Awaits, Good, Kept, Stores
<1>2. Alike(s, t) /\ t.failed = s.failed
  BY <1>1 DEF Alike, Stores
<1>3. \E x \in Create(t, "HIGH_RAM") :
        o \in IF x.err = "ERR_NONE" THEN Done(x.st) ELSE Create(x.st, "HIGH_RAM")
  BY DEF cpu_init, Require
<1> HIDE DEF t
<1>4. Awaits(t, "HIGH_RAM", made, plugged, cpu)
  BY <1>1, <1>2, AwaitsAlike
<1>5. PICK x \in Create(t, "HIGH_RAM") :
        IF x.err = "ERR_NONE" THEN o = Outcome(x.st, "ERR_NONE") ELSE o \in Create(x.st, "HIGH_RAM")
  BY <1>3 DEF Done
<1> DEFINE p == IF x.err = "ERR_NONE" THEN x ELSE o
<1>6. p.st = o.st /\ p.err = o.err
  BY <1>5 DEF Outcome
<1>7. /\ t.failed <= p.st.failed
      /\ p.err = "ERR_NONE" => Has(p.st, "HIGH_RAM", made, plugged, cpu)
      /\ p.err # "ERR_NONE" => p.st.failed > 0 /\ Awaits(p.st, "HIGH_RAM", made, plugged, cpu)
  <2>1. \E y \in Create(t, "HIGH_RAM") : IF y.err = "ERR_NONE" THEN p = y ELSE p \in Create(y.st, "HIGH_RAM")
    BY <1>5
  <2> HIDE DEF p
  <2>2. QED
    BY <2>1, <1>4, MakeStep
<1> HIDE DEF p
<1>8. QED
  BY <1>2, <1>6, <1>7

\* cpu_plug.
LEMMA CpuPlugStep ==
  ASSUME NEW s, NEW made, NEW begun, NEW plugged, NEW cpu, Good(s),
         Ready(s, made, begun, plugged, cpu), made \subseteq Components, plugged \subseteq Components,
         "HIGH_RAM" \in made, "HIGH_RAM" \notin plugged, "REGISTERS" \in plugged,
         NEW o \in cpu_plug(s)
  PROVE  /\ o.err = "ERR_NONE" /\ o.st.failed = s.failed /\ Good(o.st)
         /\ Ready(o.st, made, begun, plugged \cup {"HIGH_RAM"}, TRUE)
<1> DEFINE t == [s EXCEPT !.wired = TRUE]
           y == bus_plug(t, "HIGH_RAM", Start["HIGH_RAM"], End["HIGH_RAM"])
<1>1. s \in Stores /\ s.failed \in Nat /\ "HIGH_RAM" \in Components /\ "HIGH_RAM" \in Plain \ plugged
  BY DEF Good, Kept, Stores, Plain, Components
<1>2. Alike(s, t) /\ t.failed = s.failed
  BY <1>1 DEF Alike, Stores
<1>3. o \in IF y.err = "ERR_NONE" THEN Done(CpuWired(y.st))
            ELSE {bus_plug(y.st, "HIGH_RAM", Start["HIGH_RAM"], End["HIGH_RAM"])}
  BY DEF cpu_plug, Require, CpuWired
<1> HIDE DEF t
<1>4. Good(t) /\ Ready(t, made, begun, plugged, cpu)
  BY <1>1, <1>2, AlikeKeeps
<1>5. /\ y.err = "ERR_NONE" /\ y.st.failed = t.failed /\ Good(y.st)
      /\ Ready(y.st, made, begun, plugged \cup {"HIGH_RAM"}, cpu)
  <2>1. Plugs(t, "HIGH_RAM", plugged, y)
    BY <1>1 DEF Plugs
  <2> HIDE DEF y
  <2>2. QED
    BY <1>1, <1>4, <2>1, PlugOnce
<1>6. o.st = CpuWired(y.st) /\ o.err = "ERR_NONE"
  BY <1>3, <1>5 DEF Done, Outcome
<1>7. "REGISTERS" \in plugged \cup {"HIGH_RAM"} /\ plugged \cup {"HIGH_RAM"} \subseteq Components
  BY <1>1
<1> HIDE DEF y
<1>8. LET u == CpuWired(y.st)
      IN  u.failed = y.st.failed /\ Good(u) /\ Ready(u, made, begun, plugged \cup {"HIGH_RAM"}, TRUE)
  BY <1>5, <1>7, CpuCells
<1>9. QED
  BY <1>2, <1>5, <1>6, <1>8

\* A failure pays for the memory of the component that has just been made.
LEMMA FailedAfterMaking ==
  ASSUME NEW s, NEW t, NEW c \in Freed, NEW made, NEW plugged, NEW cpu, Has(s, c, made, plugged, cpu),
         Alike(s, t), s.failed < t.failed, made \subseteq Components, plugged \subseteq Components,
         c \notin made, c # "WORK_RAM"
  PROVE  Has(t, c, made, plugged, cpu) /\ Awaits(t, c, made, plugged, cpu)
<1>1. /\ Good(s) /\ s \in Stores /\ t \in Stores /\ s.failed \in Nat /\ t.failed \in Nat
      /\ s.failed <= t.failed
  BY DEF Has, Good, Kept, Alike, Stores
<1>2. /\ Good(t) /\ Lost(t) = Lost(s) /\ Cardinality(Lost(s)) \in Nat
      /\ Ready(t, made \cup {c}, made \cup {c}, plugged, cpu)
  BY <1>1, AlikeKeeps DEF Has
<1>3. Cardinality(Lost(t)) < t.failed
  BY <1>1, <1>2 DEF Good, Kept, Paid
<1>4. Ready(t, made, made \cup {c}, plugged, cpu)
  BY <1>2, <1>3 DEF Ready
<1>5. QED
  BY <1>2, <1>4 DEF Has, Awaits

\* cartridge_init.
LEMMA CartridgeStep ==
  ASSUME NEW s, NEW made, NEW plugged, NEW cpu, Awaits(s, "CARTRIDGE", made, plugged, cpu),
         NEW o \in cartridge_init(s)
  PROVE  /\ s.failed <= o.st.failed
         /\ o.err = "ERR_NONE" => Has(o.st, "CARTRIDGE", made, plugged, cpu)
         /\ o.err # "ERR_NONE" => o.st.failed > 0 /\ Awaits(o.st, "CARTRIDGE", made, plugged, cpu)
<1>1. PICK x \in Create(s, "CARTRIDGE") :
        o \in IF x.err = "ERR_NONE" THEN Require(cartridge_init_from_file, x.st, Done)
              ELSE Create(x.st, "CARTRIDGE")
  BY DEF cartridge_init, Require
<1>2. /\ s.failed <= x.st.failed
      /\ x.err = "ERR_NONE" => Has(x.st, "CARTRIDGE", made, plugged, cpu)
      /\ x.err # "ERR_NONE" => x.st.failed > 0 /\ Awaits(x.st, "CARTRIDGE", made, plugged, cpu)
  BY MakeOnce
<1>3. /\ "CARTRIDGE" \in Freed /\ "CARTRIDGE" # "WORK_RAM" /\ made \subseteq Components
      /\ plugged \subseteq Components /\ "CARTRIDGE" \notin made
      /\ s.failed \in Nat /\ x.st \in Stores /\ x.st.failed \in Nat
  BY <1>2 DEF Awaits, Has, Good, Kept, Stores
<1>4. CASE x.err = "ERR_NONE"
  <2>1. \A t \in Stores : \A y \in cartridge_init_from_file(t) :
          \/ y.err = "ERR_NONE" /\ y.st = t
          \/ y.err # "ERR_NONE" /\ y.st = [t EXCEPT !.failed = @ + 1]
    BY DEF cartridge_init_from_file, Counted, Outcome
  <2>2. PICK y \in cartridge_init_from_file(x.st) :
          o \in IF y.err = "ERR_NONE" THEN Done(y.st) ELSE cartridge_init_from_file(y.st)
    BY <1>1, <1>4 DEF Require
  <2>3. \A t \in Stores : LET u == [t EXCEPT !.failed = @ + 1]
                          IN  u \in Stores /\ Alike(t, u) /\ u.failed = t.failed + 1
    BY DEF Alike, Stores
  <2>4. CASE y.err = "ERR_NONE"
    <3>1. y.st = x.st /\ o = Outcome(y.st, "ERR_NONE")
      BY <2>1, <2>2, <2>4, <1>3 DEF Done
    <3>2. o.st = x.st /\ o.err = "ERR_NONE"
      BY <3>1 DEF Outcome
    <3>3. QED
      BY <3>2, <1>2, <1>4
  <2>5. CASE y.err # "ERR_NONE"
    <3>1. y.st \in Stores /\ Alike(x.st, y.st) /\ y.st.failed = x.st.failed + 1
      BY <2>1, <2>2, <2>3, <2>5, <1>3
    <3>2. Has(y.st, "CARTRIDGE", made, plugged, cpu)
      BY <1>2, <1>3, <1>4, <3>1, FailedAfterMaking
    <3>3. \/ o.err = "ERR_NONE" /\ o.st = y.st
          \/ /\ o.err # "ERR_NONE" /\ o.st \in Stores /\ Alike(y.st, o.st)
             /\ o.st.failed = y.st.failed + 1
      BY <2>1, <2>2, <2>3, <2>5, <3>1
    <3>4. o.err # "ERR_NONE" => Awaits(o.st, "CARTRIDGE", made, plugged, cpu)
      <4>1. y.st.failed < y.st.failed + 1
        BY <3>1, <1>3
      <4>2. QED
        BY <4>1, <1>3, <3>2, <3>3, FailedAfterMaking
    <3>5. s.failed <= o.st.failed /\ o.st.failed > 0
      BY <1>2, <1>3, <3>1, <3>3
    <3>6. QED
      BY <3>2, <3>3, <3>4, <3>5
  <2>6. QED
    BY <2>4, <2>5
<1>5. CASE x.err # "ERR_NONE"
  <2>1. \E z \in Create(s, "CARTRIDGE") : IF z.err = "ERR_NONE" THEN o = z ELSE o \in Create(z.st, "CARTRIDGE")
    BY <1>1, <1>5
  <2>2. QED
    BY <2>1, MakeStep
<1>6. QED
  BY <1>4, <1>5

\* The memory of the boot ROM before its content is copied.
Blank(s) == [s EXCEPT !.copied = FALSE]

\* bootrom_init.
LEMMA BootromStep ==
  ASSUME NEW s, NEW made, NEW plugged, NEW cpu, Awaits(s, "BOOT_ROM", made, plugged, cpu),
         NEW o \in bootrom_init(s)
  PROVE  /\ s.failed <= o.st.failed
         /\ o.err = "ERR_NONE" => Has(o.st, "BOOT_ROM", made, plugged, cpu)
         /\ o.err # "ERR_NONE" => o.st.failed > 0 /\ Awaits(o.st, "BOOT_ROM", made, plugged, cpu)
<1>1. PICK x \in Create(Blank(s), "BOOT_ROM") :
        o \in IF x.err = "ERR_NONE" THEN Done([x.st EXCEPT !.copied = TRUE])
              ELSE Create(Blank(x.st), "BOOT_ROM")
  BY DEF bootrom_init, Require, Blank
<1>2. ASSUME NEW t \in Stores PROVE Alike(t, Blank(t)) /\ Blank(t).failed = t.failed
  BY DEF Alike, Stores, Blank
<1>3. s \in Stores /\ s.failed \in Nat
  BY DEF Awaits, Good, Kept, Stores
<1>4. Awaits(Blank(s), "BOOT_ROM", made, plugged, cpu) /\ Blank(s).failed = s.failed
  <2>1. Alike(s, Blank(s)) /\ Blank(s).failed = s.failed /\ s.failed <= Blank(s).failed
    BY <1>2, <1>3
  <2>2. QED
    BY <2>1, AwaitsAlike
<1>5. /\ s.failed <= x.st.failed
      /\ x.err = "ERR_NONE" => Has(x.st, "BOOT_ROM", made, plugged, cpu)
      /\ x.err # "ERR_NONE" => x.st.failed > 0 /\ Awaits(x.st, "BOOT_ROM", made, plugged, cpu)
  BY <1>4, MakeOnce
<1>6. x.st \in Stores /\ x.st.failed \in Nat
  BY <1>5 DEF Awaits, Has, Good, Kept, Stores
<1>7. CASE x.err = "ERR_NONE"
  <2> DEFINE u == [x.st EXCEPT !.copied = TRUE]
  <2>1. o.st = u /\ o.err = "ERR_NONE"
    BY <1>1, <1>7 DEF Done, Outcome
  <2>2. Alike(x.st, u) /\ u.failed = x.st.failed
    BY <1>6 DEF Alike, Stores
  <2> HIDE DEF u
  <2>3. Has(u, "BOOT_ROM", made, plugged, cpu)
    BY <2>2, <1>5, <1>6, <1>7, AlikeKeeps DEF Has
  <2>4. QED
    BY <2>1, <2>2, <2>3, <1>5
<1>8. CASE x.err # "ERR_NONE"
  <2>1. o \in Create(Blank(x.st), "BOOT_ROM")
    BY <1>1, <1>8
  <2>2. Awaits(Blank(x.st), "BOOT_ROM", made, plugged, cpu) /\ Blank(x.st).failed = x.st.failed
    <3>1. /\ Alike(x.st, Blank(x.st)) /\ Blank(x.st).failed = x.st.failed
          /\ x.st.failed <= Blank(x.st).failed
      BY <1>2, <1>6
    <3>2. QED
      BY <3>1, <1>5, <1>8, AwaitsAlike
  <2>3. /\ x.st.failed <= o.st.failed
        /\ o.err = "ERR_NONE" => Has(o.st, "BOOT_ROM", made, plugged, cpu)
        /\ o.err # "ERR_NONE" => o.st.failed > 0 /\ Awaits(o.st, "BOOT_ROM", made, plugged, cpu)
    BY <2>1, <2>2, MakeOnce
  <2>4. o.st.failed \in Nat
    BY <2>3 DEF Awaits, Has, Good, Kept, Stores
  <2>5. QED
    BY <2>3, <2>4, <1>3, <1>5, <1>6
<1>9. QED
  BY <1>7, <1>8

-------------------------------------------------------------------------------
(* From one call to the next *)

\* The two tables, entry by entry.
LEMMA TableEntries ==
  /\ MadeBy("WORK_RAM") = 1 /\ PluggedBy("WORK_RAM") = 1
  /\ MadeBy("ECHO_RAM") = 2 /\ PluggedBy("ECHO_RAM") = 3
  /\ MadeBy("VIDEO_RAM") = 4 /\ PluggedBy("VIDEO_RAM") = 4
  /\ MadeBy("EXTERN_RAM") = 5 /\ PluggedBy("EXTERN_RAM") = 5
  /\ MadeBy("GRAPH_RAM") = 6 /\ PluggedBy("GRAPH_RAM") = 6
  /\ MadeBy("USELESS") = 7 /\ PluggedBy("USELESS") = 7
  /\ MadeBy("REGISTERS") = 8 /\ PluggedBy("REGISTERS") = 8
  /\ MadeBy("HIGH_RAM") = 9 /\ PluggedBy("HIGH_RAM") = 10
  /\ MadeBy("CARTRIDGE") = 11 /\ PluggedBy("CARTRIDGE") = 12
  /\ MadeBy("BOOT_ROM") = 13 /\ PluggedBy("BOOT_ROM") = 14
BY DEF MadeBy, PluggedBy

\* No two components are made, or plugged, by the same call.
LEMMA OneByOne ==
  /\ \A c \in Components : MadeBy(c) \in 1..18 /\ PluggedBy(c) \in 1..18
  /\ \A c, d \in Components : MadeBy(c) = MadeBy(d) => c = d
  /\ \A c, d \in Components : PluggedBy(c) = PluggedBy(d) => c = d
BY TableEntries DEF Components, RAMs

\* What the tables say of the call n and of what has been done before it.
LEMMA Tables ==
  ASSUME NEW n \in 1..18
  PROVE  /\ Made(n) \subseteq Components /\ Plugged(n) \subseteq Components
         /\ Made(n) \subseteq Made(n + 1) /\ Made(n + 1) \subseteq Made(n + 2)
         /\ \A c \in Components :
              /\ MadeBy(c) = n => Made(n + 1) = Made(n) \cup {c} /\ c \notin Made(n)
              /\ PluggedBy(c) = n => Plugged(n + 1) = Plugged(n) \cup {c} /\ c \notin Plugged(n)
              /\ MadeBy(c) < n => c \in Made(n)
              /\ PluggedBy(c) < n => c \in Plugged(n)
              /\ PluggedBy(c) >= n => c \notin Plugged(n)
         /\ (\A c \in Components : MadeBy(c) # n) => Made(n + 1) = Made(n)
         /\ (\A c \in Components : PluggedBy(c) # n) => Plugged(n + 1) = Plugged(n)
<1>1. \A c \in Components : MadeBy(c) \in Int /\ PluggedBy(c) \in Int
  BY OneByOne
<1>2. Made(n) \subseteq Made(n + 1) /\ Made(n + 1) \subseteq Made(n + 2)
  BY <1>1 DEF Made
<1>3. ASSUME NEW c \in Components, MadeBy(c) = n
      PROVE  Made(n + 1) = Made(n) \cup {c} /\ c \notin Made(n)
  BY <1>1, <1>3, OneByOne DEF Made
<1>4. ASSUME NEW c \in Components, PluggedBy(c) = n
      PROVE  Plugged(n + 1) = Plugged(n) \cup {c} /\ c \notin Plugged(n)
  BY <1>1, <1>4, OneByOne DEF Plugged
<1>5. (\A c \in Components : MadeBy(c) # n) => Made(n + 1) = Made(n)
  BY <1>1 DEF Made
<1>6. (\A c \in Components : PluggedBy(c) # n) => Plugged(n + 1) = Plugged(n)
  BY <1>1 DEF Plugged
<1>7. \A c \in Components : /\ MadeBy(c) < n => c \in Made(n)
                            /\ PluggedBy(c) < n => c \in Plugged(n)
                            /\ PluggedBy(c) >= n => c \notin Plugged(n)
  BY <1>1 DEF Made, Plugged
<1>8. Made(n) \subseteq Components /\ Plugged(n) \subseteq Components
  BY DEF Made, Plugged
<1>9. QED
  BY <1>2, <1>3, <1>4, <1>5, <1>6, <1>7, <1>8

\* What the outcome of the call n leaves: if it passes, what the next call needs; if it
\* fails, what the same call needs to be made again.
Goes(s, n, o) ==
  /\ s.failed <= o.st.failed /\ Good(o.st)
  /\ o.err = "ERR_NONE" => ReadyAt(o.st, n + 1)
  /\ o.err # "ERR_NONE" => ReadyAt(o.st, n) /\ o.st.failed > 0

\* What the next call makes has not been touched yet.
LEMMA Onward ==
  ASSUME NEW n \in 1..18, NEW s, NEW begun, NEW cpu, begun \subseteq Made(n + 1),
         Ready(s, Made(n + 1), begun, Plugged(n + 1), cpu), n >= 10 => cpu
  PROVE  ReadyAt(s, n + 1)
<1>1. begun \subseteq Made(n + 2) /\ n + 2 = (n + 1) + 1
  BY Tables
<1>2. n + 1 > 10 => cpu
  OBVIOUS
<1>3. QED
  BY <1>1, <1>2 DEF ReadyAt, Ready

\* The cells of IE and IF come with call 10.
LEMMA FromTen == \A n \in 1..18 : n # 10 /\ n >= 10 => n > 10
OBVIOUS

\* The calls that make a component and do not plug it.
LEMMA MakingStep ==
  ASSUME NEW n \in 1..18, NEW c \in Components, NEW s, NEW o, MadeBy(c) = n, n # 10,
         \A d \in Components : PluggedBy(d) # n, s.failed <= o.st.failed,
         o.err = "ERR_NONE" => Has(o.st, c, Made(n), Plugged(n), n > 10),
         o.err # "ERR_NONE" => o.st.failed > 0 /\ Awaits(o.st, c, Made(n), Plugged(n), n > 10)
  PROVE  Goes(s, n, o)
<1>1. Made(n + 1) = Made(n) \cup {c} /\ Plugged(n + 1) = Plugged(n)
  BY Tables
<1>2. Good(o.st)
  BY DEF Has, Awaits
<1>3. ASSUME o.err = "ERR_NONE" PROVE ReadyAt(o.st, n + 1)
  <2>1. Ready(o.st, Made(n + 1), Made(n + 1), Plugged(n + 1), n > 10)
    BY <1>1, <1>3 DEF Has
  <2>2. n >= 10 => n > 10
    BY FromTen
  <2>3. QED
    BY <2>1, <2>2, Onward
<1>4. ASSUME o.err # "ERR_NONE" PROVE ReadyAt(o.st, n)
  BY <1>1, <1>4 DEF Awaits, ReadyAt
<1>5. QED
  BY <1>2, <1>3, <1>4 DEF Goes

\* What gameboy_create finds when it is about to make a component.
LEMMA ReadyAwaits ==
  ASSUME NEW n \in 1..18, NEW c \in Freed, NEW s, Good(s), ReadyAt(s, n), MadeBy(c) = n
  PROVE  Awaits(s, c, Made(n), Plugged(n), n > 10)
<1>1. c \in Components
  BY DEF Freed
<1>2. /\ Made(n) \subseteq Components /\ Plugged(n) \subseteq Components /\ c \notin Made(n)
      /\ Made(n + 1) = Made(n) \cup {c}
  BY <1>1, Tables
<1>3. Ready(s, Made(n), Made(n) \cup {c}, Plugged(n), n > 10)
  BY <1>2 DEF ReadyAt
<1>4. c = "WORK_RAM" => Made(n) = {} /\ Plugged(n) = {}
  BY OneByOne, TableEntries DEF Made, Plugged
<1>5. QED
  BY <1>2, <1>3, <1>4 DEF Awaits

\* The calls that plug a component: they do not fail.
LEMMA PluggingStep ==
  ASSUME NEW n \in 1..18, NEW c \in Components, NEW s, NEW o, Good(s), ReadyAt(s, n), n # 10,
         PluggedBy(c) = n, MadeBy(c) < n, \A d \in Components : MadeBy(d) # n, NEW x,
         \/ x = bus_forced_plug(s, c, Start[c], End[c], 0)
         \/ c \in Plain /\ x = bus_plug(s, c, Start[c], End[c]),
         o.st = x.st /\ o.err = x.err
  PROVE  o.err = "ERR_NONE" /\ Goes(s, n, o)
<1>1. /\ Made(n + 1) = Made(n) /\ c \in Made(n) /\ Made(n) \subseteq Components
      /\ Plugged(n + 1) = Plugged(n) \cup {c} /\ c \notin Plugged(n) /\ Plugged(n) \subseteq Components
  BY Tables
<1>2. Ready(s, Made(n), Made(n + 1), Plugged(n), n > 10)
  BY DEF ReadyAt
<1> DEFINE cpu == n > 10
<1>3. /\ x.err = "ERR_NONE" /\ x.st.failed = s.failed /\ Good(x.st)
      /\ Ready(x.st, Made(n), Made(n + 1), Plugged(n) \cup {c}, cpu)
  <2>1. Ready(s, Made(n), Made(n + 1), Plugged(n), cpu) /\ (c \in Plain => c \in Plain \ Plugged(n))
    BY <1>1, <1>2
  <2> HIDE DEF cpu
  <2>2. Plugs(s, c, Plugged(n), x)
    BY <2>1 DEF Plugs
  <2>3. QED
    BY <1>1, <2>1, <2>2, PlugOnce
<1>4. ReadyAt(x.st, n + 1)
  <2>1. Ready(x.st, Made(n + 1), Made(n + 1), Plugged(n + 1), n > 10)
    BY <1>1, <1>3
  <2>2. n >= 10 => n > 10
    BY FromTen
  <2>3. QED
    BY <2>1, <2>2, Onward
<1>5. s.failed <= x.st.failed
  BY <1>3 DEF Good, Kept, Stores
<1>6. QED
  BY <1>3, <1>4, <1>5 DEF Goes

\* The calls that neither make nor plug a component.
LEMMA FlagStep ==
  ASSUME NEW n \in 15..18, NEW s, NEW o, Good(s), ReadyAt(s, n), Alike(s, o.st),
         IF o.err = "ERR_NONE" THEN o.st.failed = s.failed ELSE o.st.failed = s.failed + 1
  PROVE  Goes(s, n, o)
<1>1. n \in 1..18 /\ \A c \in Components : MadeBy(c) # n /\ PluggedBy(c) # n
  BY TableEntries DEF Components, RAMs
<1>2. Made(n + 1) = Made(n) /\ Plugged(n + 1) = Plugged(n)
  BY <1>1, Tables
<1>3. s.failed \in Nat
  BY DEF Good, Kept, Stores
<1>4. s.failed <= o.st.failed /\ (o.err # "ERR_NONE" => o.st.failed > 0)
  BY <1>3
<1>5. Good(o.st) /\ Ready(o.st, Made(n), Made(n + 1), Plugged(n), n > 10)
  BY <1>4, AlikeKeeps DEF ReadyAt
<1>6. ReadyAt(o.st, n + 1)
  <2>1. Ready(o.st, Made(n + 1), Made(n + 1), Plugged(n + 1), n > 10)
    BY <1>2, <1>5
  <2>2. n >= 10 => n > 10
    OBVIOUS
  <2>3. QED
    BY <1>1, <2>1, <2>2, Onward
<1>7. QED
  BY <1>4, <1>5, <1>6 DEF Goes, ReadyAt

\* The calls of gameboy_create, entry by entry.
LEMMA StageNames ==
  /\ Len(Stages) = 18
  /\ Stages[1] = "WORK_RAM" /\ Stages[2] = "share" /\ Stages[3] = "ECHO_RAM" /\ Stages[4] = "VIDEO_RAM"
  /\ Stages[5] = "EXTERN_RAM" /\ Stages[6] = "GRAPH_RAM" /\ Stages[7] = "USELESS"
  /\ Stages[8] = "REGISTERS" /\ Stages[9] = "cpu_init" /\ Stages[10] = "cpu_plug"
  /\ Stages[11] = "cartridge_init" /\ Stages[12] = "cartridge_plug" /\ Stages[13] = "bootrom_init"
  /\ Stages[14] = "bootrom_plug" /\ Stages[15] = "timer" /\ Stages[16] = "lcdc"
  /\ Stages[17] = "screen" /\ Stages[18] = "joypad"
BY DEF Stages

\* The first and the last alternative of Call.
LEMMA CallRam ==
  ASSUME NEW s, NEW c \in RAMs
  PROVE  Call(c, s) = component_connect(s, c)
BY DEF Call, RAMs

LEMMA CallExternal ==
  ASSUME NEW s, NEW part \in {"lcdc", "screen", "joypad"}
  PROVE  Call(part, s) = external_init(s, part)
BY DEF Call, RAMs

\* Every call of gameboy_create leaves what the next one needs, or can be made again.
LEMMA CallStep ==
  ASSUME NEW n \in 1..18, NEW s, Good(s), ReadyAt(s, n), NEW o \in Call(Stages[n], s)
  PROVE  Goes(s, n, o)
<1>1. /\ Ready(s, Made(n), Made(n + 1), Plugged(n), n > 10)
      /\ Made(n) \subseteq Components /\ Plugged(n) \subseteq Components
      /\ s \in Stores /\ s.failed \in Nat
  BY Tables DEF ReadyAt, Good, Kept, Stores
<1>2. CASE n \in {1, 4, 5, 6, 7, 8}
  <2>1. PICK c \in RAMs : c = Stages[n] /\ MadeBy(c) = n /\ PluggedBy(c) = n
    BY <1>2, StageNames, TableEntries DEF RAMs
  <2>2. c \in Components /\ c \in Freed
    BY DEF Components, Freed, RAMs
  <2>3. o \in component_connect(s, c)
    <3>1. o \in Call(c, s)
      BY <2>1
    <3>2. Call(c, s) = component_connect(s, c)
      BY CallRam
    <3>3. QED
      BY <3>1, <3>2
  <2>4. /\ Made(n + 1) = Made(n) \cup {c} /\ Plugged(n + 1) = Plugged(n) \cup {c}
        /\ c \notin Plugged(n)
    BY <2>1, <2>2, Tables
  <2>5. Awaits(s, c, Made(n), Plugged(n), n > 10)
    BY <2>1, <2>2, ReadyAwaits
  <2>6. /\ s.failed <= o.st.failed
        /\ o.err = "ERR_NONE" =>
             Good(o.st) /\ Ready(o.st, Made(n + 1), Made(n + 1), Plugged(n + 1), n > 10)
        /\ o.err # "ERR_NONE" => o.st.failed > 0 /\ Awaits(o.st, c, Made(n), Plugged(n), n > 10)
    <3>1. /\ s.failed <= o.st.failed
          /\ o.err = "ERR_NONE" =>
               Good(o.st) /\ Ready(o.st, Made(n) \cup {c}, Made(n) \cup {c}, Plugged(n) \cup {c}, n > 10)
          /\ o.err # "ERR_NONE" => o.st.failed > 0 /\ Awaits(o.st, c, Made(n), Plugged(n), n > 10)
      <4> DEFINE cpu == n > 10
      <4>1. Awaits(s, c, Made(n), Plugged(n), cpu)
        BY <2>5
      <4> HIDE DEF cpu
      <4>2. /\ s.failed <= o.st.failed
            /\ o.err = "ERR_NONE" =>
                 Good(o.st) /\ Ready(o.st, Made(n) \cup {c}, Made(n) \cup {c}, Plugged(n) \cup {c}, cpu)
            /\ o.err # "ERR_NONE" => o.st.failed > 0 /\ Awaits(o.st, c, Made(n), Plugged(n), cpu)
        BY <2>3, <2>4, <4>1, ConnectStep
      <4>3. QED
        BY <4>2 DEF cpu
    <3>2. QED
      BY <3>1, <2>4
  <2>7. ASSUME o.err = "ERR_NONE" PROVE ReadyAt(o.st, n + 1)
    <3>1. n >= 10 => n > 10
      BY <1>2
    <3>2. QED
      BY <3>1, <2>6, <2>7, Onward
  <2>8. ASSUME o.err # "ERR_NONE" PROVE Good(o.st) /\ ReadyAt(o.st, n)
    BY <2>4, <2>6, <2>8 DEF Awaits, ReadyAt
  <2>9. QED
    BY <2>6, <2>7, <2>8 DEF Goes
<1>3. CASE n = 2
  <2>1. o \in share_echo(s)
    BY <1>3, StageNames DEF Call, RAMs
  <2>2. /\ MadeBy("ECHO_RAM") = 2 /\ "ECHO_RAM" \in Components /\ "WORK_RAM" \in Components
        /\ MadeBy("WORK_RAM") = 1 /\ \A c \in Components : PluggedBy(c) # 2
    BY TableEntries DEF Components, RAMs
  <2>3. /\ Made(n + 1) = Made(n) \cup {"ECHO_RAM"} /\ "ECHO_RAM" \notin Made(n)
        /\ "WORK_RAM" \in Made(n) /\ Plugged(n + 1) = Plugged(n)
    BY <1>3, <2>2, Tables
  <2>4. /\ o.err = "ERR_NONE" /\ o.st.failed = s.failed /\ Good(o.st)
        /\ Ready(o.st, Made(n + 1), Made(n + 1), Plugged(n + 1), n > 10)
    <3> DEFINE cpu == n > 10
    <3>1. Ready(s, Made(n), Made(n) \cup {"ECHO_RAM"}, Plugged(n), cpu)
      BY <1>1, <2>3
    <3> HIDE DEF cpu
    <3>2. /\ o.err = "ERR_NONE" /\ o.st.failed = s.failed /\ Good(o.st)
          /\ Ready(o.st, Made(n) \cup {"ECHO_RAM"}, Made(n) \cup {"ECHO_RAM"}, Plugged(n), cpu)
      BY <1>1, <2>1, <2>3, <3>1, ShareStep
    <3>3. QED
      BY <2>3, <3>2 DEF cpu
  <2>5. n >= 10 => n > 10
    BY <1>3
  <2>6. ReadyAt(o.st, n + 1)
    BY <2>4, <2>5, Onward
  <2>7. QED
    BY <1>1, <2>4, <2>6 DEF Goes
<1>4. CASE n = 3
  <2>1. o = bus_plug(s, "ECHO_RAM", Start["ECHO_RAM"], End["ECHO_RAM"])
    BY <1>4, StageNames DEF Call, RAMs, plug_echo
  <2>2. /\ PluggedBy("ECHO_RAM") = n /\ MadeBy("ECHO_RAM") < n /\ "ECHO_RAM" \in Components
        /\ "ECHO_RAM" \in Plain /\ n # 10 /\ \A c \in Components : MadeBy(c) # n
    BY <1>4, TableEntries DEF Components, RAMs, Plain
  <2>3. QED
    BY <2>1, <2>2, PluggingStep
<1>5. CASE n = 9
  <2>1. o \in cpu_init(s)
    BY <1>5, StageNames DEF Call, RAMs
  <2>2. /\ MadeBy("HIGH_RAM") = n /\ "HIGH_RAM" \in Components /\ "HIGH_RAM" \in Freed /\ n # 10
        /\ \A c \in Components : PluggedBy(c) # n
    BY <1>5, TableEntries DEF Components, RAMs, Freed
  <2>3. Awaits(s, "HIGH_RAM", Made(n), Plugged(n), n > 10)
    BY <2>2, ReadyAwaits
  <2>4. /\ s.failed <= o.st.failed
        /\ o.err = "ERR_NONE" => Has(o.st, "HIGH_RAM", Made(n), Plugged(n), n > 10)
        /\ o.err # "ERR_NONE" => o.st.failed > 0 /\ Awaits(o.st, "HIGH_RAM", Made(n), Plugged(n), n > 10)
    BY <2>1, <2>3, CpuInitStep
  <2>5. QED
    BY <2>2, <2>4, MakingStep
<1>6. CASE n = 10
  <2>1. o \in cpu_plug(s)
    BY <1>6, StageNames DEF Call, RAMs
  <2>2. /\ PluggedBy("HIGH_RAM") = n /\ MadeBy("HIGH_RAM") < n /\ PluggedBy("REGISTERS") < n
        /\ "HIGH_RAM" \in Components /\ "REGISTERS" \in Components /\ \A c \in Components : MadeBy(c) # n
    BY <1>6, TableEntries DEF Components, RAMs
  <2>3. /\ Made(n + 1) = Made(n) /\ "HIGH_RAM" \in Made(n) /\ "HIGH_RAM" \notin Plugged(n)
        /\ "REGISTERS" \in Plugged(n) /\ Plugged(n + 1) = Plugged(n) \cup {"HIGH_RAM"}
    BY <2>2, Tables
  <2>4. /\ o.err = "ERR_NONE" /\ o.st.failed = s.failed /\ Good(o.st)
        /\ Ready(o.st, Made(n + 1), Made(n + 1), Plugged(n + 1), TRUE)
    <3> DEFINE cpu == n > 10
    <3>1. Ready(s, Made(n), Made(n + 1), Plugged(n), cpu)
      BY <1>1
    <3> HIDE DEF cpu
    <3>2. /\ o.err = "ERR_NONE" /\ o.st.failed = s.failed /\ Good(o.st)
          /\ Ready(o.st, Made(n), Made(n + 1), Plugged(n) \cup {"HIGH_RAM"}, TRUE)
      BY <1>1, <2>1, <2>3, <3>1, CpuPlugStep
    <3>3. QED
      BY <2>3, <3>2
  <2>5. ReadyAt(o.st, n + 1)
    BY <2>4, Onward
  <2>6. QED
    BY <1>1, <2>4, <2>5 DEF Goes
<1>7. CASE n = 11
  <2>1. o \in cartridge_init(s)
    BY <1>7, StageNames DEF Call, RAMs
  <2>2. /\ MadeBy("CARTRIDGE") = n /\ "CARTRIDGE" \in Components /\ "CARTRIDGE" \in Freed /\ n # 10
        /\ \A c \in Components : PluggedBy(c) # n
    BY <1>7, TableEntries DEF Components, RAMs, Freed
  <2>3. Awaits(s, "CARTRIDGE", Made(n), Plugged(n), n > 10)
    BY <2>2, ReadyAwaits
  <2>4. /\ s.failed <= o.st.failed
        /\ o.err = "ERR_NONE" => Has(o.st, "CARTRIDGE", Made(n), Plugged(n), n > 10)
        /\ o.err # "ERR_NONE" => o.st.failed > 0 /\ Awaits(o.st, "CARTRIDGE", Made(n), Plugged(n), n > 10)
    BY <2>1, <2>3, CartridgeStep
  <2>5. QED
    BY <2>2, <2>4, MakingStep
<1>8. CASE n = 12
  <2> DEFINE x == bus_forced_plug(s, "CARTRIDGE", Start["CARTRIDGE"], End["CARTRIDGE"], 0)
  <2>1. o \in cartridge_plug(s)
    BY <1>8, StageNames DEF Call, RAMs
  <2>2. /\ PluggedBy("CARTRIDGE") = n /\ MadeBy("CARTRIDGE") < n /\ "CARTRIDGE" \in Components
        /\ n # 10 /\ \A c \in Components : MadeBy(c) # n
    BY <1>8, TableEntries DEF Components, RAMs
  <2>3. x.err = "ERR_NONE" /\ Goes(s, n, x)
    BY <2>2, PluggingStep
  <2>4. o \in Done(x.st)
    BY <2>1, <2>3 DEF cartridge_plug, Require, forced
  <2> HIDE DEF x
  <2>5. o.st = x.st /\ o.err = "ERR_NONE"
    BY <2>4 DEF Done, Outcome
  <2>6. QED
    BY <2>3, <2>5 DEF Goes
<1>9. CASE n = 13
  <2>1. o \in bootrom_init(s)
    BY <1>9, StageNames DEF Call, RAMs
  <2>2. /\ MadeBy("BOOT_ROM") = n /\ "BOOT_ROM" \in Components /\ "BOOT_ROM" \in Freed /\ n # 10
        /\ \A c \in Components : PluggedBy(c) # n
    BY <1>9, TableEntries DEF Components, RAMs, Freed
  <2>3. Awaits(s, "BOOT_ROM", Made(n), Plugged(n), n > 10)
    BY <2>2, ReadyAwaits
  <2>4. /\ s.failed <= o.st.failed
        /\ o.err = "ERR_NONE" => Has(o.st, "BOOT_ROM", Made(n), Plugged(n), n > 10)
        /\ o.err # "ERR_NONE" => o.st.failed > 0 /\ Awaits(o.st, "BOOT_ROM", Made(n), Plugged(n), n > 10)
    BY <2>1, <2>3, BootromStep
  <2>5. QED
    BY <2>2, <2>4, MakingStep
<1>10. CASE n = 14
  <2>1. o = bus_forced_plug(s, "BOOT_ROM", Start["BOOT_ROM"], End["BOOT_ROM"], 0)
    BY <1>10, StageNames DEF Call, RAMs, forced
  <2>2. /\ PluggedBy("BOOT_ROM") = n /\ MadeBy("BOOT_ROM") < n /\ "BOOT_ROM" \in Components
        /\ n # 10 /\ \A c \in Components : MadeBy(c) # n
    BY <1>10, TableEntries DEF Components, RAMs
  <2>3. QED
    BY <2>1, <2>2, PluggingStep
<1>11. CASE n = 15
  <2>1. o \in timer_init(s)
    BY <1>11, StageNames DEF Call, RAMs
  <2>2. o.st = Initialise(s, "timer") /\ o.err = "ERR_NONE"
    BY <2>1 DEF timer_init, Done, Outcome
  <2>3. Alike(s, o.st) /\ o.st.failed = s.failed
    <3>1. "timer" \in Parts
      BY DEF Parts
    <3>2. Alike(s, Initialise(s, "timer")) /\ Initialise(s, "timer").failed = s.failed
      BY <1>1, <3>1, InitialiseAlike
    <3>3. QED
      BY <3>2, <2>2
  <2>4. QED
    BY <1>11, <2>2, <2>3, FlagStep
<1>12. CASE n \in 16..18
  <2>1. PICK part \in Parts : o \in external_init(s, part)
    <3>1. PICK part \in {"lcdc", "screen", "joypad"} : part = Stages[n]
      BY <1>12, StageNames
    <3>2. o \in Call(part, s)
      BY <3>1
    <3>3. o \in external_init(s, part) /\ part \in Parts
      BY <3>2, CallExternal DEF Parts
    <3>4. QED
      BY <3>3
  <2>2. \/ o.err = "ERR_NONE" /\ o.st = Initialise(s, part)
        \/ o.err # "ERR_NONE" /\ o.st = [s EXCEPT !.failed = @ + 1]
    BY <2>1 DEF external_init, Counted, Outcome
  <2>3. LET t == [s EXCEPT !.failed = @ + 1] IN Alike(s, t) /\ t.failed = s.failed + 1
    BY <1>1 DEF Alike, Stores
  <2>4. LET t == Initialise(s, part) IN Alike(s, t) /\ t.failed = s.failed
    BY <1>1, InitialiseAlike
  <2>5. Alike(s, o.st) /\ IF o.err = "ERR_NONE" THEN o.st.failed = s.failed ELSE o.st.failed = s.failed + 1
    BY <2>2, <2>3, <2>4
  <2>6. QED
    BY <1>12, <2>5, FlagStep
<1>13. n \in {1, 4, 5, 6, 7, 8} \/ n = 2 \/ n = 3 \/ n = 9 \/ n = 10 \/ n = 11 \/ n = 12 \/ n = 13
       \/ n = 14 \/ n = 15 \/ n \in 16..18
  OBVIOUS
<1>14. QED
  BY <1>2, <1>3, <1>4, <1>5, <1>6, <1>7, <1>8, <1>9, <1>10, <1>11, <1>12, <1>13

-------------------------------------------------------------------------------
(* Running and freeing *)

\* When gameboy_create has returned, nothing is missing unless something has failed.
LEMMA AllDone ==
  ASSUME NEW s, Good(s), ReadyAt(s, 19), s.failed = 0
  PROVE  Whole(s)
<1>1. /\ \A c \in Components : c \in Made(19) /\ c \in Plugged(19)
      /\ "CARTRIDGE" \in Components
  BY OneByOne DEF Made, Plugged, Components
<1>2. /\ \A c \in Made(19) : s.comp[c].mem \in DOMAIN s.heap /\ s.heap[s.comp[c].mem] >= SizeOf(c)
      /\ \A c \in Plugged(19) : \A a \in Area(c) : s.bus[a] # NoCell
      /\ s.bus[REG_IE] # NoCell
  BY DEF ReadyAt, Ready
<1>3. ASSUME NEW a \in Addr PROVE s.bus[a] # NoCell
  <2>1. CASE a = REG_IE
    BY <1>2, <2>1
  <2>2. CASE a # REG_IE
    <3>1. PICK c \in Components : a \in Area(c)
      BY <2>2, LayoutAssumption
    <3>2. QED
      BY <3>1, <1>1, <1>2
  <2>3. QED
    BY <2>1, <2>2
<1>4. QED
  BY <1>1, <1>2, <1>3 DEF Whole

\* The handler of REG_BOOT_ROM_DISABLE keeps the memory map whole.
LEMMA ListenerStep ==
  ASSUME NEW s, Good(s), NEW o \in bootrom_bus_listener(s)
  PROVE  Good(o.st) /\ o.st.failed = s.failed /\ (Whole(s) => Whole(o.st))
<1> DEFINE u == bus_unplug(s, "BOOT_ROM")
           again(t) == bus_forced_plug(t, "CARTRIDGE", Start["CARTRIDGE"], End["CARTRIDGE"], 0)
<1>1. /\ "BOOT_ROM" \in Components /\ "CARTRIDGE" \in Components /\ "CARTRIDGE" # "BOOT_ROM"
      /\ s \in Stores /\ Kept(s) /\ Wires(s) /\ Places(s)
  BY DEF Components, Good, Kept, Wires
<1>2. u.err = "ERR_NONE" /\ u.st \in Stores /\ Rewired(s, u.st, "BOOT_ROM")
  BY <1>1, UnplugEffect
<1>3. o \in Require(LAMBDA t : forced(t, "CARTRIDGE"), u.st, Done)
  BY <1>2 DEF bootrom_bus_listener, Require, cartridge_plug
<1> HIDE DEF u
<1>4. Kept(u.st) /\ Wires(u.st) /\ Places(u.st)
  BY <1>1, <1>2, RewiredKeeps DEF Wires
<1> DEFINE v == again(u.st)
           w == again(v.st)
<1>5. /\ v.st \in Stores /\ Rewired(u.st, v.st, "CARTRIDGE")
      /\ Fits(u.st, "CARTRIDGE") =>
           v.err = "ERR_NONE" /\ \A a \in Area("CARTRIDGE") : v.st.bus[a].mem = u.st.comp["CARTRIDGE"].mem
  BY <1>1, <1>2, <1>4, ForcedPlugEffect
<1>6. o \in IF v.err = "ERR_NONE" THEN Done(v.st) ELSE {w}
  BY <1>3 DEF Require, forced
<1> HIDE DEF v
<1>7. Kept(v.st) /\ Wires(v.st) /\ Places(v.st)
  BY <1>1, <1>4, <1>5, RewiredKeeps DEF Wires
<1>8. w.st \in Stores /\ Rewired(v.st, w.st, "CARTRIDGE")
  BY <1>1, <1>5, <1>7, ForcedPlugEffect
<1> HIDE DEF w
<1>9. Kept(w.st) /\ Wires(w.st)
  BY <1>1, <1>7, <1>8, RewiredKeeps
<1>10. o.st = IF v.err = "ERR_NONE" THEN v.st ELSE w.st
  BY <1>6 DEF Done, Outcome
<1>11. Good(o.st) /\ o.st.failed = s.failed
  BY <1>2, <1>5, <1>7, <1>8, <1>9, <1>10 DEF Good, Rewired
<1>12. ASSUME Whole(s) PROVE Whole(o.st)
  <2>1. /\ s.comp["CARTRIDGE"].mem \in DOMAIN s.heap /\ s.heap[s.comp["CARTRIDGE"].mem] >= SizeOf("CARTRIDGE")
        /\ u.st.comp["CARTRIDGE"] = s.comp["CARTRIDGE"] /\ u.st.heap = s.heap
    BY <1>1, <1>2, <1>12 DEF Whole, Rewired
  <2>2. /\ v.err = "ERR_NONE" /\ o.st = v.st
        /\ \A a \in Area("CARTRIDGE") : v.st.bus[a].mem = s.comp["CARTRIDGE"].mem
    BY <2>1, <1>5, <1>10 DEF Fits
  <2>3. s.comp["CARTRIDGE"].mem # NoMem
    BY <2>1, <1>1 DEF Kept, Owned, NoMem, CpuMem, Stores
  <2>4. ASSUME NEW a \in Addr PROVE v.st.bus[a] # NoCell
    <3>1. CASE a \in Area("CARTRIDGE")
      BY <2>2, <2>3, <3>1 DEF NoCell
    <3>2. CASE a \notin Area("CARTRIDGE")
      <4>1. a \notin Area("BOOT_ROM")
        BY <3>2, LayoutAssumption
      <4>2. v.st.bus[a] = s.bus[a]
        BY <3>2, <4>1, <1>2, <1>5 DEF Rewired
      <4>3. QED
        BY <4>2, <1>12 DEF Whole
    <3>3. QED
      BY <3>1, <3>2
  <2>5. v.st.comp["CARTRIDGE"].mem = s.comp["CARTRIDGE"].mem /\ v.st.heap = s.heap
    BY <2>1, <1>5 DEF Rewired
  <2>6. QED
    BY <2>1, <2>2, <2>4, <2>5 DEF Whole
<1>13. QED
  BY <1>11, <1>12

\* One step of gameboy_free: the component's memory is gone, the others are as they were.
LEMMA ReleaseStep ==
  ASSUME NEW s, Kept(s), Places(s), NEW c \in Components
  PROVE  LET t == Release(s, c) IN
         /\ Kept(t) /\ Places(t) /\ (c \in Freed => ~HasMem(t, c))
         /\ \A d \in Freed : ~HasMem(s, d) => ~HasMem(t, d)
<1> DEFINE u == bus_unplug(s, c).st
           t == Release(s, c)
<1>1. s \in Stores
  BY DEF Kept
<1>2. u \in Stores /\ Rewired(s, u, c)
  BY <1>1, UnplugEffect
<1>3. t = IF c \in Freed THEN component_free(u, c) ELSE u
  BY DEF Release
<1> HIDE DEF u, t
<1>4. /\ Kept(u) /\ Owned(u) /\ Paid(u) /\ Places(u)
      /\ \A d \in Components : u.comp[d].mem = s.comp[d].mem
  <2>1. Kept(u) /\ \A d \in Components : u.comp[d].mem = s.comp[d].mem
    BY <1>2, RewiredKeeps
  <2>2. Places(u)
    BY <1>2 DEF Rewired, Places
  <2>3. QED
    BY <2>1, <2>2 DEF Kept
<1>5. CASE c \notin Freed
  BY <1>3, <1>4, <1>5 DEF HasMem, Freed, t
<1>6. CASE c \in Freed
  <2> DEFINE k == [u.comp EXCEPT ![c] = Nothing]
             m == u.comp[c].mem
             h == [x \in DOMAIN u.heap \ {m} |-> u.heap[x]]
  <2>1. t = [u EXCEPT !.comp = k, !.heap = h]
    BY <1>3, <1>6 DEF component_free
  <2>2. /\ k \in [Components -> Comps] /\ k[c].mem = NoMem /\ k[c].start = 0 /\ k[c].end = 0
        /\ \A d \in Components \ {c} : k[d] = u.comp[d]
    BY <1>2, AreaType DEF Stores, Comps, Nothing, Owning, NoMem
  <2>3. h \in Heaps /\ DOMAIN h = DOMAIN u.heap \ {m}
    BY <1>2, HeapShrinks DEF Stores
  <2> HIDE DEF k, h
  <2>4. /\ t \in Stores /\ t.comp = k /\ t.heap = h /\ t.fresh = u.fresh /\ t.failed = u.failed
    BY <1>2, <2>1, <2>2, <2>3 DEF Stores
  <2>5. \A d \in Freed \ {c} : t.comp[d] = u.comp[d]
    BY <2>2, <2>4 DEF Freed
  <2>6. ~HasMem(t, c)
    BY <2>2, <2>4 DEF HasMem
  <2>7. Owned(t)
    <3>1. CpuMem < t.fresh /\ DOMAIN t.heap \subseteq (CpuMem + 1)..(t.fresh - 1)
      BY <1>4, <2>3, <2>4 DEF Owned
    <3>2. ASSUME NEW d \in Freed, HasMem(t, d) PROVE t.comp[d].mem \in DOMAIN t.heap
      <4>1. d # c /\ t.comp[d] = u.comp[d] /\ HasMem(u, d)
        BY <3>2, <2>5, <2>6 DEF HasMem
      <4>2. u.comp[d].mem \in DOMAIN u.heap /\ u.comp[d].mem # m
        BY <4>1, <1>4, <1>6 DEF Owned
      <4>3. QED
        BY <4>1, <4>2, <2>3, <2>4
    <3>3. ASSUME NEW d \in Freed, NEW e \in Freed, d # e, HasMem(t, d)
          PROVE  t.comp[d].mem # t.comp[e].mem
      <4>1. d # c /\ t.comp[d] = u.comp[d] /\ HasMem(u, d)
        BY <3>3, <2>5, <2>6 DEF HasMem
      <4>2. CASE e = c
        BY <4>2, <3>3, <2>6 DEF HasMem
      <4>3. CASE e # c
        BY <4>1, <4>3, <3>3, <2>5, <1>4 DEF Owned
      <4>4. QED
        BY <4>2, <4>3
    <3>4. QED
      BY <3>1, <3>2, <3>3 DEF Owned
  <2>8. Paid(t)
    <3>1. Lost(t) \subseteq Lost(u)
      <4>1. SUFFICES ASSUME NEW x \in Lost(t), x \in Held(u) PROVE FALSE
        BY <2>3, <2>4 DEF Lost
      <4>2. PICK d \in Freed : x = u.comp[d].mem
        BY <4>1 DEF Held
      <4>3. x \in DOMAIN u.heap /\ x # m /\ x \notin Held(t)
        BY <4>1, <2>3, <2>4 DEF Lost
      <4>4. d # c /\ x = t.comp[d].mem
        BY <4>2, <4>3, <2>5
      <4>5. QED
        BY <4>3, <4>4 DEF Held
    <3>2. IsFiniteSet(Lost(u)) /\ Cardinality(Lost(u)) \in Nat
      BY <1>2, <1>4, LostFinite
    <3>3. Cardinality(Lost(t)) \in Nat /\ Cardinality(Lost(t)) <= Cardinality(Lost(u))
      BY <3>1, <3>2, FS_Subset, FS_CardinalityType
    <3>4. QED
      BY <3>2, <3>3, <1>2, <1>4, <2>4 DEF Paid, Stores
  <2>9. Places(t)
    BY <1>4, <2>2, <2>4 DEF Places
  <2>10. \A d \in Freed : ~HasMem(s, d) => ~HasMem(t, d)
    BY <1>4, <2>5, <2>6 DEF HasMem, Freed
  <2>11. QED
    BY <2>4, <2>6, <2>7, <2>8, <2>9, <2>10 DEF Kept, t
<1>7. QED
  BY <1>5, <1>6

-------------------------------------------------------------------------------
(* The specification *)

\* A gameboy_t that main has zeroed.
LEMMA InitHolds == Init => IInv
<1> SUFFICES ASSUME Init PROVE IInv
  OBVIOUS
<1> DEFINE s == store
<1>1. /\ s.bus = [a \in Addr |-> NoCell] /\ s.comp = [c \in Components |-> Nothing]
      /\ s.heap = [m \in {} |-> 0] /\ s.fresh = 2 /\ s.failed = 0
      /\ s = [bus |-> s.bus, comp |-> s.comp, heap |-> s.heap, fresh |-> s.fresh,
              copied |-> FALSE, wired |-> FALSE, ready |-> {}, failed |-> s.failed]
  BY DEF Init, CpuMem
<1> HIDE DEF s
<1>2. 0 \in Addr
  BY AreaType DEF Components
<1>3. /\ s.bus \in [Addr -> Cells] /\ s.comp \in [Components -> Comps]
      /\ \A a \in Addr : s.bus[a] = NoCell
      /\ \A c \in Components : s.comp[c].mem = NoMem /\ s.comp[c].start = 0 /\ s.comp[c].end = 0
  BY <1>1, <1>2 DEF Cells, Comps, NoCell, NoMem, Nothing, Owning
<1>4. s.heap \in Heaps /\ DOMAIN s.heap = {}
  <2>1. [m \in {} |-> 0] \in [{} -> Nat] /\ {} \in SUBSET Nat
    OBVIOUS
  <2>2. QED
    BY <2>1, <1>1 DEF Heaps
<1>5. s \in Stores
  <2>1. \A b \in [Addr -> Cells], k \in [Components -> Comps], h \in Heaps :
          [bus |-> b, comp |-> k, heap |-> h, fresh |-> 2,
           copied |-> FALSE, wired |-> FALSE, ready |-> {}, failed |-> 0] \in Stores
    BY DEF Stores
  <2>2. QED
    BY <2>1, <1>1, <1>3, <1>4
<1>6. \A c \in Components : ~HasMem(s, c)
  BY <1>3 DEF HasMem
<1>7. Owned(s)
  BY <1>1, <1>4, <1>6 DEF Owned, CpuMem, Freed
<1>8. Paid(s)
  <2>1. Lost(s) = {}
    BY <1>4 DEF Lost
  <2>2. QED
    BY <2>1, <1>1, FS_EmptySet DEF Paid
<1>9. Wires(s)
  <2>1. Pointers(s) /\ Places(s)
    BY <1>3 DEF Pointers, Places
  <2>2. s.comp["ECHO_RAM"].mem = NoMem
    BY <1>3 DEF Components
  <2>3. \A c \in Mirrors : \A a \in Area(c) : a \in Addr
    BY AreaType DEF Mirrors, Components, RAMs
  <2>4. QED
    BY <2>1, <2>2, <2>3, <1>3 DEF Wires, Echoes
<1>10. ReadyAt(s, 1)
  <2>1. Made(1) = {} /\ Plugged(1) = {}
    BY OneByOne DEF Made, Plugged
  <2>2. \A c \in Plain : \A a \in Area(c) : a \in Addr
    BY AreaType DEF Plain
  <2>3. QED
    BY <2>1, <2>2, <1>3, <1>6 DEF ReadyAt, Ready, Freed
<1>11. TypeOK /\ phase = "create" /\ stage = 1
  BY StageNames DEF Init, TypeOK, Phases
<1>12. QED
  BY <1>5, <1>7, <1>8, <1>9, <1>10, <1>11 DEF IInv, Kept, s

\* The actions, one by one.
LEMMA ProceedKeeps == IInv /\ Proceed => IInv'
<1> SUFFICES ASSUME IInv, Proceed PROVE IInv'
  OBVIOUS
<1>1. /\ stage \in 1..18 /\ phase = "create" /\ phase' = "create" /\ stage' = stage + 1
      /\ Good(store) /\ ReadyAt(store, stage)
  BY StageNames DEF IInv, TypeOK, Proceed, Good
<1>2. PICK o \in Call(Stages[stage], store) : o.err = "ERR_NONE" /\ store' = o.st
  BY DEF Proceed
<1>3. Goes(store, stage, o)
  BY <1>1, CallStep
<1>4. Good(store') /\ ReadyAt(store', stage')
  BY <1>1, <1>2, <1>3 DEF Goes
<1>5. TypeOK'
  BY <1>1, StageNames DEF TypeOK, Phases
<1>6. QED
  BY <1>1, <1>4, <1>5 DEF IInv, Good

LEMMA AbandonKeeps == IInv /\ Abandon => IInv'
<1> SUFFICES ASSUME IInv, Abandon PROVE IInv'
  OBVIOUS
<1>1. /\ stage \in 1..18 /\ phase = "create" /\ phase' = "created" /\ stage' = stage
      /\ Good(store) /\ ReadyAt(store, stage)
  BY StageNames DEF IInv, TypeOK, Abandon, Good
<1>2. PICK o \in Call(Stages[stage], store) :
        /\ o.err # "ERR_NONE"
        /\ \E again \in Call(Stages[stage], o.st) : store' = again.st
  BY DEF Abandon
<1>3. PICK again \in Call(Stages[stage], o.st) : store' = again.st
  BY <1>2
<1>4. Good(o.st) /\ ReadyAt(o.st, stage) /\ o.st.failed > 0
  BY <1>1, <1>2, CallStep DEF Goes
<1>5. Goes(o.st, stage, again)
  BY <1>1, <1>4, CallStep
<1>6. Good(store') /\ store'.failed > 0
  <2>1. again.st.failed \in Nat /\ o.st.failed \in Nat
    BY <1>4, <1>5 DEF Goes, Good, Kept, Stores
  <2>2. QED
    BY <2>1, <1>3, <1>4, <1>5 DEF Goes
<1>7. QED
  BY <1>1, <1>6, StageNames DEF IInv, TypeOK, Phases, Good

LEMMA ReturnKeeps == IInv /\ Return => IInv'
<1> SUFFICES ASSUME IInv, Return PROVE IInv'
  OBVIOUS
<1>1. /\ stage = 19 /\ phase = "create" /\ phase' = "created" /\ stage' = stage /\ store' = store
      /\ Good(store) /\ ReadyAt(store, stage)
  BY StageNames DEF IInv, TypeOK, Return, Good
<1>2. store.failed = 0 => Whole(store)
  BY <1>1, AllDone
<1>3. QED
  BY <1>1, <1>2, StageNames DEF IInv, TypeOK, Phases, Good

LEMMA RunKeeps == IInv /\ Run => IInv'
<1> SUFFICES ASSUME IInv, Run PROVE IInv'
  OBVIOUS
<1>1. phase = "created" /\ phase' = "run" /\ stage' = stage /\ store' = store
  BY DEF Run
<1>2. QED
  BY <1>1 DEF IInv, TypeOK, Phases

LEMMA DisableBootRomKeeps == IInv /\ DisableBootRom => IInv'
<1> SUFFICES ASSUME IInv, DisableBootRom PROVE IInv'
  OBVIOUS
<1>1. phase = "run" /\ phase' = "run" /\ stage' = stage /\ Good(store)
  BY DEF IInv, DisableBootRom, Good
<1>2. PICK o \in bootrom_bus_listener(store) : store' = o.st
  BY DEF DisableBootRom
<1>3. Good(store') /\ store'.failed = store.failed /\ (Whole(store) => Whole(store'))
  BY <1>1, <1>2, ListenerStep
<1>4. QED
  BY <1>1, <1>3 DEF IInv, TypeOK, Phases, Good

LEMMA FreeKeeps == IInv /\ Free => IInv'
<1> SUFFICES ASSUME IInv, Free PROVE IInv'
  OBVIOUS
<1>1. phase \in {"created", "run"} /\ phase' = "free" /\ stage' = 1 /\ store' = store
  BY DEF Free
<1>2. Kept(store) /\ Places(store)
  BY <1>1 DEF IInv, Wires
<1>3. QED
  BY <1>1, <1>2, StageNames DEF IInv, TypeOK, Phases

\* The order of gameboy_free, entry by entry.
LEMMA FreeOrderEntries ==
  /\ Len(FreeOrder) = 10
  /\ \A i \in 1..10 : FreeOrder[i] \in Components
  /\ \A c \in Components : \E i \in 1..10 : FreeOrder[i] = c
<1>1. /\ Len(FreeOrder) = 10
      /\ FreeOrder[1] = "VIDEO_RAM" /\ FreeOrder[2] = "EXTERN_RAM" /\ FreeOrder[3] = "WORK_RAM"
      /\ FreeOrder[4] = "GRAPH_RAM" /\ FreeOrder[5] = "USELESS" /\ FreeOrder[6] = "REGISTERS"
      /\ FreeOrder[7] = "ECHO_RAM" /\ FreeOrder[8] = "BOOT_ROM" /\ FreeOrder[9] = "CARTRIDGE"
      /\ FreeOrder[10] = "HIGH_RAM"
  BY DEF FreeOrder
<1>2. \A i \in 1..10 : i = 1 \/ i = 2 \/ i = 3 \/ i = 4 \/ i = 5 \/ i = 6 \/ i = 7 \/ i = 8 \/ i = 9 \/ i = 10
  OBVIOUS
<1>3. \A i \in 1..10 : FreeOrder[i] \in Components
  BY <1>1, <1>2 DEF Components, RAMs
<1>4. \A c \in Components : \E i \in 1..10 : FreeOrder[i] = c
  BY <1>1 DEF Components, RAMs
<1>5. QED
  BY <1>1, <1>3, <1>4

LEMMA FreeNextKeeps == IInv /\ FreeNext => IInv'
<1> SUFFICES ASSUME IInv, FreeNext PROVE IInv'
  OBVIOUS
<1>1. /\ phase = "free" /\ phase' = "free" /\ stage \in 1..10 /\ stage' = stage + 1
      /\ store' = Release(store, FreeOrder[stage]) /\ Kept(store) /\ Places(store)
      /\ \A i \in 1..(stage - 1) : FreeOrder[i] \in Freed => ~HasMem(store, FreeOrder[i])
  BY FreeOrderEntries DEF IInv, TypeOK, FreeNext
<1>2. FreeOrder[stage] \in Components
  BY <1>1, FreeOrderEntries
<1>3. /\ Kept(store') /\ Places(store')
      /\ FreeOrder[stage] \in Freed => ~HasMem(store', FreeOrder[stage])
      /\ \A d \in Freed : ~HasMem(store, d) => ~HasMem(store', d)
  BY <1>1, <1>2, ReleaseStep
<1>4. \A i \in 1..(stage' - 1) : FreeOrder[i] \in Freed => ~HasMem(store', FreeOrder[i])
  <2>1. \A i \in 1..(stage' - 1) : i = stage \/ i \in 1..(stage - 1)
    BY <1>1
  <2>2. QED
    BY <2>1, <1>1, <1>3
<1>5. TypeOK'
  BY <1>1, StageNames DEF TypeOK, Phases
<1>6. QED
  BY <1>1, <1>3, <1>4, <1>5 DEF IInv

LEMMA CpuFreeKeeps == IInv /\ cpu_free => IInv'
<1> SUFFICES ASSUME IInv, cpu_free PROVE IInv'
  OBVIOUS
<1> DEFINE b == [store.bus EXCEPT ![REG_IE] = NoCell, ![REG_IF] = NoCell]
<1>1. /\ phase = "free" /\ phase' = "freed" /\ stage \in Nat /\ stage > 10 /\ stage' = stage
      /\ store' = IF store.wired THEN [store EXCEPT !.bus = b, !.wired = FALSE] ELSE store
      /\ Kept(store) /\ store \in Stores /\ TypeOK
      /\ \A i \in 1..(stage - 1) : FreeOrder[i] \in Freed => ~HasMem(store, FreeOrder[i])
  BY FreeOrderEntries DEF IInv, TypeOK, cpu_free, Kept
<1>2. b \in [Addr -> Cells]
  <2>1. NoCell \in Cells
    BY DEF Cells, NoCell, NoMem
  <2>2. store.bus \in [Addr -> Cells]
    BY <1>1 DEF Stores
  <2>3. QED
    BY <2>1, <2>2
<1> HIDE DEF b
<1>3. /\ store' \in Stores /\ store'.comp = store.comp /\ store'.heap = store.heap
      /\ store'.fresh = store.fresh /\ store'.failed = store.failed
  BY <1>1, <1>2 DEF Stores
<1>4. Kept(store')
  BY <1>1, <1>3 DEF Kept, Owned, Paid, HasMem, Lost, Held
<1>5. \A c \in Freed : ~HasMem(store', c)
  <2>1. TAKE c \in Freed
  <2>2. PICK i \in 1..10 : FreeOrder[i] = c
    BY FreeOrderEntries DEF Freed
  <2>3. i \in 1..(stage - 1)
    BY <1>1
  <2>4. QED
    BY <2>2, <2>3, <1>1, <1>3 DEF HasMem
<1>6. QED
  BY <1>1, <1>4, <1>5 DEF IInv, TypeOK, Phases

\* The invariant is inductive.
LEMMA NextKeeps == IInv /\ [Next]_vars => IInv'
<1> SUFFICES ASSUME IInv, [Next]_vars PROVE IInv'
  OBVIOUS
<1>1. CASE UNCHANGED vars
  BY <1>1 DEF vars, IInv, TypeOK
<1>2. CASE Next
  BY <1>2, ProceedKeeps, AbandonKeeps, ReturnKeeps, RunKeeps, DisableBootRomKeeps, FreeKeeps,
     FreeNextKeeps, CpuFreeKeeps DEF Next
<1>3. QED
  BY <1>1, <1>2

LEMMA AlwaysIInv == Spec => []IInv
BY InitHolds, NextKeeps, PTL DEF Spec

\* EveryAddressLives: when nothing has failed, gameboy_create leaves a pointer to live
\* memory at every address, and bootrom_bus_listener takes none away.
THEOREM EveryAddressHolds == Spec => []EveryAddressLives
<1>1. IInv => EveryAddressLives
  <2> SUFFICES ASSUME IInv, phase = "run", store.failed = 0, NEW a \in Addr
               PROVE  store.bus[a].mem \in Live
    BY DEF EveryAddressLives
  <2>1. store.bus[a] # NoCell
    BY DEF IInv, Whole
  <2>2. store.bus[a] = NoCell \/ store.bus[a].mem \in DOMAIN store.heap \cup {CpuMem}
    BY DEF IInv, Wires, Pointers
  <2>3. QED
    BY <2>1, <2>2 DEF Live
<1>2. QED
  BY <1>1, AlwaysIInv, PTL

\* EchoMirrors: component_shared, the two plugs and everything after them, failures
\* included, keep the echo and the work RAM on the same bytes.
THEOREM EchoHolds == Spec => []EchoMirrors
<1>1. IInv => EchoMirrors
  <2> SUFFICES ASSUME IInv, phase = "run", NEW a \in Start["ECHO_RAM"]..End["ECHO_RAM"],
                      store.bus[a] # NoCell,
                      store.bus[a - Start["ECHO_RAM"] + Start["WORK_RAM"]] # NoCell
               PROVE  store.bus[a] = store.bus[a - Start["ECHO_RAM"] + Start["WORK_RAM"]]
    BY DEF EchoMirrors
  <2> DEFINE w == a - Start["ECHO_RAM"] + Start["WORK_RAM"]
  <2>1. Echoes(store)
    BY DEF IInv, Wires
  <2>2. /\ "ECHO_RAM" \in Components /\ "WORK_RAM" \in Components
        /\ Start["ECHO_RAM"] \in Int /\ End["ECHO_RAM"] \in Int
        /\ Start["WORK_RAM"] \in Int /\ End["WORK_RAM"] \in Int
    BY AreaType DEF Components, RAMs, Addr
  <2>3. a \in Area("ECHO_RAM") /\ w \in Area("WORK_RAM")
        /\ w - Start["WORK_RAM"] = a - Start["ECHO_RAM"]
    BY <2>2, LayoutAssumption DEF Area, SizeOf
  <2>4. store.bus[a] = [mem |-> store.comp["WORK_RAM"].mem, at |-> a - Start["ECHO_RAM"]]
    BY <2>1, <2>3 DEF Echoes, Mirrors
  <2>5. store.bus[w] = [mem |-> store.comp["WORK_RAM"].mem, at |-> w - Start["WORK_RAM"]]
    BY <2>1, <2>3 DEF Echoes, Mirrors
  <2>6. QED
    BY <2>3, <2>4, <2>5
<1>2. QED
  BY <1>1, AlwaysIInv, PTL

\* FreedOnce: gameboy_free frees only what is allocated, wherever gameboy_create stopped.
THEOREM FreedOnceHolds == Spec => []FreedOnce
<1>1. IInv => FreedOnce
  BY DEF IInv, Kept, Owned, HasMem, FreedOnce
<1>2. QED
  BY <1>1, AlwaysIInv, PTL

\* LeaksNeedFailures: what gameboy_free leaves allocated is paid for by failures.
THEOREM LeaksHold == Spec => []LeaksNeedFailures
<1>1. IInv => LeaksNeedFailures
  <2> SUFFICES ASSUME IInv, phase = "freed"
               PROVE  Cardinality(DOMAIN store.heap) <= store.failed
    BY DEF LeaksNeedFailures
  <2>1. /\ store \in Stores /\ Owned(store) /\ Paid(store)
        /\ \A c \in Freed : store.comp[c].mem = NoMem
    BY DEF IInv, Kept, HasMem
  <2>2. NoMem \notin DOMAIN store.heap
    BY <2>1 DEF Owned, NoMem, CpuMem, Stores
  <2>3. Lost(store) = DOMAIN store.heap
    BY <2>1, <2>2 DEF Lost, Held
  <2>4. QED
    BY <2>1, <2>3 DEF Paid
<1>2. QED
  BY <1>1, AlwaysIInv, PTL
================================================================================
