------------------------------ MODULE TimerProofs ------------------------------
(***************************************************************************)
(* Proofs about Timer, for every width of the counter and of the bytes.    *)
(*                                                                         *)
(* TypeOK is inductive by itself; DivShowsCounter follows from timer_cycle *)
(* alone, which writes DIV after the counter has moved.  That edges of a   *)
(* bit count periods is a matter of quotients and remainders: the selected *)
(* bit is up in the second half of its period (BitIsHalf), and a cycle     *)
(* advances the phase by one, through the wrap of the counter too          *)
(* (PhaseAdvances).                                                        *)
(***************************************************************************)
EXTENDS Timer, Simulator, TLAPS

\* A byte of the counter is a byte: msb8 truncates.
LEMMA Msb8Type ==
  ASSUME NEW c \in Nat
  PROVE  msb8(c) \in Byte
<1>1. c \div DivUnit \in Int
  BY TimerAssumption
<1>2. QED
  BY <1>1, TimerAssumption DEF msb8, Byte

\* What timer_incr_if_state_change does to memory, IF and the listener, whatever
\* the state of the timer was: it changes no register but TIMA.
LEMMA IncrEffect ==
  ASSUME NEW old, NEW c, NEW m \in [TimerRegs -> Byte], NEW from,
         IFR \in SUBSET INTERRUPTS,
         timer_incr_if_state_change(old, c, m, from)
  PROVE  /\ mem' \in [TimerRegs -> Byte]
         /\ \A r \in TimerRegs \ {REG_TIMA} : mem'[r] = m[r]
         /\ IFR' \in SUBSET INTERRUPTS /\ IFR \subseteq IFR'
         /\ write_listener' \in {from, REG_TIMA}
<1> USE TimerAssumption DEF TimerRegs, REG_DIV, REG_TIMA, REG_TMA, REG_TAC, Byte
<1> DEFINE falling == old /\ ~timer_state(c, m)
<1>1. CASE ~falling
  BY <1>1 DEF timer_incr_if_state_change
<1>2. CASE falling /\ m[REG_TIMA] = ByteMax
  <2>1. mem' = [m EXCEPT ![REG_TIMA] = m[REG_TMA]] /\ IFR' = IFR \cup {TIMER}
        /\ write_listener' = REG_TIMA
    BY <1>2 DEF timer_incr_if_state_change
  <2>2. QED
    BY <2>1
<1>3. CASE falling /\ m[REG_TIMA] # ByteMax
  <2>1. mem' = [m EXCEPT ![REG_TIMA] = @ + 1] /\ IFR' = IFR /\ write_listener' = REG_TIMA
    BY <1>3 DEF timer_incr_if_state_change
  <2>2. m[REG_TIMA] + 1 \in Byte
    BY <1>3
  <2>3. QED
    BY <2>1, <2>2
<1>4. QED
  BY <1>1, <1>2, <1>3

-------------------------------------------------------------------------------
\* One step keeps the types, and gives DIV the counter's high byte before cpu_cycle.
IInv == TypeOK /\ DivShowsCounter

LEMMA InitIInv == Init => IInv
BY TimerAssumption DEF Init, IInv, TypeOK, DivShowsCounter, TimerRegs, REG_DIV, REG_TAC, Byte,
                       NoAddress

LEMMA NextIInv == IInv /\ [Next]_vars => IInv'
<1> SUFFICES ASSUME IInv, [Next]_vars
             PROVE  IInv'
  OBVIOUS
<1> USE TimerAssumption
<1>1. CASE TimerStep
  <2> DEFINE c == (counter + IncCycle) % CounterMod
             m == [mem EXCEPT ![REG_DIV] = msb8(c)]
  <2>1. c \in 0..(CounterMod - 1) /\ c \in Nat
    BY DEF IInv, TypeOK
  <2>2. msb8(c) \in Byte
    BY <2>1, Msb8Type
  <2>3. m \in [TimerRegs -> Byte] /\ m[REG_DIV] = msb8(c)
    BY <2>2 DEF IInv, TypeOK, TimerRegs, REG_DIV, REG_TAC
  <2>4. counter' = c
        /\ timer_incr_if_state_change(timer_state(counter, mem), c, m, REG_DIV)
    BY <1>1 DEF TimerStep, timer_cycle
  <2> HIDE DEF c, m
  <2>5. /\ mem' \in [TimerRegs -> Byte] /\ mem'[REG_DIV] = m[REG_DIV]
        /\ IFR' \in SUBSET INTERRUPTS /\ write_listener' \in {REG_DIV, REG_TIMA}
    <3>1. /\ mem' \in [TimerRegs -> Byte]
          /\ \A r \in TimerRegs \ {REG_TIMA} : mem'[r] = m[r]
          /\ IFR' \in SUBSET INTERRUPTS
          /\ write_listener' \in {REG_DIV, REG_TIMA}
      BY <2>3, <2>4, IncrEffect DEF IInv, TypeOK
    <3>2. REG_DIV \in TimerRegs \ {REG_TIMA}
      BY DEF TimerRegs, REG_DIV, REG_TIMA, REG_TAC
    <3>3. QED
      BY <3>1, <3>2
  <2>6. QED
    BY <1>1, <2>1, <2>3, <2>4, <2>5
       DEF IInv, TypeOK, DivShowsCounter, TimerStep, REG_DIV, REG_TIMA, REG_TAC
<1>2. CASE CpuStep
  <2>1. phase' = "timer_bus_listener" /\ counter' = counter
    BY <1>2 DEF CpuStep
  <2>2. CASE CpuElsewhere
    BY <2>1, <2>2 DEF CpuElsewhere, IInv, TypeOK, DivShowsCounter
  <2>3. ASSUME NEW r \in TimerRegs, NEW v \in WriteValues[r], CpuWrite(r, v)
        PROVE  IInv'
    <3>1. v \in Byte
      OBVIOUS
    <3>2. QED
      BY <2>1, <2>3, <3>1
         DEF CpuWrite, IInv, TypeOK, DivShowsCounter, TimerRegs, REG_DIV, REG_TAC
  <2>4. ASSUME NEW a \in (REG_DIV - 1)..REG_TAC,
               NEW lo \in ValuesAt(a), NEW hi \in ValuesAt(a + 1), CpuWrite16(a, lo, hi)
        PROVE  IInv'
    <3>1. lo \in Byte /\ hi \in Byte
      BY DEF ValuesAt, Byte
    <3>2. QED
      BY <2>1, <2>4, <3>1
         DEF CpuWrite16, IInv, TypeOK, DivShowsCounter
  <2>5. QED
    BY <1>2, <2>2, <2>3, <2>4 DEF CpuStep
<1>3. CASE ListenerStep
  <2>1. phase' = "timer_cycle" /\ timer_bus_listener(write_listener)
    BY <1>3 DEF ListenerStep
  <2>2. /\ counter' \in {0, counter} /\ mem' \in [TimerRegs -> Byte]
        /\ IFR' \in SUBSET INTERRUPTS /\ write_listener' \in {write_listener, REG_TIMA}
    <3>1. CASE write_listener = REG_DIV
      <4>1. timer_incr_if_state_change(timer_state(counter, mem), 0, mem, write_listener)
            /\ counter' = 0
        BY <2>1, <3>1 DEF timer_bus_listener, REG_DIV, REG_TAC
      <4>2. QED
        BY <4>1, IncrEffect DEF IInv, TypeOK
    <3>2. CASE write_listener = REG_TAC
      <4>1. timer_incr_if_state_change(timer_state(counter, mem), counter, mem, write_listener)
            /\ counter' = counter
        BY <2>1, <3>2 DEF timer_bus_listener, REG_DIV, REG_TAC
      <4>2. QED
        BY <4>1, IncrEffect DEF IInv, TypeOK
    <3>3. CASE write_listener \notin {REG_DIV, REG_TAC}
      BY <2>1, <3>3 DEF timer_bus_listener, IInv, TypeOK
    <3>4. QED
      BY <3>1, <3>2, <3>3
  <2>3. QED
    BY <2>1, <2>2 DEF IInv, TypeOK, DivShowsCounter, REG_DIV, REG_TIMA, REG_TAC
<1>4. CASE UNCHANGED vars
  BY <1>4 DEF vars, IInv, TypeOK, DivShowsCounter, msb8
<1>5. QED
  BY <1>1, <1>2, <1>3, <1>4 DEF Next

\* The state of the timer keeps its types: the counter its width, the registers
\* their bytes, IF only the interrupts there are.
THEOREM TypeCorrect == Spec => []TypeOK
<1>1. Spec => []IInv
  BY InitIInv, NextIInv, PTL DEF Spec
<1>2. IInv => TypeOK
  BY DEF IInv
<1>3. QED
  BY <1>1, <1>2, PTL

\* Whenever the CPU runs, DIV is the high byte of the counter, for every width.
THEOREM DivIsCounter == Spec => []DivShowsCounter
<1>1. Spec => []IInv
  BY InitIInv, NextIInv, PTL DEF Spec
<1>2. IInv => DivShowsCounter
  BY DEF IInv
<1>3. QED
  BY <1>1, <1>2, PTL

-------------------------------------------------------------------------------
(* Counting machine cycles *)

LEMMA Multiples ==
  ASSUME NEW d \in Nat \ {0}, NEW a \in Int, NEW b \in Int, a < b
  PROVE  d * a + d <= d * b
<1>1. PICK k \in Nat : b = a + 1 + k
  <2>1. b - a - 1 \in Nat /\ b = a + 1 + (b - a - 1)
    OBVIOUS
  <2>2. QED
    BY <2>1
<1>2. d * b = d * a + d + d * k
  BY <1>1, SMT
<1>3. d * k \in Nat /\ d * a \in Int
  BY SMT
<1>4. QED
  BY <1>2, <1>3

LEMMA Euclid ==
  ASSUME NEW n \in Nat, NEW d \in Nat \ {0}
  PROVE  /\ n \div d \in Nat /\ n % d \in 0..(d - 1)
         /\ n = d * (n \div d) + (n % d)
  BY SMT

\* Quotient and remainder are the only numbers of their kind.
LEMMA Unique ==
  ASSUME NEW d \in Nat \ {0}, NEW q \in Nat, NEW r \in 0..(d - 1)
  PROVE  (d * q + r) \div d = q /\ (d * q + r) % d = r
<1> DEFINE n == d * q + r
           k == n \div d
           m == n % d
<1>i. n \in Nat /\ d * q \in Nat
  BY SMT
<1>1. k \in Nat /\ m \in 0..(d - 1) /\ n = d * k + m /\ d * k \in Nat
  BY <1>i, SMT
<1>n. n = d * q + r
  OBVIOUS
<1> HIDE DEF n, k, m
<1>2. CASE k < q
  <2>1. d * k + d <= d * q
    BY <1>1, <1>2, Multiples
  <2>2. QED
    BY <2>1, <1>1, <1>i, <1>n
<1>3. CASE q < k
  <2>1. d * q + d <= d * k
    BY <1>1, <1>3, Multiples
  <2>2. QED
    BY <2>1, <1>1, <1>i, <1>n
<1>4. CASE k = q
  <2>1. m = r
    BY <1>1, <1>4, <1>i, <1>n
  <2>2. QED
    BY <1>4, <2>1 DEF k, m, n
<1>5. QED
  BY <1>1, <1>2, <1>3, <1>4

LEMMA Quotient ==
  ASSUME NEW d \in Nat \ {0}, NEW n \in Nat, n % d = 0
  PROVE  n \div d \in Nat /\ n = d * (n \div d)
<1> DEFINE q == n \div d
<1>1. q \in Nat /\ n = d * q + (n % d)
  BY Euclid
<1> HIDE DEF q
<1>2. d * q \in Nat
  BY <1>1, SMT
<1>3. n = d * q
  BY <1>1, <1>2
<1>4. QED
  BY <1>1, <1>3 DEF q

\* The selected bit is up in the second half of each period of 2 * w cycles.
LEMMA BitIsHalf ==
  ASSUME NEW inc \in Nat \ {0}, NEW w \in Nat \ {0}, NEW a \in Nat
  PROVE  bit_get(inc * a, inc * w) <=> a % (2 * w) >= w
<1> DEFINE q == a \div (2 * w)
           r == a % (2 * w)
           d == inc * w
<1>1. 2 * w \in Nat \ {0} /\ d \in Nat \ {0}
  BY SMT
<1>2. q \in Nat /\ r \in 0..(2 * w - 1) /\ a = (2 * w) * q + r
  BY <1>1, Euclid
<1>d. d = inc * w
  OBVIOUS
<1> HIDE DEF q, r, d
<1>3. ASSUME NEW h \in 0..1, NEW x \in 0..(w - 1), r = w * h + x
      PROVE  (inc * a) \div d = 2 * q + h
  <2>1. inc * x + inc <= d /\ inc * x \in Nat
    BY <1>d, Multiples, SMT
  <2>2. inc * x \in 0..(d - 1)
    BY <2>1, <1>1
  <2>3. a = w * (2 * q + h) + x
    <3>1. w * (2 * q + h) = (2 * w) * q + w * h
      BY <1>2, SMT
    <3>2. (2 * w) * q \in Nat /\ w * h \in Nat
      BY <1>2, SMT
    <3>3. QED
      BY <3>1, <3>2, <1>2, <1>3
  <2> DEFINE n == 2 * q + h
  <2>4. n \in Nat
    BY <1>2
  <2> HIDE DEF n
  <2>5. inc * (w * n + x) = d * n + inc * x
    <3>1. inc * (w * n + x) = inc * (w * n) + inc * x
      BY <2>4, SMT
    <3>2. inc * (w * n) = (inc * w) * n
      BY <2>4, SMT
    <3>3. QED
      BY <3>1, <3>2, <1>d
  <2>6. (d * n + inc * x) \div d = n
    BY <1>1, <2>2, <2>4, Unique
  <2>7. QED
    BY <2>3, <2>5, <2>6 DEF n
<1>4. CASE r < w
  <2>1. r \in 0..(w - 1) /\ r = w * 0 + r
    BY <1>2, <1>4
  <2>2. (inc * a) \div d = 2 * q + 0
    <3> DEFINE h == 0
               x == r
    <3>1. h \in 0..1 /\ x \in 0..(w - 1) /\ r = w * h + x
      BY <2>1
    <3> HIDE DEF h, x
    <3>2. (inc * a) \div d = 2 * q + h
      BY <3>1, <1>3
    <3>3. QED
      BY <3>2 DEF h
  <2>3. (2 * q + 0) % 2 = 0
    BY <1>2
  <2>4. QED
    BY <2>2, <2>3, <1>4, <1>2 DEF bit_get, d, r
<1>5. CASE ~(r < w)
  <2>1. r - w \in 0..(w - 1) /\ r = w * 1 + (r - w)
    BY <1>2, <1>5
  <2>2. (inc * a) \div d = 2 * q + 1
    <3> DEFINE h == 1
               x == (r - w)
    <3>1. h \in 0..1 /\ x \in 0..(w - 1) /\ r = w * h + x
      BY <2>1
    <3> HIDE DEF h, x
    <3>2. (inc * a) \div d = 2 * q + h
      BY <3>1, <1>3
    <3>3. QED
      BY <3>2 DEF h
  <2>3. (2 * q + 1) % 2 = 1
    BY <1>2
  <2>4. QED
    BY <2>2, <2>3, <1>5, <1>2 DEF bit_get, d, r
<1>6. QED
  BY <1>4, <1>5

LEMMA Successor ==
  ASSUME NEW d \in Nat \ {0}, NEW a \in Nat
  PROVE  (a + 1) % d = IF (a % d) + 1 = d THEN 0 ELSE (a % d) + 1
<1> DEFINE q == a \div d
           r == a % d
<1>1. q \in Nat /\ r \in 0..(d - 1) /\ a = d * q + r
  BY Euclid
<1> HIDE DEF q, r
<1>2. d * q \in Nat /\ d * (q + 1) = d * q + d
  BY <1>1, SMT
<1>3. CASE r + 1 = d
  <2>1. a + 1 = d * (q + 1) + 0 /\ 0 \in 0..(d - 1)
    BY <1>1, <1>2, <1>3
  <2>2. (d * (q + 1) + 0) % d = 0
    BY <1>1, Unique
  <2>3. QED
    BY <2>1, <2>2, <1>3 DEF r
<1>4. CASE r + 1 # d
  <2> DEFINE x == r + 1
  <2>1. a + 1 = d * q + x /\ x \in 0..(d - 1)
    BY <1>1, <1>2, <1>4
  <2> HIDE DEF x
  <2>2. (d * q + x) % d = x
    BY <1>1, <2>1, Unique
  <2>3. (a + 1) % d = x
    BY <2>1, <2>2
  <2>4. QED
    BY <2>3, <1>4 DEF r, x
<1>5. QED
  BY <1>3, <1>4

\* A counter that wraps after whole periods keeps their phase.
LEMMA PhaseAdvances ==
  ASSUME NEW p \in Nat \ {0}, NEW wrap \in Nat \ {0}, wrap % p = 0, NEW a \in 0..(wrap - 1)
  PROVE  ((a + 1) % wrap) % p = IF (a % p) + 1 = p THEN 0 ELSE (a % p) + 1
<1>0. a \in Nat
  OBVIOUS
<1>1. a % wrap = a
  <2>1. (wrap * 0 + a) % wrap = a /\ wrap * 0 + a = a
    BY <1>0, Unique
  <2>2. QED
    BY <2>1
<1>2. (a + 1) % wrap = IF a + 1 = wrap THEN 0 ELSE a + 1
  <2>1. (a + 1) % wrap = IF (a % wrap) + 1 = wrap THEN 0 ELSE (a % wrap) + 1
    BY <1>0, Successor
  <2>2. QED
    BY <1>1, <2>1
<1>3. (a + 1) % p = IF (a % p) + 1 = p THEN 0 ELSE (a % p) + 1
  BY <1>0, Successor
<1>4. 0 % p = 0
  <2>1. 0 \in 0..(p - 1) /\ p * 0 + 0 = 0
    OBVIOUS
  <2>2. (p * 0 + 0) % p = 0
    BY <2>1, Unique
  <2>3. QED
    BY <2>1, <2>2
<1>5. CASE a + 1 = wrap
  BY <1>2, <1>3, <1>4, <1>5
<1>6. CASE a + 1 # wrap
  BY <1>2, <1>3, <1>6
<1>7. QED
  BY <1>5, <1>6

-------------------------------------------------------------------------------
(* The edge detector implements TimerClock *)

Wrap == CounterMod \div IncCycle

\* The counter holds whole machine cycles.
Aligned == counter % IncCycle = 0
RInv == IInv /\ Aligned

LEMMA Widths ==
  /\ IncCycle \in Nat \ {0} /\ Wrap \in Nat \ {0} /\ CounterMod = IncCycle * Wrap
  /\ \A s \in 0..3 : \E w \in Nat \ {0} :
       TacWeight[s] = IncCycle * w /\ Period(s) = 2 * w /\ Wrap % (2 * w) = 0
<1>1. /\ IncCycle \in Nat \ {0} /\ CounterMod \in Nat \ {0}
      /\ TacWeight \in [0..3 -> Nat \ {0}]
  BY TimerAssumption
<1>2. Wrap \in Nat /\ CounterMod = IncCycle * Wrap
  BY <1>1, PeriodsFit, Quotient DEF Wrap
<1>3. Wrap # 0
  BY <1>1, <1>2
<1>4. ASSUME NEW s \in 0..3
      PROVE  \E w \in Nat \ {0} :
               TacWeight[s] = IncCycle * w /\ Period(s) = 2 * w /\ Wrap % (2 * w) = 0
  <2> DEFINE t == TacWeight[s]
             w == t \div IncCycle
             n == CounterMod \div (2 * t)
  <2>1. t \in Nat \ {0} /\ 2 * t \in Nat \ {0} /\ t % IncCycle = 0 /\ CounterMod % (2 * t) = 0
    BY <1>1, PeriodsFit
  <2>p. Period(s) = (2 * t) \div IncCycle
    BY DEF Period
  <2>t. t = TacWeight[s]
    OBVIOUS
  <2> HIDE DEF t
  <2>2. w \in Nat /\ t = IncCycle * w
    BY <1>1, <2>1, Quotient
  <2>3. n \in Nat /\ CounterMod = (2 * t) * n
    BY <1>1, <2>1, Quotient
  <2> HIDE DEF w, n
  <2>4. w # 0 /\ n # 0
    BY <1>1, <2>1, <2>2, <2>3
  <2>5. Period(s) = 2 * w
    <3>1. 2 * t = IncCycle * (2 * w) + 0
      BY <1>1, <2>2, SMT
    <3>2. (IncCycle * (2 * w) + 0) \div IncCycle = 2 * w
      BY <1>1, <2>2, Unique
    <3>3. QED
      BY <3>1, <3>2, <2>p
  <2>6. Wrap = (2 * w) * n
    <3> DEFINE k == (2 * w) * n
    <3>1. k \in Nat
      BY <2>2, <2>3, SMT
    <3>2. CounterMod = IncCycle * k
      BY <1>1, <2>2, <2>3, SMT
    <3> HIDE DEF k
    <3>3. (IncCycle * k + 0) \div IncCycle = k
      BY <1>1, <3>1, Unique
    <3>4. IncCycle * k \in Nat
      BY <1>1, <3>1, SMT
    <3>5. Wrap = k
      BY <3>2, <3>3, <3>4 DEF Wrap
    <3>6. QED
      BY <3>5 DEF k
  <2>7. Wrap % (2 * w) = 0
    <3> DEFINE p == 2 * w
    <3>1. p \in Nat \ {0}
      BY <2>2, <2>4
    <3>p. Wrap = p * n
      BY <2>6
    <3> HIDE DEF p
    <3>0. 0 \in 0..(p - 1)
      BY <3>1
    <3>2. (p * n + 0) % p = 0
      BY <3>0, <3>1, <2>3, Unique
    <3>3. p * n + 0 = Wrap
      BY <3>p, <1>2
    <3>4. QED
      BY <3>2, <3>3 DEF p
  <2>8. QED
    BY <2>2, <2>4, <2>5, <2>7, <2>t
<1>5. QED
  BY <1>1, <1>2, <1>3, <1>4

\* timer_cycle is one more machine cycle.
LEMMA CycleIsTick ==
  ASSUME RInv
  PROVE  LET c == (counter + IncCycle) % CounterMod
             b == (Age + 1) % Wrap
         IN  /\ Age \in 0..(Wrap - 1) /\ counter = IncCycle * Age
             /\ b \in 0..(Wrap - 1) /\ c = IncCycle * b
             /\ c % IncCycle = 0 /\ c \div IncCycle = b
<1> DEFINE c == (counter + IncCycle) % CounterMod
           b == (Age + 1) % Wrap
           k == (Age + 1) \div Wrap
<1>1. /\ IncCycle \in Nat \ {0} /\ Wrap \in Nat \ {0} /\ CounterMod = IncCycle * Wrap
      /\ CounterMod \in Nat \ {0}
  BY Widths, TimerAssumption
<1>2. counter \in 0..(CounterMod - 1) /\ counter % IncCycle = 0
  BY DEF RInv, IInv, TypeOK, Aligned
<1>3. Age \in Nat /\ counter = IncCycle * Age
  BY <1>1, <1>2, Quotient DEF Age
<1>4. Age < Wrap
  <2>1. CASE Wrap < Age
    <3>1. IncCycle * Wrap + IncCycle <= IncCycle * Age
      BY <2>1, <1>1, <1>3, Multiples
    <3>2. QED
      BY <3>1, <1>1, <1>2, <1>3
  <2>2. CASE Wrap = Age
    BY <2>2, <1>1, <1>2, <1>3
  <2>3. QED
    BY <2>1, <2>2, <1>1, <1>3
<1>5. k \in Nat /\ b \in 0..(Wrap - 1) /\ Age + 1 = Wrap * k + b
  <2> DEFINE x == Age + 1
  <2>1. x \in Nat
    BY <1>3
  <2> HIDE DEF x
  <2>2. x \div Wrap \in Nat /\ x % Wrap \in 0..(Wrap - 1) /\ x = Wrap * (x \div Wrap) + (x % Wrap)
    BY <1>1, <2>1, Euclid
  <2>3. QED
    BY <2>2 DEF x
<1>c. c = (counter + IncCycle) % CounterMod
  OBVIOUS
<1> HIDE DEF c, b, k
<1>6. IncCycle * b \in 0..(CounterMod - 1)
  <2>1. IncCycle * b + IncCycle <= IncCycle * Wrap /\ IncCycle * b \in Nat
    BY <1>1, <1>5, Multiples, SMT
  <2>2. QED
    BY <2>1, <1>1
<1>7. counter + IncCycle = CounterMod * k + IncCycle * b
  <2>1. counter + IncCycle = IncCycle * (Age + 1)
    BY <1>1, <1>3, SMT
  <2>2. IncCycle * (Wrap * k + b) = IncCycle * (Wrap * k) + IncCycle * b
    BY <1>1, <1>5, SMT
  <2>3. IncCycle * (Wrap * k) = (IncCycle * Wrap) * k
    BY <1>1, <1>5, SMT
  <2>4. QED
    BY <2>1, <2>2, <2>3, <1>1, <1>5
<1>8. c = IncCycle * b
  <2> DEFINE x == IncCycle * b
  <2>1. x \in 0..(CounterMod - 1) /\ c = (CounterMod * k + x) % CounterMod
    BY <1>c, <1>6, <1>7
  <2> HIDE DEF x
  <2>2. (CounterMod * k + x) % CounterMod = x
    BY <1>1, <1>5, <2>1, Unique
  <2>3. QED
    BY <2>1, <2>2 DEF x
<1>9. (IncCycle * b + 0) % IncCycle = 0 /\ (IncCycle * b + 0) \div IncCycle = b
  BY <1>1, <1>5, Unique
<1>10. IncCycle * b + 0 = IncCycle * b
  BY <1>6
<1>11. QED
  BY <1>3, <1>4, <1>5, <1>8, <1>9, <1>10, <1>1 DEF c, b

\* What TAC selects: nothing, or a period and its half.
LEMMA Selected ==
  ASSUME RInv, NEW m, m[REG_TAC] = mem[REG_TAC]
  PROVE  \/ Rate = 0 /\ \A c : ~timer_state(c, m)
         \/ \E w \in Nat \ {0} :
              /\ Rate = 2 * w /\ Wrap % (2 * w) = 0
              /\ \A a \in Nat : timer_state(IncCycle * a, m) <=> a % (2 * w) >= w
<1> DEFINE s == mem[REG_TAC] % 4
<1>1. s \in 0..3
  BY DEF RInv, IInv, TypeOK, Byte, TimerRegs, REG_TAC, REG_DIV
<1>2. CASE ~bit_get(mem[REG_TAC], 4)
  BY <1>2 DEF Rate, timer_state
<1>3. CASE bit_get(mem[REG_TAC], 4)
  <2>1. Rate = Period(s) /\ \A c : timer_state(c, m) <=> bit_get(c, TacWeight[s])
    BY <1>3 DEF Rate, timer_state
  <2> HIDE DEF s
  <2>2. PICK w \in Nat \ {0} :
          TacWeight[s] = IncCycle * w /\ Period(s) = 2 * w /\ Wrap % (2 * w) = 0
    BY <1>1, Widths
  <2>3. \A a \in Nat : timer_state(IncCycle * a, m) <=> a % (2 * w) >= w
    <3> SUFFICES ASSUME NEW a \in Nat
                 PROVE  timer_state(IncCycle * a, m) <=> a % (2 * w) >= w
      OBVIOUS
    <3>1. bit_get(IncCycle * a, IncCycle * w) <=> a % (2 * w) >= w
      BY BitIsHalf, Widths
    <3>2. QED
      BY <2>1, <2>2, <3>1
  <2>4. QED
    BY <2>1, <2>2, <2>3
<1>4. QED
  BY <1>2, <1>3

\* A falling edge in timer_cycle is the end of a period.
LEMMA EdgeCompletes ==
  ASSUME RInv, NEW m, m[REG_TAC] = mem[REG_TAC], NEW c, c = (counter + IncCycle) % CounterMod
  PROVE  (timer_state(counter, mem) /\ ~timer_state(c, m))
           <=> (Rate # 0 /\ ((Age + 1) % Wrap) % Rate = 0)
<1> DEFINE b == (Age + 1) % Wrap
<1>1. Age \in 0..(Wrap - 1) /\ counter = IncCycle * Age /\ b \in 0..(Wrap - 1) /\ c = IncCycle * b
  BY CycleIsTick
<1>b. b = (Age + 1) % Wrap
  OBVIOUS
<1> HIDE DEF b
<1>2. CASE Rate = 0 /\ \A x : ~timer_state(x, m)
  <2>1. \A x : timer_state(x, m) <=> timer_state(x, mem)
    BY DEF timer_state
  <2>2. QED
    BY <1>2, <2>1
<1>3. CASE \E w \in Nat \ {0} :
             /\ Rate = 2 * w /\ Wrap % (2 * w) = 0
             /\ \A a \in Nat : timer_state(IncCycle * a, m) <=> a % (2 * w) >= w
  <2>1. PICK w \in Nat \ {0} :
             /\ Rate = 2 * w /\ Wrap % (2 * w) = 0
             /\ \A a \in Nat : timer_state(IncCycle * a, m) <=> a % (2 * w) >= w
    BY <1>3
  <2>2. \A x : timer_state(x, m) <=> timer_state(x, mem)
    BY DEF timer_state
  <2>3. Age \in Nat /\ b \in Nat /\ Wrap \in Nat
    BY <1>1, Widths
  <2>4. /\ timer_state(counter, mem) <=> Age % (2 * w) >= w
        /\ timer_state(c, m) <=> b % (2 * w) >= w
    BY <1>1, <2>1, <2>2, <2>3
  <2>5. (Age % (2 * w) >= w /\ ~(b % (2 * w) >= w)) <=> b % (2 * w) = 0
    <3> DEFINE p == 2 * w
               x == Age % p
               y == b % p
    <3>1. p \in Nat \ {0} /\ p = 2 * w /\ Wrap % p = 0
      BY <2>1
    <3> HIDE DEF p
    <3>2. y = IF x + 1 = p THEN 0 ELSE x + 1
      <4>1. \A a \in 0..(Wrap - 1) :
              ((a + 1) % Wrap) % p = IF (a % p) + 1 = p THEN 0 ELSE (a % p) + 1
        BY <3>1, Widths, PhaseAdvances
      <4>2. QED
        BY <4>1, <1>1, <1>b
    <3>3. x \in 0..(p - 1)
      BY <3>1, <2>3, Euclid
    <3> HIDE DEF x, y
    <3>4. (x >= w /\ ~(y >= w)) <=> y = 0
      BY <3>1, <3>2, <3>3
    <3>5. QED
      BY <3>4 DEF p, x, y
  <2>6. 2 * w # 0
    OBVIOUS
  <2>7. QED
    BY <2>1, <2>4, <2>5, <2>6 DEF b
<1>4. QED
  BY <1>2, <1>3, Selected

\* A restart of the divider rounds the period under way.
LEMMA EdgeRounds ==
  ASSUME RInv
  PROVE  (timer_state(counter, mem) /\ ~timer_state(0, mem))
           <=> (Rate # 0 /\ 2 * (Age % Rate) >= Rate)
<1>1. Age \in Nat /\ counter = IncCycle * Age /\ IncCycle * 0 = 0
  BY CycleIsTick, Widths
<1>2. CASE Rate = 0 /\ \A x : ~timer_state(x, mem)
  BY <1>2
<1>3. CASE \E w \in Nat \ {0} :
             /\ Rate = 2 * w /\ Wrap % (2 * w) = 0
             /\ \A a \in Nat : timer_state(IncCycle * a, mem) <=> a % (2 * w) >= w
  <2>1. PICK w \in Nat \ {0} :
             /\ Rate = 2 * w /\ Wrap % (2 * w) = 0
             /\ \A a \in Nat : timer_state(IncCycle * a, mem) <=> a % (2 * w) >= w
    BY <1>3
  <2>2. timer_state(counter, mem) <=> Age % (2 * w) >= w
    BY <1>1, <2>1
  <2>3. timer_state(0, mem) <=> 0 % (2 * w) >= w
    BY <1>1, <2>1
  <2>4. 0 % (2 * w) = 0
    <3> DEFINE p == 2 * w
    <3>1. p \in Nat \ {0}
      OBVIOUS
    <3> HIDE DEF p
    <3>2. p * 0 + 0 = 0 /\ (p * 0 + 0) % p = 0
      BY <3>1, Unique
    <3>3. QED
      BY <3>2 DEF p
  <2>5. Age % (2 * w) \in Int
    BY <1>1
  <2>6. QED
    BY <2>1, <2>2, <2>3, <2>4, <2>5
<1>4. QED
  BY <1>2, <1>3, Selected

LEMMA IncrIsAdvance ==
  ASSUME IInv, NEW old, NEW c, NEW m \in [TimerRegs -> Byte], NEW from,
         \A r \in TimerRegs \ {REG_DIV} : m[r] = mem[r],
         timer_incr_if_state_change(old, c, m, from)
  PROVE  /\ IF old /\ ~timer_state(c, m) THEN Clock!Advance ELSE Clock!Stay
         /\ mem'[REG_TMA] = mem[REG_TMA] /\ mem'[REG_TAC] = mem[REG_TAC]
<1> DEFINE falling == old /\ ~timer_state(c, m)
<1>1. /\ REG_TIMA \in TimerRegs \ {REG_DIV} /\ REG_TMA \in TimerRegs \ {REG_DIV}
      /\ REG_TAC \in TimerRegs \ {REG_DIV}
      /\ REG_TIMA # REG_TMA /\ REG_TIMA # REG_TAC
  BY DEF TimerRegs, REG_DIV, REG_TIMA, REG_TMA, REG_TAC
<1>2. CASE ~falling
  <2>1. mem' = m /\ IFR' = IFR
    BY <1>2 DEF timer_incr_if_state_change
  <2>2. Clock!Stay
    BY <2>1, <1>1 DEF Clock!Stay
  <2>3. QED
    BY <1>1, <1>2, <2>1, <2>2
<1>3. CASE falling
  <2>1. /\ mem' = [m EXCEPT ![REG_TIMA] =
                     IF mem[REG_TIMA] = ByteMax THEN mem[REG_TMA] ELSE mem[REG_TIMA] + 1]
        /\ IFR' = IF mem[REG_TIMA] = ByteMax THEN IFR \cup {TIMER} ELSE IFR
    BY <1>1, <1>3 DEF timer_incr_if_state_change
  <2>2. /\ mem'[REG_TIMA] = IF mem[REG_TIMA] = ByteMax THEN mem[REG_TMA] ELSE mem[REG_TIMA] + 1
        /\ mem'[REG_TMA] = mem[REG_TMA] /\ mem'[REG_TAC] = mem[REG_TAC]
    BY <2>1, <1>1
  <2>3. (TIMER \in IFR') = (TIMER \in IFR \/ mem[REG_TIMA] = ByteMax)
    BY <2>1
  <2>4. Clock!Advance
    BY <2>2, <2>3 DEF Clock!Advance
  <2>5. QED
    BY <1>3, <2>2, <2>4
<1>4. QED
  BY <1>2, <1>3

\* Every step keeps the counter at whole machine cycles, and is one of TimerClock.
LEMMA TimerStepIsTick ==
  ASSUME RInv, TimerStep
  PROVE  Clock!Tick /\ Aligned'
<1> DEFINE c == (counter + IncCycle) % CounterMod
           m == [mem EXCEPT ![REG_DIV] = msb8(c)]
<1>0. /\ mem \in [TimerRegs -> Byte] /\ IInv
      /\ REG_DIV \in TimerRegs /\ REG_TAC \in TimerRegs \ {REG_DIV}
  BY DEF RInv, IInv, TypeOK, TimerRegs, REG_DIV, REG_TAC
<1>1. /\ phase = "timer_cycle" /\ phase' = "cpu_cycle" /\ counter' = c
      /\ timer_incr_if_state_change(timer_state(counter, mem), c, m, REG_DIV)
  BY DEF TimerStep, timer_cycle
<1>2. c % IncCycle = 0 /\ c \div IncCycle = (Age + 1) % Wrap /\ c \in Nat
  <2>1. c % IncCycle = 0 /\ c \div IncCycle = (Age + 1) % Wrap
    BY CycleIsTick
  <2>2. c \in Nat
    BY TimerAssumption DEF RInv, IInv, TypeOK
  <2>3. QED
    BY <2>1, <2>2
<1>3. m \in [TimerRegs -> Byte] /\ \A r \in TimerRegs \ {REG_DIV} : m[r] = mem[r]
  <2>1. msb8(c) \in Byte
    BY <1>2, Msb8Type
  <2>2. QED
    BY <1>0, <2>1
<1>c. c = (counter + IncCycle) % CounterMod
  OBVIOUS
<1> HIDE DEF c, m
<1>4. Age' = (Age + 1) % Wrap /\ Aligned'
  BY <1>1, <1>2 DEF Age, Aligned
<1>5. /\ IF timer_state(counter, mem) /\ ~timer_state(c, m) THEN Clock!Advance ELSE Clock!Stay
      /\ mem'[REG_TMA] = mem[REG_TMA] /\ mem'[REG_TAC] = mem[REG_TAC]
  BY <1>0, <1>1, <1>3, IncrIsAdvance
<1>6. (timer_state(counter, mem) /\ ~timer_state(c, m)) <=> (Rate # 0 /\ Age' % Rate = 0)
  <2>1. m[REG_TAC] = mem[REG_TAC]
    BY <1>0, <1>3
  <2>2. QED
    BY <1>c, <1>4, <2>1, EdgeCompletes
<1>7. Rate' = Rate
  BY <1>5 DEF Rate, Period
<1>8. Turn = "clock" /\ Turn' = "program" /\ ~Restart'
  BY <1>1 DEF Turn, Restart
<1>9. IF Clock!Complete(Age') THEN Clock!Advance ELSE Clock!Stay
  BY <1>5, <1>6 DEF Clock!Complete, Clock!Off
<1>10. QED
  BY <1>4, <1>5, <1>7, <1>8, <1>9 DEF Clock!Tick, Wrap

LEMMA CpuStepIsProgram ==
  ASSUME RInv, IInv', CpuStep
  PROVE  Clock!ProgramStep /\ Aligned'
<1>1. phase = "cpu_cycle" /\ phase' = "timer_bus_listener" /\ counter' = counter
  BY DEF CpuStep
<1>2. Age' = Age /\ Aligned'
  BY <1>1 DEF Age, Aligned, RInv
<1>3. Turn = "program" /\ Turn' = "settle" /\ Restart' \in BOOLEAN
  BY <1>1 DEF Turn, Restart
<1>4. /\ mem'[REG_TIMA] \in 0..ByteMax /\ mem'[REG_TMA] \in 0..ByteMax
      /\ mem'[REG_TAC] \in 0..ByteMax
  BY DEF IInv, TypeOK, TimerRegs, Byte, REG_DIV, REG_TIMA, REG_TMA, REG_TAC
<1>5. Rate' \in {Period(s) : s \in 0..3} \cup {0}
  <2>1. mem'[REG_TAC] % 4 \in 0..3
    BY <1>4, TimerAssumption
  <2>2. Rate' = IF bit_get(mem'[REG_TAC], 4) THEN Period(mem'[REG_TAC] % 4) ELSE 0
    BY DEF Rate, bit_get, Period
  <2>3. QED
    BY <2>1, <2>2
<1>6. (TIMER \in IFR') \in BOOLEAN
  OBVIOUS
<1>7. QED
  BY <1>2, <1>3, <1>4, <1>5, <1>6 DEF Clock!ProgramStep, Clock!Off

LEMMA ListenerStepIsSettle ==
  ASSUME RInv, ListenerStep
  PROVE  Clock!Settle /\ Aligned'
<1>0. mem \in [TimerRegs -> Byte] /\ IInv /\ Aligned /\ REG_DIV # REG_TAC
  BY DEF RInv, IInv, TypeOK, REG_DIV, REG_TAC
<1>1. /\ phase = "timer_bus_listener" /\ phase' = "timer_cycle"
      /\ timer_bus_listener(write_listener)
  BY DEF ListenerStep
<1>2. Turn = "settle" /\ Turn' = "clock" /\ ~Restart' /\ (Restart <=> write_listener = REG_DIV)
  BY <1>1 DEF Turn, Restart
<1>3. CASE write_listener = REG_DIV
  <2>1. /\ counter' = 0
        /\ timer_incr_if_state_change(timer_state(counter, mem), 0, mem, write_listener)
    BY <1>0, <1>1, <1>3 DEF timer_bus_listener
  <2>2. Age' = 0 /\ Aligned'
    <3>1. IncCycle * 0 + 0 = 0 /\ 0 \in 0..(IncCycle - 1)
      BY Widths
    <3>2. (IncCycle * 0 + 0) \div IncCycle = 0 /\ (IncCycle * 0 + 0) % IncCycle = 0
      BY <3>1, Widths, Unique
    <3>3. QED
      BY <2>1, <3>1, <3>2 DEF Age, Aligned
  <2>3. /\ IF timer_state(counter, mem) /\ ~timer_state(0, mem) THEN Clock!Advance ELSE Clock!Stay
        /\ mem'[REG_TMA] = mem[REG_TMA] /\ mem'[REG_TAC] = mem[REG_TAC]
    BY <1>0, <2>1, IncrIsAdvance
  <2>4. IF Clock!HalfDone(Age) THEN Clock!Advance ELSE Clock!Stay
    BY <2>3, EdgeRounds DEF Clock!HalfDone, Clock!Off
  <2>5. Rate' = Rate
    BY <2>3 DEF Rate, Period
  <2>6. QED
    BY <1>2, <1>3, <2>2, <2>3, <2>4, <2>5 DEF Clock!Settle
<1>4. CASE write_listener # REG_DIV
  <2>1. counter' = counter /\ mem' = mem /\ IFR' = IFR
    <3>1. CASE write_listener = REG_TAC
      <4>1. /\ counter' = counter
            /\ timer_incr_if_state_change(timer_state(counter, mem), counter, mem, write_listener)
        BY <1>0, <1>1, <3>1 DEF timer_bus_listener
      <4>2. QED
        BY <4>1 DEF timer_incr_if_state_change
    <3>2. CASE write_listener # REG_TAC
      BY <1>1, <1>4, <3>2 DEF timer_bus_listener
    <3>3. QED
      BY <3>1, <3>2
  <2>2. Age' = Age /\ Aligned' /\ Rate' = Rate
    BY <1>0, <2>1 DEF Age, Aligned, Rate, Period
  <2>3. Clock!Stay
    BY <2>1 DEF Clock!Stay
  <2>4. QED
    BY <1>2, <1>4, <2>1, <2>2, <2>3 DEF Clock!Settle
<1>5. QED
  BY <1>3, <1>4

LEMMA InitClock == Init => RInv /\ Clock!Init
<1> SUFFICES ASSUME Init
             PROVE  RInv /\ Clock!Init
  OBVIOUS
<1>1. IncCycle * 0 + 0 = 0 /\ 0 \in 0..(IncCycle - 1)
  BY Widths
<1>2. (IncCycle * 0 + 0) \div IncCycle = 0 /\ (IncCycle * 0 + 0) % IncCycle = 0
  BY <1>1, Widths, Unique
<1>3. Age = 0 /\ RInv
  BY <1>1, <1>2, InitIInv DEF Init, Age, Aligned, RInv
<1>4. /\ mem[REG_TIMA] = 0 /\ mem[REG_TMA] = 0 /\ mem[REG_TAC] = 0
      /\ TIMER \notin IFR /\ phase = "timer_cycle"
  BY DEF Init, TimerRegs, REG_DIV, REG_TIMA, REG_TMA, REG_TAC
<1>5. Rate = 0
  BY <1>4 DEF Rate, bit_get
<1>6. Turn = "clock" /\ ~Restart
  BY <1>4 DEF Turn, Restart
<1>7. QED
  BY <1>3, <1>4, <1>5, <1>6 DEF Clock!Init, Clock!Off

LEMMA NextClock == RInv /\ [Next]_vars => RInv' /\ [Clock!Next]_Clock!vars
<1> SUFFICES ASSUME RInv, [Next]_vars
             PROVE  RInv' /\ [Clock!Next]_Clock!vars
  OBVIOUS
<1>0. IInv'
  BY NextIInv DEF RInv
<1>1. CASE TimerStep
  BY <1>0, <1>1, TimerStepIsTick DEF RInv, Clock!Next
<1>2. CASE CpuStep
  BY <1>0, <1>2, CpuStepIsProgram DEF RInv, Clock!Next
<1>3. CASE ListenerStep
  BY <1>0, <1>3, ListenerStepIsSettle DEF RInv, Clock!Next
<1>4. CASE UNCHANGED vars
  <2>1. Aligned'
    BY <1>4 DEF vars, Aligned, RInv
  <2>2. UNCHANGED <<Turn, Age, Rate, Restart>>
    BY <1>4 DEF vars, Turn, Age, Rate, Restart, Period, bit_get
  <2>3. UNCHANGED Clock!vars
    BY <1>4, <2>2 DEF vars, Clock!vars
  <2>4. QED
    BY <1>0, <2>1, <2>3 DEF RInv
<1>5. QED
  BY <1>1, <1>2, <1>3, <1>4 DEF Next

\* TIMA counts whole periods of machine cycles and rounds the one under way when DIV is
\* reset, for every width: the counter and the falling edges of the bit that TAC selects
\* (timer_incr_if_state_change) implement TimerClock.
THEOREM EdgesCountPeriods == Spec => ImplementsClock
<1>1. Spec => Clock!Init /\ [][Clock!Next]_Clock!vars
  BY InitClock, NextClock, PTL DEF Spec
<1>2. QED
  BY <1>1 DEF ImplementsClock, Clock!Spec

USE DEF history

-------------------------------------------------------------------------------
(* The simulator: conversion of time into cycles *)

\* A quotient grows with its dividend.
LEMMA QuotientMonotone ==
  ASSUME NEW p \in Nat, NEW q \in Nat, NEW u \in Nat \ {0}, p <= q
  PROVE  p \div u <= q \div u
<1> DEFINE d == p \div u
           e == q \div u
<1>1. d \in Nat /\ u * d <= p /\ p < u * d + u
  BY Euclid
<1>2. e \in Nat /\ u * e <= q /\ q < u * e + u
  BY Euclid
<1> HIDE DEF d, e
<1>3. SUFFICES ASSUME d >= e + 1
               PROVE  FALSE
  BY <1>1, <1>2 DEF d, e
<1>4. u * (e + 1) <= u * d
  BY <1>1, <1>2, <1>3, SMT
<1>5. QED
  BY <1>1, <1>2, <1>4, SMT

\* in_cycles of an active time is a number of cycles, zero for no time.
LEMMA InCyclesType ==
  ASSUME NEW a \in Nat
  PROVE  in_cycles(a) \in Nat /\ in_cycles(0) = 0
<1>1. a * CyclesPer \in Nat
  BY SimulatorAssumption, SMT
<1>2. in_cycles(a) \in Nat
  BY <1>1, Euclid, SimulatorAssumption DEF in_cycles
<1>3. 0 * CyclesPer = 0
  BY SimulatorAssumption, SMT
<1>4. in_cycles(0) = 0
  BY <1>3, SimulatorAssumption DEF in_cycles
<1>5. QED
  BY <1>2, <1>4

\* More time is at least as many cycles.
LEMMA InCyclesMonotone ==
  ASSUME NEW a \in Nat, NEW b \in Nat, a <= b
  PROVE  in_cycles(a) <= in_cycles(b)
<1>1. a * CyclesPer \in Nat /\ b * CyclesPer \in Nat /\ a * CyclesPer <= b * CyclesPer
  BY SimulatorAssumption, SMT
<1>2. QED
  BY <1>1, QuotientMonotone, SimulatorAssumption DEF in_cycles

-------------------------------------------------------------------------------
(* The inductive invariant: peak bounds active, and time and cycles agree. *)

SimulatorInv ==
  /\ SimulatorTypeOK
  /\ PauseStopsTime
  /\ active <= peak
  /\ NeverAhead
  /\ RefusedOnlyAfterStepBack

\* The invariant holds when the window opens.
LEMMA InitSimulatorInv == SimulatorInit => SimulatorInv
<1> SUFFICES ASSUME SimulatorInit
             PROVE  SimulatorInv
  OBVIOUS
<1>1. SimulatorTypeOK
  <2>1. now \in ClockValues /\ start = now
    BY DEF SimulatorInit
  <2>2. start \in Int
    BY <2>1, SimulatorAssumption
  <2>3. paused \in Int /\ active \in Int /\ cycles \in Nat /\ peak \in Nat
    BY DEF SimulatorInit
  <2>4. timeout \in BOOLEAN /\ open \in BOOLEAN /\ refused \in BOOLEAN
    BY Zenon DEF SimulatorInit
  <2>5. QED
    BY <2>1, <2>2, <2>3, <2>4 DEF SimulatorTypeOK
<1>2. PauseStopsTime
  BY <1>1 DEF SimulatorInit, SimulatorTypeOK, PauseStopsTime
<1>3. active <= peak /\ RefusedOnlyAfterStepBack
  BY DEF SimulatorInit, RefusedOnlyAfterStepBack
<1>4. NeverAhead
  BY InCyclesType DEF SimulatorInit, NeverAhead
<1>5. QED
  BY <1>1, <1>2, <1>3, <1>4 DEF SimulatorInv

\* The target of a frame is what the active time is worth, or zero before it began.
LEMMA TargetOfFrame ==
  ASSUME SimulatorInv, timeout
  PROVE  get_time_in_GB_cycles_since(start) = IF active > 0 THEN in_cycles(active) ELSE 0
<1>1. now \in Int /\ start \in Int /\ active = now - start
  BY SimulatorAssumption DEF SimulatorInv, SimulatorTypeOK, PauseStopsTime
<1>2. (now > start) <=> (active > 0)
  BY <1>1
<1>3. QED
  BY <1>1, <1>2 DEF get_time_in_GB_cycles_since

\* A frame brings the machine at most to the cycles of the active time, and what it
\* refuses is less than it has done.
LEMMA FrameSimulatorInv ==
  ASSUME SimulatorInv, Frame
  PROVE  SimulatorInv'
<1> DEFINE target == get_time_in_GB_cycles_since(start)
<1>1. timeout /\ active \in Int /\ peak \in Nat /\ cycles \in Nat /\ active <= peak
      /\ cycles <= in_cycles(peak)
  BY DEF Frame, SimulatorInv, SimulatorTypeOK, NeverAhead
<1>2. target = IF active > 0 THEN in_cycles(active) ELSE 0
  BY <1>1, TargetOfFrame
<1>3. target \in Nat /\ target <= in_cycles(peak)
  <2>1. CASE active > 0
    BY <2>1, <1>1, <1>2, InCyclesType, InCyclesMonotone
  <2>2. CASE ~(active > 0)
    <3>1. in_cycles(peak) \in Nat
      BY <1>1, InCyclesType
    <3>2. QED
      BY <3>1, <2>2, <1>2
  <2>3. QED
    BY <2>1, <2>2
<1>4. in_cycles(peak) \in Nat
  BY <1>1, InCyclesType
<1>5. UNCHANGED <<now, start, paused, timeout, open, active, peak>>
  BY DEF Frame
<1>6. \/ target < cycles /\ refused' = TRUE /\ cycles' = cycles
      \/ target >= cycles /\ cycles' \in cycles..target /\ refused' = FALSE
  BY DEF Frame
<1> HIDE DEF target
<1>7. cycles' \in Nat /\ cycles' <= in_cycles(peak) /\ refused' \in BOOLEAN
  <2> DEFINE bound == in_cycles(peak)
  <2>1. bound \in Nat /\ target <= bound /\ cycles <= bound
    BY <1>1, <1>3, <1>4
  <2> HIDE DEF bound
  <2>2. cycles' \in Nat /\ cycles' <= bound
    BY <2>1, <1>1, <1>3, <1>6
  <2>3. refused' \in BOOLEAN
    BY <1>6
  <2>4. QED
    BY <2>2, <2>3 DEF bound
<1>8. refused' => active < peak
  <2>1. SUFFICES ASSUME refused', active = peak
                 PROVE  FALSE
    BY <1>1
  <2>2. target < cycles
    BY <2>1, <1>6
  <2>3. CASE active > 0
    BY <2>1, <2>2, <2>3, <1>1, <1>2, <1>3, <1>4
  <2>4. CASE ~(active > 0)
    <3>1. in_cycles(peak) = 0
      BY <2>1, <2>4, <1>1, InCyclesType
    <3>2. QED
      BY <3>1, <2>2, <1>1, <1>3
  <2>5. QED
    BY <2>3, <2>4
<1>9. QED
  BY <1>1, <1>5, <1>7, <1>8
     DEF SimulatorInv, SimulatorTypeOK, PauseStopsTime, NeverAhead, RefusedOnlyAfterStepBack, in_cycles

\* Every step keeps the invariant; the clock's moves are the ones that change `active`.
LEMMA NextSimulatorInv == SimulatorInv /\ [SimulatorNext]_simulatorVars => SimulatorInv'
<1> SUFFICES ASSUME SimulatorInv, [SimulatorNext]_simulatorVars
             PROVE  SimulatorInv'
  OBVIOUS
<1> USE SimulatorAssumption
<1>t. /\ now \in Int /\ start \in Int /\ paused \in Int /\ active \in Int
      /\ peak \in Nat /\ cycles \in Nat /\ timeout \in BOOLEAN
  BY DEF SimulatorInv, SimulatorTypeOK
<1>1. CASE Frame
  BY <1>1, FrameSimulatorInv
<1>2. CASE Pause
  BY <1>2, <1>t DEF Pause, SimulatorInv, SimulatorTypeOK, PauseStopsTime, NeverAhead, RefusedOnlyAfterStepBack, in_cycles
<1>3. CASE Resume
  BY <1>3, <1>t DEF Resume, SimulatorInv, SimulatorTypeOK, PauseStopsTime, NeverAhead, RefusedOnlyAfterStepBack, in_cycles
<1>4. CASE Quit
  BY <1>4, <1>t DEF Quit, SimulatorInv, SimulatorTypeOK, PauseStopsTime, NeverAhead, RefusedOnlyAfterStepBack, in_cycles
<1>5. ASSUME NEW d \in ClockSteps, ClockMoves(d)
      PROVE  SimulatorInv'
  <2>1. d \in Int /\ now' = now + d /\ now' \in ClockValues
    BY <1>5 DEF ClockMoves
  <2>2. active' = IF timeout THEN active + d ELSE active
    BY <1>5 DEF ClockMoves
  <2>3. peak' = IF active' > peak THEN active' ELSE peak
    BY <1>5 DEF ClockMoves
  <2>4. UNCHANGED <<start, paused, timeout, open, cycles>> /\ refused' = FALSE
    BY <1>5 DEF ClockMoves
  <2>5. active' \in Int /\ peak' \in Nat /\ active' <= peak' /\ peak <= peak'
    BY <2>1, <2>2, <2>3, <1>t
  <2>6. SimulatorTypeOK'
    BY <2>1, <2>4, <2>5 DEF SimulatorInv, SimulatorTypeOK
  <2>7. PauseStopsTime'
    BY <2>1, <2>2, <2>4, <1>t DEF SimulatorInv, PauseStopsTime
  <2>8. NeverAhead'
    <3>1. in_cycles(peak) \in Nat /\ in_cycles(peak') \in Nat /\ in_cycles(peak) <= in_cycles(peak')
      BY <2>5, <1>t, InCyclesType, InCyclesMonotone
    <3>2. cycles <= in_cycles(peak) /\ cycles' = cycles
      BY <2>4 DEF SimulatorInv, NeverAhead
    <3>3. cycles' <= in_cycles(peak')
      BY <3>1, <3>2, <1>t
    <3>4. QED
      BY <3>3 DEF NeverAhead, in_cycles
  <2>9. QED
    BY <2>4, <2>5, <2>6, <2>7, <2>8 DEF SimulatorInv, RefusedOnlyAfterStepBack
<1>6. CASE UNCHANGED simulatorVars
  BY <1>6 DEF simulatorVars, SimulatorInv, SimulatorTypeOK, PauseStopsTime, NeverAhead, RefusedOnlyAfterStepBack, in_cycles
<1>7. QED
  BY <1>1, <1>2, <1>3, <1>4, <1>5, <1>6 DEF SimulatorNext

-------------------------------------------------------------------------------
(* Theorems about the simulator *)

\* Pausing, resuming and changes of the clock in a pause never add to or take from the
\* machine's time (keypress_handler).
THEOREM PausesAreFree == SimulatorSpec => []PauseStopsTime
<1>1. SimulatorInv => PauseStopsTime
  BY DEF SimulatorInv
<1>2. QED
  BY InitSimulatorInv, NextSimulatorInv, <1>1, PTL DEF SimulatorSpec

\* The machine is never emulated ahead of the time it was given (generate_image).
THEOREM NotAheadOfTime == SimulatorSpec => []NeverAhead
<1>1. SimulatorInv => NeverAhead
  BY DEF SimulatorInv
<1>2. QED
  BY InitSimulatorInv, NextSimulatorInv, <1>1, PTL DEF SimulatorSpec

\* A refused target means that the clock was set back while the machine was running.
THEOREM RefusalNeedsStepBack == SimulatorSpec => []RefusedOnlyAfterStepBack
<1>1. SimulatorInv => RefusedOnlyAfterStepBack
  BY DEF SimulatorInv
<1>2. QED
  BY InitSimulatorInv, NextSimulatorInv, <1>1, PTL DEF SimulatorSpec
===============================================================================
