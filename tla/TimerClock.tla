------------------------------ MODULE TimerClock ------------------------------
(***************************************************************************)
(* What the Game Boy timer promises, stated in time and not in bits.       *)
(*                                                                         *)
(* The clock measures the machine cycles elapsed since the divider was     *)
(* last restarted.  While the timer runs at some rate, TIMA advances once  *)
(* for every whole period, and a restart rounds the period under way: TIMA *)
(* also advances when half of it, or more, has gone by.  Advancing past    *)
(* the largest value reloads TIMA from TMA and requests an interrupt.      *)
(*                                                                         *)
(* The detailed module Timer implements this with one 16-bit counter and   *)
(* an edge detector on one of its bits.                                    *)
(***************************************************************************)
EXTENDS Integers

CONSTANTS
  Wrap,         \* machine cycles after which the divider starts again
  Periods,      \* the rates a program can select, in machine cycles
  TimaMax       \* the largest value of TIMA

VARIABLES
  turn,         \* whose turn it is: "clock", "program" or "settle"
  age,          \* machine cycles since the divider was restarted
  rate,         \* the selected period, or Off
  tima, tma,    \* the count, and the value it is reloaded with
  requested,    \* an interrupt is requested and not yet served
  restart       \* the program asked for a restart of the divider

vars == <<turn, age, rate, tima, tma, requested, restart>>

Off == 0

Init ==
  /\ turn = "clock" /\ age = 0 /\ rate = Off
  /\ tima = 0 /\ tma = 0 /\ requested = FALSE /\ restart = FALSE

Advance ==
  /\ tima' = IF tima = TimaMax THEN tma ELSE tima + 1
  /\ requested' = (requested \/ tima = TimaMax)

Stay == UNCHANGED <<tima, requested>>

\* A period is complete at age a.
Complete(a) == rate # Off /\ a % rate = 0

\* At age a at least half of a period is under way.
HalfDone(a) == rate # Off /\ 2 * (a % rate) >= rate

Tick ==
  /\ turn = "clock" /\ turn' = "program"
  /\ age' = (age + 1) % Wrap
  /\ restart' = FALSE
  /\ IF Complete(age') THEN Advance ELSE Stay
  /\ UNCHANGED <<rate, tma>>

\* One program step: it may set a register, serve the interrupt, ask for a restart.
ProgramStep ==
  /\ turn = "program" /\ turn' = "settle"
  /\ tima' \in 0..TimaMax /\ tma' \in 0..TimaMax
  /\ rate' \in Periods \cup {Off}
  /\ requested' \in BOOLEAN /\ restart' \in BOOLEAN
  /\ UNCHANGED age

Settle ==
  /\ turn = "settle" /\ turn' = "clock"
  /\ IF restart
     THEN age' = 0 /\ IF HalfDone(age) THEN Advance ELSE Stay
     ELSE UNCHANGED age /\ Stay
  /\ restart' = FALSE
  /\ UNCHANGED <<rate, tma>>

Next == Tick \/ ProgramStep \/ Settle

Spec == Init /\ [][Next]_vars
===============================================================================
