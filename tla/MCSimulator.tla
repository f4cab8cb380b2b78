------------------------------ MODULE MCSimulator ------------------------------
(* Instances of Simulator for TLC: a clock of seven ticks that also jumps ahead and *)
(* goes back, five cycles in four ticks.                                          *)
EXTENDS Simulator

ClockDef == 0..6
StepsDef == {-2, 1, 3}
ActiveDef == -2..7
===============================================================================
