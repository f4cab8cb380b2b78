------------------------------- MODULE Simulator -------------------------------
(***************************************************************************)
(* The window that drives the machine (gbsimulator.c and sidlib.c): GTK's  *)
(* loop calls generate_image every REFRESH_TIME, which runs the machine up *)
(* to the cycle that belongs to the wall clock; the space key removes and  *)
(* adds that timeout and moves `start` by the time spent paused.           *)
(*                                                                         *)
(* The clock is gettimeofday's, which may also be set, backwards or        *)
(* forwards, at any time.  The joypad that other keys reach is external.   *)
(***************************************************************************)
EXTENDS Integers

CONSTANTS
  CyclesPer, UnitsPer,  \* CyclesPer cycles of the machine in UnitsPer units of time
  ClockSteps,           \* by how much the clock moves at once, negative when it is set back
  ClockValues,          \* bound: the values of the clock
  ActiveTimes           \* bound: the values of active

ASSUME SimulatorAssumption ==
  /\ CyclesPer \in Nat /\ UnitsPer \in Nat \ {0}
  /\ ClockSteps \subseteq Int /\ ClockValues \subseteq Int /\ ActiveTimes \subseteq Int

VARIABLES
  now,          \* what gettimeofday returns
  start,        \* gbsimulator.c's start
  paused,       \* gbsimulator.c's paused
  timeout,      \* simple_image_displayer_t.timeout_id > 0
  open,         \* gtk_main has not been left
  cycles,       \* gameboy_t.cycles
  active,       \* history: clock time that has passed while the timeout was set
  peak,         \* history: the largest value of active so far
  refused       \* history: gameboy_run_until has refused a target since the clock moved

simulatorVars == <<now, start, paused, timeout, open, cycles, active, peak, refused>>
history == <<active, peak>>

\* main has created the machine, set start and launched the window.
SimulatorInit ==
  /\ now \in ClockValues /\ start = now /\ paused = 0
  /\ timeout = TRUE /\ open = TRUE /\ cycles = 0
  /\ active = 0 /\ peak = 0 /\ refused = FALSE

-------------------------------------------------------------------------------

in_cycles(delta) == (delta * CyclesPer) \div UnitsPer

get_time_in_GB_cycles_since(from) == IF now > from THEN in_cycles(now - from) ELSE 0

\* update_ and generate_image.  The result of gameboy_run_until is ignored: the call may
\* refuse the target, reach it, or stop early at an instruction it does not know.
Frame ==
  /\ open /\ timeout
  /\ LET target == get_time_in_GB_cycles_since(start) IN
     \/ target < cycles /\ refused' = TRUE /\ UNCHANGED cycles
     \/ target >= cycles /\ cycles' \in cycles..target /\ refused' = FALSE
  /\ UNCHANGED <<now, start, paused, timeout, open, history>>

\* The space key: keypress_handler first, then ds_simple_key_handler.
Pause ==
  /\ open /\ timeout
  /\ paused' = now
  /\ timeout' = FALSE
  /\ UNCHANGED <<now, start, open, cycles, history, refused>>

\* Mutant: the time of the pause is taken from start.
ResumeBackwards ==
  /\ open /\ ~timeout
  /\ start' = start - (now - paused) /\ paused' = 0
  /\ timeout' = TRUE
  /\ UNCHANGED <<now, open, cycles, history, refused>>

\* Mutant: the time of the pause is not taken into account.
ResumeUnmoved ==
  /\ open /\ ~timeout
  /\ start' = start /\ paused' = 0
  /\ timeout' = TRUE
  /\ UNCHANGED <<now, open, cycles, history, refused>>

\* Mutant: the machine's time starts again at zero.
ResumeFromNow ==
  /\ open /\ ~timeout
  /\ start' = now /\ paused' = 0
  /\ timeout' = TRUE
  /\ UNCHANGED <<now, open, cycles, history, refused>>

Resume ==
  /\ open /\ ~timeout
  /\ start' = start + (now - paused) /\ paused' = 0
  /\ timeout' = TRUE
  /\ UNCHANGED <<now, open, cycles, history, refused>>

\* The q key, or the window is closed.
Quit ==
  /\ open /\ open' = FALSE
  /\ UNCHANGED <<now, start, paused, timeout, cycles, history, refused>>

\* Time goes by, or the clock is set.
ClockMoves(d) ==
  /\ open
  /\ now + d \in ClockValues /\ now' = now + d
  /\ active' = IF timeout THEN active + d ELSE active
  /\ active' \in ActiveTimes
  /\ peak' = IF active' > peak THEN active' ELSE peak
  /\ refused' = FALSE
  /\ UNCHANGED <<start, paused, timeout, open, cycles>>

SimulatorNext == Frame \/ Pause \/ Resume \/ Quit \/ \E d \in ClockSteps : ClockMoves(d)

SimulatorSpec == SimulatorInit /\ [][SimulatorNext]_simulatorVars

-------------------------------------------------------------------------------
(* Properties *)

SimulatorTypeOK ==
  /\ now \in ClockValues /\ start \in Int /\ paused \in Int
  /\ timeout \in BOOLEAN /\ open \in BOOLEAN /\ refused \in BOOLEAN
  /\ cycles \in Nat /\ active \in Int /\ peak \in Nat

\* The machine's time is the time during which it was not paused: however often the
\* window pauses and resumes, and whatever the clock does in a pause, what start and
\* paused stand for is the active time alone (keypress_handler, gbsimulator.c:138).
PauseStopsTime == active = (IF timeout THEN now ELSE paused) - start

\* The machine never runs for time it was not given: no pause, resume or change of the
\* clock makes it emulate ahead of the longest active time so far.
NeverAhead == cycles <= in_cycles(peak)

\* gameboy_run_until refuses a target, an error that generate_image ignores, only when
\* the clock has been set back while the machine was running.
RefusedOnlyAfterStepBack == refused => active < peak
===============================================================================
