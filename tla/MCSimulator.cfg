SPECIFICATION SimulatorSpec
CONSTANTS
  CyclesPer = 5
  UnitsPer = 4
  ClockValues <- ClockDef
  ActiveTimes <- ActiveDef
  ClockSteps <- StepsDef
CHECK_DEADLOCK FALSE
INVARIANTS
  PauseStopsTime
  NeverAhead
  RefusedOnlyAfterStepBack
