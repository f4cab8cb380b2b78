SPECIFICATION Spec
CONSTANTS
  CounterMod = 64
  DivUnit = 8
  ByteMax = 7
  IncCycle = 1
  INTERRUPTS = {0, 2}
  TacWeight <- TacWeightDef
  WriteValues <- WriteValuesDef
INVARIANTS
  TypeOK
  DivShowsCounter
PROPERTY
  ImplementsClock
  KeepsTicking
