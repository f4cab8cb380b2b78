SPECIFICATION Spec
CONSTANTS
  CounterMod = 4
  DivUnit = 2
  ByteMax = 7
  IncCycle = 1
  TacWeight <- TacWeightDef
  INTERRUPTS = {0, 2}
  WriteValues <- InterruptsValuesDef
  IdleMod = 8
  INTERRUPT_CYCLES = 2
  Program = {"HALT", "STORE", "UNKN"}
  StoreAddrs <- MaskAddrs
  Store16Addrs <- RamOnly
  MaxRun = 1
  MaxAborted = 1
INVARIANT
  ReturnMeansDone
