SPECIFICATION FairSpec
CONSTANTS
  CounterMod = 4
  DivUnit = 2
  ByteMax = 7
  IncCycle = 1
  TacWeight <- TacWeightDef
  INTERRUPTS = {0, 2}
  WriteValues <- InterruptsValuesDef
  IdleMod = 4
  INTERRUPT_CYCLES = 2
  Program = {"HALT", "EI", "DI", "STORE", "STORE16"}
  StoreAddrs <- InterruptsAddrsDef
  Store16Addrs <- InterruptsAddrs16Def
  MaxRun = 2
  MaxAborted = 0
PROPERTIES
  RequestKept
  TimerWakes
  CallReturns
