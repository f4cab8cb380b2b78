SPECIFICATION Spec
CONSTANTS
  CounterMod = 8
  DivUnit = 4
  ByteMax = 7
  IncCycle = 1
  TacWeight <- TacWeightDef
  INTERRUPTS = {2, 4}
  WriteValues <- StoresValuesDef
  IdleMod = 8
  INTERRUPT_CYCLES = 2
  Program = {"NOP", "STORE", "STORE16", "UNKN"}
  StoreAddrs <- StoresAddrsDef
  Store16Addrs <- StoresAddrs16Def
  MaxRun = 2
  MaxAborted = 1
INVARIANTS
  TypeOK
  StoreIsHeard
  BootMapping
  TimerLead
