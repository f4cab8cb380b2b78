SPECIFICATION Spec
CONSTANTS
  AddrCount = 20
  Start <- StartDef
  End <- EndDef
  REG_IF = 15
  REG_IE = 19
  MaxFailures = 4
CHECK_DEADLOCK FALSE
INVARIANTS
  EveryAddressLives
  EchoMirrors
  FreedOnce
  LeaksNeedFailures
