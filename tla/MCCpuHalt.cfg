SPECIFICATION Spec
CONSTANTS
  ByteCount = 3
  StackTop = 8
  MaxDepth = 1
  PushWords = {5}
  Targets = {2}
  IdleMod = 16
  INTERRUPTS = {2}
  VectorStep = 2
  Program = {"NOP", "HALT", "LD_N8R_A"}
  MaxHaltIdle = 2
INVARIANT
  OnTime
