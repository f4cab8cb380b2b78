SPECIFICATION FairSpec
CONSTANTS
  ByteCount = 2
  StackTop = 4
  MaxDepth = 2
  PushWords = {1}
  Targets = {3}
  IdleMod = 16
  INTERRUPTS = {0, 2}
  VectorStep = 1
  Program <- Families
  MaxHaltIdle = 1
INVARIANTS
  TypeOK
  NeverEarly
PROPERTIES
  ImplementsCallStack
  Served
  Resumes
