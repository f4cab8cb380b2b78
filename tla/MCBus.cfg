SPECIFICATION Spec
SYMMETRY Symmetry
CONSTANTS
  AddrCount = 4
  Components = {c1, c2}
  Sizes = {1, 3}
  MaxMem = 2
  c1 = c1
  c2 = c2
INVARIANTS
  TypeOK
  MappedWhilePlugged
  StaleOnlyAtEnds
  PlugEnds
  WildOnlyAtEnds
