CONSTANTS
  Depth = 2
  MaxWrites = 3
  MaxDisturbances = 4
  None = None
SPECIFICATION Spec
INVARIANTS
  TypeOK
  QuietAnswer
  NoResidue
PROPERTY KeepsPromise
