CONSTANTS
  a = a
  inv = inv
  Codes <- MCCodes
  InvalidCode = inv
  PoolSize = 5
  NumHandles = 2
  Sizes <- MCSizes
SPECIFICATION Spec
INVARIANT TypeOK
INVARIANT RingsConsistent
INVARIANT RingsDisjoint
PROPERTY ImplementsFifos
