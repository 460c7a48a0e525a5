CONSTANTS
  a = a
  m = m
  n = n
  inv = inv
  Codes <- MCCodes
  InvalidCode = inv
  PoolSize = 4
  NumHandles = 2
  Sizes = {2}
  KeycodeSize = 2
  MessageSize = 2
  TypedCodes <- MCTyped
  Messages <- MCMessages
SPECIFICATION MainSpec
INVARIANT MainTypeOK
PROPERTIES OnePassPerTick KeepsPort Drains
