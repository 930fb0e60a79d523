SPECIFICATION Spec
CONSTANTS
  Structs <- TheStructs
  Enums <- TheEnums
  Consts <- TheConsts
  Narrow = 1
  Wide = 2
  CAP = 3
  CEILING = 64
  NoValue = NoValue
  Funcs <- TheFuncs
  Depth <- TheDepth
  Statements <- TheStatements
  HostCalls <- TheCalls
  MaxObjects <- TheBounds
  MaxBlocks = 1
INVARIANTS RunsAsTyped NoAliasing FrozenStands
CHECK_DEADLOCK FALSE
