SPECIFICATION ChecksSpec
CONSTANTS
  Structs <- TheStructs
  Enums <- TheEnums
  Consts <- TheConsts
  Funcs <- NoFuncs
  Narrow = 2
  Wide = 3
  CAP = 9
  CEILING = 64
  NoValue = NoValue
  Variants = {"On", "Off"}
  Nodes = 4
  Degree = 2
  MAX_DEPTH = 3
INVARIANTS ExpressionsRight EndingsRight WalkRight
CHECK_DEADLOCK FALSE
